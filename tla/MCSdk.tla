------------------------------- MODULE MCSdk --------------------------------
(* What the SDKs do for a user, in one run: adding messages through timeouts  *)
(* and retries (SdkCalls), iterating over pages while others write            *)
(* (SdkPages), or using the objects of records from two programs              *)
(* (SdkHandles).  The three share no state: a behaviour has one of them.      *)
EXTENDS SdkCalls

CONSTANTS w1, w2, Kinds, Writer, PageSize, MaxRows, NoTime,
          Programs, Languages, Records, MaxUses, None

VARIABLES part, kind, rows, born, open, removed, page, pages, seen, atStart,
          recordKind, language, record, clientEnsured, object, task, uses, intended, overtaken

Pages == INSTANCE SdkPages
Handles == INSTANCE SdkHandles WITH ensured <- clientEnsured

ASSUME PagesAssumed == Pages!PagesAssumption
ASSUME HandlesAssumed == Handles!HandlesAssumption

pageVars == <<kind, rows, born, open, removed, page, pages, seen, atStart>>
handleVars ==
  <<recordKind, language, record, clientEnsured, object, task, uses, intended, overtaken>>
sdkVars == <<vars, part, pageVars, handleVars>>

SdkTypeOK ==
  part \in {"calls", "pages", "handles"} /\ TypeOK /\ Pages!TypeOK /\ Handles!TypeOK

\* The two programs of SdkHandles, in each pair of SDKs.
MCLanguages ==
  LET SDKs == {<<"python", "python">>, <<"python", "aio">>, <<"python", "typescript">>,
               <<"aio", "aio">>, <<"aio", "typescript">>, <<"typescript", "typescript">>}
  IN {[p \in {w1, w2} |-> IF p = w1 THEN pair[1] ELSE pair[2]] : pair \in SDKs}

SdkInit ==
  /\ part \in {"calls", "pages", "handles"}
  /\ Init /\ Pages!Init /\ Handles!Init
  /\ part # "calls" => client = CHOOSE c \in Clients : TRUE
  /\ part # "pages" => kind = CHOOSE k \in Kinds : TRUE
  /\ part # "handles" =>
       /\ recordKind = CHOOSE k \in Records : TRUE
       /\ language = CHOOSE l \in Languages : TRUE
       /\ record = Handles!NoRecords

SdkNext ==
  \/ part = "calls" /\ Next /\ UNCHANGED <<part, pageVars, handleVars>>
  \/ part = "pages" /\ Pages!Next /\ UNCHANGED <<part, vars, handleVars>>
  \/ part = "handles" /\ Handles!Next /\ UNCHANGED <<part, vars, pageVars>>

SdkSpec ==
  SdkInit /\ [][SdkNext]_sdkVars
    /\ WF_sdkVars(part = "calls" /\ ClientStep /\ UNCHANGED <<part, pageVars, handleVars>>)

\* An iteration yields every item that was there from its start to its end, and what it
\* may miss has a cause (SyncPage.__iter__ of pagination.py and its like).
IterationIsExhaustive == Pages!IterationIsExhaustive

\* What a call puts into the cache of an object was the server's at some moment of that
\* call (mixins.py and its like).
CachesWereTrue == Handles!CachesWereTrue

\* A record is what the programs' updates and deletions have made of it, except after a
\* Python program used the objects of a listing or of a clone (Peer.__init__ and
\* Session.__init__ send the values they are given).
UpdatesSurvive == Handles!UpdatesSurvive
=============================================================================
