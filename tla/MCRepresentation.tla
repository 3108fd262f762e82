-------------------------- MODULE MCRepresentation --------------------------
(* What becomes of a peer's messages, in one run: the observations that      *)
(* derivers, agents' tools and the API store (Observations), or the batches  *)
(* a deriver takes the messages in (RepresentationBatch), those of a peer    *)
(* and one companion, who may join and leave as an observer in between.      *)
(* The two share no state: a behaviour has one of them.                      *)
EXTENDS Observations

CONSTANTS
  w1, w2, p1, p2, short, long, other,
  alice, bob, plain, custom,
  Peer, Observed, Config, TokenCount, BatchMaxTokens, MaxMessages

VARIABLES part, messages, processed, serving, derived

Unit == INSTANCE RepresentationBatch

ASSUME DocumentsAssumed == ObservationsAssumption
ASSUME UnitAssumed == Unit!BatchAssumption

unitVars == <<messages, processed, serving, derived>>
bothVars == <<observationVars, part, unitVars>>

\* "long" says what "short" says and more, "other" is a longer text that is near to it.
MCTokens == [c \in Content |-> CASE c = short -> {1} [] c = other -> {2, 3} [] OTHER -> {1, 3}]
MCSimilar == {p \in Content \X Content : p[1] = p[2] \/ long \in {p[1], p[2]}}
MCBatches == {{long}, {short, other}}

At(kind, home) == [kind |-> kind, home |-> home]

\* Two tools of one process, a tool and its process's deriver, a deriver and the API.
MCStaffs ==
  LET pairs == {<<At("tool", p1), At("tool", p1)>>, <<At("tool", p1), At("deriver", p1)>>,
                <<At("deriver", p1), At("api", p2)>>}
  IN {[w \in Writer |-> IF w = w1 THEN pair[1] ELSE pair[2]] : pair \in pairs}

BothTypeOK == part \in {"batches", "documents"} /\ TypeOK /\ Unit!TypeOK

BothInit ==
  /\ part \in {"batches", "documents"}
  /\ Init /\ Unit!Init
  /\ part # "documents" =>
       ~external /\ docs = <<>> /\ staff = CHOOSE s \in Staffs : TRUE

BothNext ==
  \/ part = "documents" /\ Next /\ UNCHANGED <<part, unitVars>>
  \/ part = "batches" /\ Unit!Next /\ UNCHANGED <<part, observationVars>>

\* The task that holds the unit goes on, as in RepresentationBatch.
BothSpec ==
  /\ BothInit /\ [][BothNext]_bothVars
  /\ WF_bothVars(part = "batches" /\ Unit!Fetch /\ UNCHANGED <<part, observationVars>>)
  /\ WF_bothVars(part = "batches" /\ (Unit!Derive \/ Unit!Raise)
                   /\ UNCHANGED <<part, observationVars>>)

\* A batch's context is the conversation of its rows without a gap, from the first one or
\* the other peer's message right before it (get_queue_item_batch).
ContextIsTheConversation == Unit!ContextIsTheConversation

\* A fetch serves exactly the longest run of first pending rows that fits the budget and
\* shares one configuration (get_queue_item_batch).
BatchIsLongestRun == Unit!BatchIsLongestRun

\* Rows do not starve behind a large message, a change of configuration or a row that
\* keeps failing (process_work_unit and get_queue_item_batch).
RowsDrain == Unit!RowsDrain
=============================================================================
