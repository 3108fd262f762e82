---------------------------- MODULE Observations ----------------------------
(***************************************************************************)
(* What happens to an observation that somebody wants to remember, in one  *)
(* collection: create_documents with its duplicate detection               *)
(* (src/src/crud/document.py), called for a deriver's representation       *)
(* (src/src/crud/representation.py) or for an agent's tool                 *)
(* (src/src/utils/agent_tools.py, which serialises the tools of a process  *)
(* with a lock), and create_observations of the API, which compares        *)
(* nothing.                                                                *)
(*                                                                         *)
(* A call is one transaction: the duplicates it supersedes are updated one *)
(* by one (and their rows locked), its documents are inserted at the end.  *)
(* The new observations of a call are a set: a call compares them with     *)
(* what is stored, never with each other.                                  *)
(***************************************************************************)
EXTENDS Integers, FiniteSets

CONSTANTS
  Writer,     \* places from which observations are created
  Home,       \* processes
  Staffs,     \* the possible [Writer -> [kind, home]]
  Content,    \* texts
  TokensOf,   \* [Content -> set of tokens]
  Similar,    \* pairs of texts within the cosine distance of 0.05
  MaxCalls,   \* bound: calls
  MaxDeletes, \* bound: documents deleted on request
  Batches,    \* bound: what a call may want to create
  None

ObservationsAssumption ==
  /\ \A s \in Staffs : s \in [Writer -> [kind : {"tool", "deriver", "api"}, home : Home]]
  /\ \A c \in Content : IsFiniteSet(TokensOf[c]) /\ <<c, c>> \in Similar
  /\ \A p \in Similar : p \in Content \X Content /\ <<p[2], p[1]>> \in Similar
  /\ Batches \subseteq SUBSET Content
  /\ None \notin Home \union Writer \union (Nat \X Content) \union ((Nat \X Content) \X Content)

VARIABLES
  external,   \* the vectors are in an external store (TURBOPUFFER, LANCEDB)
  staff,
  docs,       \* the collection: <<number of its commit, content>> -> document
  commits,
  vectors,    \* documents with a vector in the external store
  job,        \* [Writer -> the call it is in, or Idle]
  holder,     \* [Home -> who holds the collection's lock of _observation_locks]
  calls,
  answered    \* history: <<observation, the document that stands for it>>

observationVars == <<external, staff, docs, commits, vectors, job, holder, calls, answered>>

Idle == [at |-> "idle", todo |-> {}, kept |-> {}, superseded |-> {}, rejected |-> {},
         target |-> None, fresh |-> {}]

Locks(w) == staff[w].kind = "tool"
Deduplicates(w) == staff[w].kind \in {"tool", "deriver"}    \* DERIVER.DEDUPLICATE is on
HomeOf(w) == IF Locks(w) THEN staff[w].home ELSE None

Size(c) == Cardinality(TokensOf[c])
TextOf(i) == i[2]

Id == DOMAIN docs

Job == [at : {"idle", "waiting", "embedding", "checking", "reading", "superseding", "upserting"},
        todo : SUBSET Content,
        kept : SUBSET (Content \X (Id \union {None})),   \* with the duplicate found
        superseded : SUBSET (Id \X Content),   \* flushed: the old one, the new one
        rejected : SUBSET (Content \X Id),     \* the new one, the old one
        target : (Id \X Content) \union {None},
        fresh : SUBSET Id]

Document == [state : {"active", "deleted", "purged"}, explicit : BOOLEAN,
             heirs : SUBSET Id, by : Home \union {None}, hit : Id \union {None}]

TypeOK ==
  /\ external \in BOOLEAN /\ staff \in Staffs
  /\ commits \in Nat /\ calls \in Nat
  /\ Id \subseteq (1..commits) \X Content
  /\ docs \in [Id -> Document]
  /\ vectors \subseteq Id
  /\ job \in [Writer -> Job]
  /\ holder \in [Home -> Writer \union {None}]
  /\ answered \subseteq Content \X Id

-----------------------------------------------------------------------------
(* What a check sees. *)

\* The rows a transaction reads: committed and not deleted, nor superseded by itself.
Visible(w) == {i \in Id : docs[i].state = "active"} \ {p[1] : p \in job[w].superseded}

\* Nobody else has updated the row in a transaction that still runs.
Unlocked(w, i) == \A v \in Writer \ {w} : \A p \in job[v].superseded : p[1] # i

\* top_k = 1: the nearest of the similar ones, which is an equal text if there is one.
Nearest(S, c) ==
  LET near  == {i \in S : <<c, TextOf(i)>> \in Similar}
      equal == {i \in near : TextOf(i) = c}
  IN IF equal # {} THEN equal ELSE near

\* How much a text says that another does not, as is_rejected_duplicate counts it.
Score(A, B) == Cardinality(A) + Cardinality(A \ B) * 10
SaysMore(c, i) == Score(TokensOf[c], TokensOf[TextOf(i)]) >= Score(TokensOf[TextOf(i)], TokensOf[c])

-----------------------------------------------------------------------------
(* A call. *)

Release(w) == holder' = [h \in Home |-> IF holder[h] = w THEN None ELSE holder[h]]

Begin(w) ==
  /\ job[w] = Idle /\ calls < MaxCalls /\ calls' = calls + 1
  /\ \E new \in Batches :
       job' = [job EXCEPT ![w] = [Idle EXCEPT !.at = IF Locks(w) THEN "waiting" ELSE "embedding",
                                              !.todo = new]]
  /\ UNCHANGED <<external, staff, docs, commits, vectors, holder, answered>>

\* async with ctx.db_lock: one lock for all executors of the process.
LockOfItsOwn(w) ==                                                   \* mutant
  /\ job[w].at = "waiting"
  /\ job' = [job EXCEPT ![w].at = "embedding"]
  /\ UNCHANGED <<external, staff, docs, commits, vectors, holder, calls, answered>>
Acquire(w) ==
  /\ job[w].at = "waiting" /\ holder[staff[w].home] = None
  /\ holder' = [holder EXCEPT ![staff[w].home] = w]
  /\ job' = [job EXCEPT ![w].at = "embedding"]
  /\ UNCHANGED <<external, staff, docs, commits, vectors, calls, answered>>

\* A tool embeds one by one if the batch failed, and does without those that fail again.
\* The API compares nothing: its documents are ready to be inserted.
Embed(w) ==
  /\ job[w].at = "embedding"
  /\ \E new \in SUBSET job[w].todo :
       /\ new = job[w].todo \/ Locks(w)
       /\ job' = [job EXCEPT ![w].at = "checking",
                             ![w].todo = IF Deduplicates(w) THEN new ELSE {},
                             ![w].kept = IF Deduplicates(w) THEN {} ELSE new \X {None}]
  /\ UNCHANGED <<external, staff, docs, commits, vectors, holder, calls, answered>>

Keep(w, c, hit) ==
  job' = [job EXCEPT ![w].at = "checking", ![w].todo = @ \ {c}, ![w].target = None,
                     ![w].kept = @ \union {<<c, hit>>}]

\* The existing document says more and stands for the new one, or is to be superseded by it.
Decide(w, c, i) ==
  IF SaysMore(c, i)
  THEN job' = [job EXCEPT ![w].at = "superseding", ![w].target = <<i, c>>]
  ELSE job' = [job EXCEPT ![w].at = "checking", ![w].todo = @ \ {c}, ![w].target = None,
                          ![w].rejected = @ \union {<<c, i>>}]

\* query_documents, on the embeddings in Postgres.
QueryRows(w) ==
  /\ job[w].at = "checking" /\ ~external
  /\ \E c \in job[w].todo :
       LET found == Nearest(Visible(w), c) IN
       \/ found = {} /\ Keep(w, c, None)
       \/ \E i \in found : Decide(w, c, i)
  /\ UNCHANGED <<external, staff, docs, commits, vectors, holder, calls, answered>>

\* query_documents asks the external store, and then for the row of what it answers.
QueryVectors(w) ==
  /\ job[w].at = "checking" /\ external
  /\ \E c \in job[w].todo :
       LET found == Nearest(vectors, c) IN
       \/ found = {} /\ Keep(w, c, None)
       \/ \E i \in found : job' = [job EXCEPT ![w].at = "reading", ![w].target = <<i, c>>]
       \/ job' = [job EXCEPT ![w].todo = @ \ {c}]      \* it raises: logged, and the next one
  /\ UNCHANGED <<external, staff, docs, commits, vectors, holder, calls, answered>>

ReadRow(w) ==
  /\ job[w].at = "reading" /\ external
  /\ LET i == job[w].target[1]
         c == job[w].target[2]
     IN IF i \in Visible(w) THEN Decide(w, c, i) ELSE Keep(w, c, None)
  /\ UNCHANGED <<external, staff, docs, commits, vectors, holder, calls, answered>>

\* The flush: an UPDATE by id, which waits for the row and overwrites an earlier deletion.
\* It raises if cleanup has removed the row (Abort).
Supersede(w) ==
  LET i == job[w].target[1]
      c == job[w].target[2]
  IN /\ job[w].at = "superseding" /\ Unlocked(w, i) /\ docs[i].state # "purged"
     /\ job' = [job EXCEPT ![w].at = "checking", ![w].todo = @ \ {c}, ![w].target = None,
                           ![w].superseded = @ \union {<<i, c>>},
                           ![w].kept = @ \union {<<c, i>>}]
     /\ UNCHANGED <<external, staff, docs, commits, vectors, holder, calls, answered>>

\* The documents as the commit leaves them: what it superseded is soft-deleted.
NewIds(w) == {<<commits + 1, p[1]>> : p \in job[w].kept}
HeirsOf(w, i) == {<<commits + 1, p[2]>> : p \in {q \in job[w].superseded : q[1] = i}}
HitsOf(w, c) == {p[2] : p \in {q \in job[w].kept : q[1] = c}}
NewDocument(w, c) ==
  [state |-> "active", explicit |-> FALSE, heirs |-> {}, by |-> HomeOf(w),
   hit |-> CHOOSE h \in HitsOf(w, c) : TRUE]
Inherited(w, i) ==
  IF HeirsOf(w, i) = {} THEN docs[i]
  ELSE [docs[i] EXCEPT !.state = "deleted", !.heirs = @ \union HeirsOf(w, i)]

Commit(w) ==
  /\ job[w].at = "checking" /\ job[w].todo = {}
  /\ docs' = [i \in Id \union NewIds(w) |->
                IF i \in Id THEN Inherited(w, i) ELSE NewDocument(w, TextOf(i))]
  /\ commits' = commits + 1
  /\ answered' = answered \union job[w].rejected \union {<<TextOf(i), i>> : i \in NewIds(w)}
  /\ IF external /\ job[w].kept # {}
     THEN /\ job' = [job EXCEPT ![w] = [Idle EXCEPT !.at = "upserting", !.fresh = NewIds(w)]]
          /\ UNCHANGED holder
     ELSE job' = [job EXCEPT ![w] = Idle] /\ Release(w)
  /\ UNCHANGED <<external, staff, vectors, calls>>

\* All vectors are stored, or none after three attempts (the reconciler adds them).
Upsert(w) ==
  /\ job[w].at = "upserting"
  /\ \E stored \in {{}, job[w].fresh} : vectors' = vectors \union stored
  /\ job' = [job EXCEPT ![w] = Idle] /\ Release(w)
  /\ UNCHANGED <<external, staff, docs, commits, calls, answered>>

\* The call raises before its commit: an embedding or a statement fails, the row to be
\* superseded is gone, two calls wait for each other's rows, the process ends.
DeletionsStay(w) ==                                                  \* mutant
  [i \in Id |-> IF \E p \in job[w].superseded : p[1] = i
                         THEN [docs[i] EXCEPT !.state = "deleted"] ELSE docs[i]]
RolledBack(w) == docs
Abort(w) ==
  /\ job[w].at \in {"embedding", "checking", "reading", "superseding"}
  /\ docs' = RolledBack(w)
  /\ job' = [job EXCEPT ![w] = Idle] /\ Release(w)
  /\ UNCHANGED <<external, staff, commits, vectors, calls, answered>>

-----------------------------------------------------------------------------
(* The rest of a document's life, in short. *)

Free(i) == \A w \in Writer : Unlocked(w, i)

\* delete_document and delete_document_by_id.
Delete(i) ==
  /\ docs[i].state = "active" /\ Free(i)
  /\ Cardinality({j \in Id : docs[j].explicit}) < MaxDeletes
  /\ docs' = [docs EXCEPT ![i].state = "deleted", ![i].explicit = TRUE]
  /\ UNCHANGED <<external, staff, commits, vectors, job, holder, calls, answered>>

\* Cleanup, after the grace period: the vector, then the row.
Purge(i) ==
  /\ docs[i].state = "deleted" /\ Free(i)
  /\ docs' = [docs EXCEPT ![i].state = "purged"]
  /\ vectors' = vectors \ {i}
  /\ UNCHANGED <<external, staff, commits, job, holder, calls, answered>>

Reconcile(i) ==
  /\ external /\ docs[i].state = "active" /\ i \notin vectors
  /\ vectors' = vectors \union {i}
  /\ UNCHANGED <<external, staff, docs, commits, job, holder, calls, answered>>

-----------------------------------------------------------------------------
\* The collection holds what an earlier call of the API has created, if anything.
Init ==
  /\ external \in BOOLEAN /\ staff \in Staffs
  /\ \E stored \in Batches \union {{}} :
       docs = [i \in {1} \X stored |-> [state |-> "active", explicit |-> FALSE, heirs |-> {},
                                       by |-> None, hit |-> None]]
  /\ commits = 1 /\ vectors = IF external THEN Id ELSE {}
  /\ job = [w \in Writer |-> Idle] /\ holder = [h \in Home |-> None]
  /\ calls = 0 /\ answered = {}

CallStep(w) ==
  \/ Begin(w) \/ Acquire(w) \/ Embed(w) \/ QueryRows(w) \/ QueryVectors(w) \/ ReadRow(w)
  \/ Supersede(w) \/ Commit(w) \/ Upsert(w) \/ Abort(w)

Next ==
  \/ \E w \in Writer : CallStep(w)
  \/ \E i \in Id : Delete(i) \/ Purge(i) \/ Reconcile(i)

Spec == Init /\ [][Next]_observationVars
-----------------------------------------------------------------------------
\* Forgetting a duplicate forgets nothing: an observation that a call accepted or rejected
\* is represented by a text that is no shorter (in tokens), and so on for whatever replaced
\* that one, until a document that is active or that somebody deleted on purpose.
InformationKept ==
  /\ \A p \in answered : Size(TextOf(p[2])) >= Size(p[1])
  /\ \A i \in Id :
       docs[i].state # "active" /\ ~docs[i].explicit =>
         \E h \in docs[i].heirs : h[1] > i[1] /\ Size(TextOf(h)) >= Size(TextOf(i))

\* The tools of a process do not miss each other's documents: with the embeddings in Postgres,
\* a later one that is similar to one that is still there was compared with another one.
LockedToolsSee ==
  ~external =>
    \A i, j \in Id :
      /\ i[1] < j[1] /\ docs[i].by = docs[j].by /\ docs[i].by # None
      /\ docs[i].state = "active" /\ docs[j].state = "active"
      /\ <<TextOf(i), TextOf(j)>> \in Similar
      => docs[j].hit # None

DuplicatesMerge == InformationKept /\ LockedToolsSee
=============================================================================
