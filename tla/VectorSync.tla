----------------------------- MODULE VectorSync -----------------------------
(***************************************************************************)
(* Records (documents and message embeddings) between Postgres and an      *)
(* external vector store: create_documents and create_messages,            *)
(* the soft deletes of src/src/crud/document.py, the reconciliation of     *)
(* src/src/reconciler/sync_vectors.py, and what delete_session of          *)
(* src/src/crud/session.py does to the records of a session.               *)
(*                                                                         *)
(* A creator commits its row first and writes the vector afterwards.  A    *)
(* reconciler works on a batch of rows inside one transaction: it holds    *)
(* their locks until it commits or dies, while what it does to the vector  *)
(* store is visible at once and never rolled back.  delete_session, too,   *)
(* is one transaction that deletes vectors before it commits.              *)
(***************************************************************************)
EXTENDS Integers, FiniteSetsExt

CONSTANTS
  Record,           \* documents and message embeddings, each created once
  Document,         \* the records that can be soft-deleted
  SessionRecord,    \* the records of a session that may be deleted whole
  NamespaceOf,      \* [Record -> namespace of the vector store]
  StoreInPostgres,  \* TYPE = "pgvector" or still migrating: rows keep their embedding
  Reconciler,       \* run_vector_reconciliation_cycle calls, in any process
  BatchSize,        \* RECONCILIATION_BATCH_SIZE
  MaxSyncAttempts,  \* MAX_SYNC_ATTEMPTS
  MaxErasures,      \* bound: calls of delete_session
  MaxFaults         \* bound: crashes, refused deletions and rollbacks

ASSUME SyncAssumption ==
  /\ Document \subseteq Record
  /\ SessionRecord \subseteq Record
  /\ StoreInPostgres \in BOOLEAN
  /\ BatchSize \in Nat \ {0}
  /\ MaxSyncAttempts \in Nat \ {0}
  /\ MaxErasures \in Nat
  /\ MaxFaults \in Nat

VARIABLES
  sync_state,     \* [Record -> row state]
  sync_attempts,  \* [Record -> Nat]
  embedding,      \* rows whose embedding column is not NULL
  deleted_at,     \* [Record -> deletion age]: "old" is past the grace period
  vectors,        \* records that have a vector in the external store
  creator,        \* [Record -> where its creator stands]
  job,            \* [Reconciler -> the batch it holds, or Idle]
  erasing,        \* delete_session: whether it runs, and the vectors it still has to delete
  erasures,       \* calls of delete_session so far
  late,           \* history: records deleted while their vector could still be stored
  erased,         \* history: those delete_session removed from the store, until stored again
  faults

row     == <<sync_state, sync_attempts, embedding, deleted_at>>
session == <<erasing, erasures>>
history == <<late, erased>>
vars    == <<row, vectors, creator, job, session, history, faults>>

Idle == [phase |-> "idle", batch |-> {}, done |-> {}, bad |-> {}, fresh |-> {}]

Job  == [phase : {"idle", "embed", "upsert", "delete"}, batch : SUBSET Record,
         done : SUBSET Record, bad : SUBSET Record, fresh : SUBSET Record]

Resting == [on |-> FALSE, left |-> {}]

Locked == UNION {job[w].batch : w \in Reconciler}
Exists(r) == sync_state[r] \in {"pending", "synced", "failed"}

\* Types, and FOR UPDATE SKIP LOCKED: no row is in two hands.
TypeOK ==
  /\ sync_state \in [Record -> {"absent", "pending", "synced", "failed", "gone"}]
  /\ sync_attempts \in [Record -> 0..(MaxSyncAttempts + 1)]
  /\ embedding \subseteq Record
  /\ deleted_at \in [Record -> {"no", "recent", "old"}]
  /\ vectors \subseteq Record
  /\ creator \in [Record -> {"none", "upserting", "succeeded", "failed", "done"}]
  /\ job \in [Reconciler -> Job]
  /\ \A w \in Reconciler :
       /\ job[w].fresh \subseteq job[w].batch
       /\ job[w].done \union job[w].bad \subseteq job[w].batch
       /\ \A v \in Reconciler \ {w} : job[v].batch \intersect job[w].batch = {}
  /\ erasing \in [on : BOOLEAN, left : SUBSET Record]
  /\ erasures \in 0..MaxErasures
  /\ late \subseteq Record
  /\ erased \subseteq Record
  /\ faults \in 0..MaxFaults

Fault == faults < MaxFaults /\ faults' = faults + 1
-----------------------------------------------------------------------------
(* Creators: create_documents, create_observations, create_messages. *)

\* The row is committed before the vector is written.
Create(r) ==
  /\ sync_state[r] = "absent"
  /\ sync_state' = [sync_state EXCEPT ![r] = "pending"]
  /\ embedding' = IF StoreInPostgres THEN embedding \union {r} ELSE embedding
  /\ creator' = [creator EXCEPT ![r] = "upserting"]
  /\ UNCHANGED <<sync_attempts, deleted_at, vectors, job, session, history, faults>>

Upsert(r) ==
  /\ creator[r] = "upserting"
  /\ vectors' = vectors \union {r}
  /\ erased' = erased \ vectors'
  /\ creator' = [creator EXCEPT ![r] = "succeeded"]
  /\ UNCHANGED <<row, job, session, late, faults>>

\* Three attempts have failed; one whose answer was lost may have stored the vector.
UpsertFails(r) ==
  /\ creator[r] = "upserting"
  /\ vectors' \in {vectors, vectors \union {r}}
  /\ erased' = erased \ vectors'
  /\ creator' = [creator EXCEPT ![r] = "failed"]
  /\ UNCHANGED <<row, job, session, late, faults>>

\* UPDATE ... WHERE id IN (...): waits for the row's lock; a missing row is no error.
RecordSuccess(r) ==
  /\ creator[r] = "succeeded" /\ r \notin Locked
  /\ IF Exists(r) THEN /\ sync_state' = [sync_state EXCEPT ![r] = "synced"]
                       /\ sync_attempts' = [sync_attempts EXCEPT ![r] = 0]
                  ELSE UNCHANGED <<sync_state, sync_attempts>>
  /\ creator' = [creator EXCEPT ![r] = "done"]
  /\ UNCHANGED <<embedding, deleted_at, vectors, job, session, history, faults>>

\* The failure path counts the attempt and leaves sync_state as it finds it.
BackToPending(r) == "pending"                                        \* mutant
StateAfterFailure(r) == sync_state[r]
RecordFailure(r) ==
  /\ creator[r] = "failed" /\ r \notin Locked
  /\ IF Exists(r) THEN /\ sync_state' = [sync_state EXCEPT ![r] = StateAfterFailure(r)]
                       /\ sync_attempts' = [sync_attempts EXCEPT ![r] = @ + 1]
                  ELSE UNCHANGED <<sync_state, sync_attempts>>
  /\ creator' = [creator EXCEPT ![r] = "done"]
  /\ UNCHANGED <<embedding, deleted_at, vectors, job, session, history, faults>>

\* The process dies after its commit: the row stays pending, perhaps without
\* an embedding, and a request under way may or may not be served.
CreatorDies(r) ==
  /\ creator[r] \in {"upserting", "succeeded", "failed"}
  /\ Fault
  /\ vectors' \in IF creator[r] = "upserting" THEN {vectors, vectors \union {r}} ELSE {vectors}
  /\ erased' = erased \ vectors'
  /\ creator' = [creator EXCEPT ![r] = "done"]
  /\ UNCHANGED <<row, job, session, late>>

\* delete_document, delete_document_by_id and the loser of duplicate detection.
Delete(r) ==
  /\ r \in Document /\ Exists(r) /\ deleted_at[r] = "no" /\ r \notin Locked
  /\ deleted_at' = [deleted_at EXCEPT ![r] = "recent"]
  /\ UNCHANGED <<sync_state, sync_attempts, embedding, vectors, creator, job, session, history, faults>>

\* older_than_minutes pass.  An upsert that is still running by then is late.
Age(r) ==
  /\ deleted_at[r] = "recent"
  /\ deleted_at' = [deleted_at EXCEPT ![r] = "old"]
  /\ late' = IF creator[r] = "upserting" THEN late \union {r} ELSE late
  /\ UNCHANGED <<sync_state, sync_attempts, embedding, vectors, creator, job, session, erased, faults>>

-----------------------------------------------------------------------------
(* Reconcilers. *)

\* SELECT ... LIMIT batch_size FOR UPDATE SKIP LOCKED.
Select(w, S, phase) ==
  /\ job[w] = Idle
  /\ \E B \in kSubset(Min({BatchSize, Cardinality(S)}), S) :
       B # {} /\ job' = [job EXCEPT ![w] = [Idle EXCEPT !.phase = phase, !.batch = B]]
  /\ UNCHANGED <<row, vectors, creator, session, history, faults>>

IgnoringLocks(S) == S                                                \* mutant
SkipLocked(S) == S \ Locked

\* Rows soft-deleted meanwhile are cleaned up, not synced.
OnlyEmbedded == {r \in Record : /\ sync_state[r] = "pending" /\ deleted_at[r] = "no"
                                /\ r \in embedding}                  \* mutant
NeedingSync == {r \in Record : sync_state[r] = "pending" /\ deleted_at[r] = "no"}
SelectPending(w) == Select(w, SkipLocked(NeedingSync), "embed")

Remaining(w) == job[w].batch \ (job[w].done \union job[w].bad)

\* Rows without an embedding get a new one, all, some or none of them.
Embed(w) ==
  LET needing == job[w].batch \ embedding IN
  /\ job[w].phase = "embed"
  /\ \E fresh \in SUBSET needing :
       job' = [job EXCEPT ![w].phase = "upsert", ![w].fresh = fresh, ![w].bad = needing \ fresh]
  /\ UNCHANGED <<row, vectors, creator, session, history, faults>>

\* One upsert_many per namespace, which stores all of its records or raises.
UpsertNamespace(w) ==
  /\ job[w].phase = "upsert"
  /\ \E r \in Remaining(w) :
       LET D == {d \in Remaining(w) : NamespaceOf[d] = NamespaceOf[r]} IN
       \/ vectors' = vectors \union D /\ job' = [job EXCEPT ![w].done = @ \union D]
       \/ /\ \E stored \in SUBSET D : vectors' = vectors \union stored
          /\ job' = [job EXCEPT ![w].bad = @ \union D]
  /\ erased' = erased \ vectors'
  /\ UNCHANGED <<row, creator, session, late, faults>>

\* _bump_*_sync_attempts.
StateAfterBump(r) == IF sync_attempts[r] + 1 >= MaxSyncAttempts THEN "failed" ELSE "pending"

AllAttempted(w) == job[w].batch                                      \* mutant
Synced(w) == job[w].done

CommitSync(w) ==
  /\ job[w].phase = "upsert" /\ Remaining(w) = {}
  /\ sync_state' = [r \in Record |-> IF r \in Synced(w) THEN "synced"
                                     ELSE IF r \in job[w].bad THEN StateAfterBump(r)
                                     ELSE sync_state[r]]
  /\ sync_attempts' = [r \in Record |-> IF r \in Synced(w) THEN 0
                                        ELSE IF r \in job[w].bad THEN sync_attempts[r] + 1
                                        ELSE sync_attempts[r]]
  /\ embedding' = IF StoreInPostgres THEN embedding \union job[w].fresh ELSE embedding
  /\ job' = [job EXCEPT ![w] = Idle]
  /\ UNCHANGED <<deleted_at, vectors, creator, session, history, faults>>

OnlySynced == {r \in Document : sync_state[r] = "synced" /\ deleted_at[r] = "old"}  \* mutant
NeedingCleanup == {r \in Document : Exists(r) /\ deleted_at[r] = "old"}
SelectDeleted(w) == Select(w, SkipLocked(NeedingCleanup), "delete")

\* One delete_many per namespace; what it raises is logged, and its rows are kept.
DeleteNamespace(w) ==
  /\ job[w].phase = "delete"
  /\ \E r \in Remaining(w) :
       LET D == {d \in Remaining(w) : NamespaceOf[d] = NamespaceOf[r]} IN
       \/ vectors' = vectors \ D /\ job' = [job EXCEPT ![w].done = @ \union D]
          /\ UNCHANGED faults
       \/ /\ Fault
          /\ \E removed \in SUBSET D : vectors' = vectors \ removed
          /\ job' = [job EXCEPT ![w].bad = @ \union D]
  /\ UNCHANGED <<row, creator, session, history>>

HardDeletedAll(w) == job[w].batch                                    \* mutant
HardDeleted(w) == job[w].done

CommitCleanup(w) ==
  /\ job[w].phase = "delete" /\ Remaining(w) = {}
  /\ sync_state' = [r \in Record |-> IF r \in HardDeleted(w) THEN "gone" ELSE sync_state[r]]
  /\ embedding' = embedding \ HardDeleted(w)
  /\ job' = [job EXCEPT ![w] = Idle]
  /\ UNCHANGED <<sync_attempts, deleted_at, vectors, creator, session, history, faults>>

\* The transaction is rolled back; the vector store keeps what was done to it.
Abort(w) ==
  /\ job[w] # Idle
  /\ Fault
  /\ job' = [job EXCEPT ![w] = Idle]
  /\ UNCHANGED <<row, vectors, creator, session, history>>

-----------------------------------------------------------------------------
(* delete_session. *)

\* It lists the embeddings, deletes their vectors and rows, then the same for the
\* documents, soft-deleted ones included.  What comes between the two listings may
\* as well come after both, so one step lists them all.
EraseList ==
  /\ ~erasing.on
  /\ erasures < MaxErasures /\ erasures' = erasures + 1
  /\ erasing' = [on |-> TRUE, left |-> {r \in SessionRecord : Exists(r)}]
  /\ UNCHANGED <<row, vectors, creator, job, history, faults>>

\* One delete_many per namespace, best effort: a failure is only logged.
EraseNamespace ==
  \E r \in erasing.left :
    LET D == {d \in erasing.left : NamespaceOf[d] = NamespaceOf[r]} IN
    /\ \E removed \in SUBSET D :
         /\ vectors' = vectors \ removed /\ erased' = erased \union removed
         /\ IF removed = D THEN UNCHANGED faults ELSE Fault
    /\ erasing' = [erasing EXCEPT !.left = @ \ D]
    /\ UNCHANGED <<row, creator, job, erasures, late>>

\* The rows go whatever became of their vectors, those inserted since the listing
\* too.  The DELETE waits for rows that a reconciler holds.
EraseCommit ==
  LET gone == {r \in SessionRecord : Exists(r)} IN
  /\ erasing.on /\ erasing.left = {}
  /\ gone \intersect Locked = {}
  /\ sync_state' = [r \in Record |-> IF r \in gone THEN "gone" ELSE sync_state[r]]
  /\ embedding' = embedding \ gone
  /\ late' = late \union {r \in gone : r \notin erased \/ creator[r] = "upserting"}
  /\ erasing' = Resting
  /\ UNCHANGED <<sync_attempts, deleted_at, vectors, creator, job, erasures, erased, faults>>

\* A statement raises, say for a message inserted meanwhile, or the process dies:
\* the rows are back, their vectors are not.
EraseFails ==
  /\ erasing.on
  /\ Fault
  /\ erasing' = Resting
  /\ UNCHANGED <<row, vectors, creator, job, erasures, history>>

-----------------------------------------------------------------------------
Init ==
  /\ sync_state = [r \in Record |-> "absent"]
  /\ sync_attempts = [r \in Record |-> 0]
  /\ embedding = {}
  /\ deleted_at = [r \in Record |-> "no"]
  /\ vectors = {}
  /\ creator = [r \in Record |-> "none"]
  /\ job = [w \in Reconciler |-> Idle]
  /\ erasing = Resting /\ erasures = 0
  /\ late = {} /\ erased = {} /\ faults = 0

CreatorStep(r) ==
  Upsert(r) \/ UpsertFails(r) \/ RecordSuccess(r) \/ RecordFailure(r) \/ CreatorDies(r)

SyncStep(w)    == SelectPending(w) \/ Embed(w) \/ UpsertNamespace(w) \/ CommitSync(w)
CleanupStep(w) == SelectDeleted(w) \/ DeleteNamespace(w) \/ CommitCleanup(w)
EraseStep      == EraseList \/ EraseNamespace \/ EraseCommit \/ EraseFails

Next ==
  \/ \E r \in Record : Create(r) \/ CreatorStep(r) \/ Delete(r) \/ Age(r)
  \/ \E w \in Reconciler : SyncStep(w) \/ CleanupStep(w) \/ Abort(w)
  \/ EraseStep

\* Cycles are enqueued at intervals for as long as a deriver runs, each works
\* until it finds nothing to do, and time passes.  Creators owe nothing, nor does
\* a deletion of the session.
Fairness ==
  /\ WF_vars(\E w \in Reconciler : SyncStep(w) \/ CleanupStep(w))
  /\ \A r \in Record : WF_vars(Age(r))

Spec     == Init /\ [][Next]_vars
FairSpec == Spec /\ Fairness
-----------------------------------------------------------------------------
\* What is marked synced can be found by search, whoever marked it and
\* whatever failed, was retried or raced with it.  The one exception: a
\* delete_session that has not committed, or never will, has removed its vector
\* and nobody has stored it again.
SyncedIsStored ==
  \A r \in Record :
    sync_state[r] = "synced" /\ deleted_at[r] = "no" => r \in vectors \union erased

\* A record's vector does not survive its row.  The exceptions: the upsert of its
\* creation outlasted the grace period that cleanup waits for, or outlasted
\* delete_session; or delete_session removed the row although it had failed to
\* remove the vector, had not listed it, or it was stored again in the meantime.
NoOrphanVectors == \A r \in vectors : sync_state[r] = "gone" => r \in late

\* "synced" = done forever: neither a late failure nor another reconciler takes it back.
SyncedIsFinal ==
  [][\A r \in Record : sync_state[r] = "synced" => sync_state'[r] \in {"synced", "gone"}]_vars

\* Missed writes are healed: whether its creator died or the store was down, a
\* pending record is synced or given up after finitely many attempts.
PendingIsResolved ==
  \A r \in Record :
    sync_state[r] = "pending" ~>
      sync_state[r] \in {"synced", "failed", "gone"} \/ deleted_at[r] # "no"

\* Soft-deleted documents are removed for good once the store takes deletions.
DeletedIsRemoved == \A r \in Document : deleted_at[r] # "no" ~> sync_state[r] = "gone"

\* Both: reconciliation brings every record to an end.
RecordsSettle == PendingIsResolved /\ DeletedIsRemoved
=============================================================================
