-------------------------- MODULE VectorSyncProofs --------------------------
(***************************************************************************)
(* Theorems about VectorSync, for any records, namespaces, reconcilers,    *)
(* batch sizes, numbers of attempts and of faults.                         *)
(***************************************************************************)
EXTENDS VectorSync, TLAPS

\* While a reconciler holds a row nobody else moves it on: to embed and upsert it is
\* pending and not deleted, to clean up it is there and past the grace period.
Held(w) ==
  /\ job[w].phase = "idle" => job[w].batch = {}
  /\ job[w].phase \in {"embed", "upsert"} =>
       \A r \in job[w].batch : sync_state[r] = "pending" /\ deleted_at[r] = "no"
  /\ job[w].phase = "embed" => job[w].done = {}
  /\ job[w].phase = "delete" => \A r \in job[w].batch : Exists(r) /\ deleted_at[r] = "old"

\* A record has one creator, whose failure costs it one attempt at most.
Attempts(r) ==
  /\ sync_state[r] = "absent" <=> creator[r] = "none"
  /\ sync_state[r] = "absent" => deleted_at[r] = "no" /\ sync_attempts[r] = 0
  /\ sync_attempts[r] <= MaxSyncAttempts + (IF creator[r] = "done" THEN 1 ELSE 0)
  /\ sync_state[r] = "pending" =>
       sync_attempts[r] < MaxSyncAttempts + (IF creator[r] = "done" THEN 1 ELSE 0)

LockInv == TypeOK /\ (\A w \in Reconciler : Held(w)) /\ \A r \in Record : Attempts(r)

LEMMA JobUpdates ==
  ASSUME NEW j \in Job
  PROVE  /\ Idle \in Job
         /\ \A B \in SUBSET Record : \A l \in {"embed", "delete"} :
              [Idle EXCEPT !.phase = l, !.batch = B] \in Job
         /\ \A F, G \in SUBSET Record : [j EXCEPT !.phase = "upsert", !.fresh = F, !.bad = G] \in Job
         /\ \A D \in SUBSET Record : /\ [j EXCEPT !.done = @ \union D] \in Job
                                     /\ [j EXCEPT !.bad = @ \union D] \in Job
BY DEF Job, Idle

\* A step that changes one record, which no reconciler holds.
LEMMA FreeRecords ==
  ASSUME TypeOK, \A w \in Reconciler : Held(w), UNCHANGED job,
         NEW r \in Record, \A w \in Reconciler : r \notin job[w].batch,
         \A d \in Record \ {r} : sync_state'[d] = sync_state[d] /\ deleted_at'[d] = deleted_at[d]
  PROVE  \A w \in Reconciler : Held(w)'
BY DEF TypeOK, Job, Held, Exists

LEMMA RecordLocks ==
  ASSUME LockInv, NEW r \in Record, Create(r) \/ CreatorStep(r) \/ Delete(r) \/ Age(r)
  PROVE  LockInv'
<1> USE SyncAssumption
<1>1. TypeOK'
  <2>1. /\ sync_state' \in [Record -> {"absent", "pending", "synced", "failed", "gone"}]
        /\ embedding' \subseteq Record /\ vectors' \subseteq Record
        /\ late' \subseteq Record /\ erased' \subseteq Record
        /\ deleted_at' \in [Record -> {"no", "recent", "old"}]
        /\ creator' \in [Record -> {"none", "upserting", "succeeded", "failed", "done"}]
    BY DEF LockInv, TypeOK, Create, CreatorStep, Upsert, UpsertFails, RecordSuccess, RecordFailure,
           StateAfterFailure, CreatorDies, Delete, Age, row, history
  <2>2. sync_attempts' \in [Record -> 0..(MaxSyncAttempts + 1)]
    <3>1. CASE UNCHANGED sync_attempts
      BY <3>1 DEF LockInv, TypeOK
    <3>2. CASE sync_attempts' = [sync_attempts EXCEPT ![r] = 0]
      BY <3>2 DEF LockInv, TypeOK
    <3>3. CASE RecordFailure(r)
      BY <3>3 DEF LockInv, TypeOK, Attempts, RecordFailure
    <3>4. QED
      BY <3>1, <3>2, <3>3 DEF Create, CreatorStep, Upsert, UpsertFails, RecordSuccess, CreatorDies,
                              Delete, Age, row
  <2>3. UNCHANGED <<job, session>> /\ faults' \in 0..MaxFaults
    BY DEF LockInv, TypeOK, Create, CreatorStep, Upsert, UpsertFails, RecordSuccess, RecordFailure,
           CreatorDies, Delete, Age, Fault
  <2>4. QED
    BY <2>1, <2>2, <2>3 DEF LockInv, TypeOK, session
<1>2. \A d \in Record : Attempts(d)'
  <2>1. ASSUME NEW d \in Record PROVE Attempts(d)'
    <3>1. /\ sync_attempts[d] \in Nat /\ MaxSyncAttempts \in Nat \ {0} /\ Attempts(d)
          /\ sync_state[d] \in {"absent", "pending", "synced", "failed", "gone"}
          /\ creator[d] \in {"none", "upserting", "succeeded", "failed", "done"}
      BY DEF LockInv, TypeOK
    <3>2. CASE Create(r)
      BY <3>1, <3>2 DEF Create, Attempts, LockInv, TypeOK
    <3>3. CASE Upsert(r) \/ UpsertFails(r) \/ CreatorDies(r)
      BY <3>1, <3>3 DEF Upsert, UpsertFails, CreatorDies, row, Attempts, LockInv, TypeOK
    <3>4. CASE RecordSuccess(r)
      BY <3>1, <3>4 DEF RecordSuccess, Exists, Attempts, LockInv, TypeOK
    <3>5. CASE RecordFailure(r)
      BY <3>1, <3>5 DEF RecordFailure, StateAfterFailure, Exists, Attempts, LockInv, TypeOK
    <3>6. CASE Delete(r) \/ Age(r)
      BY <3>1, <3>6 DEF Delete, Age, Exists, Attempts, LockInv, TypeOK
    <3>7. QED
      BY <3>2, <3>3, <3>4, <3>5, <3>6 DEF CreatorStep
  <2>2. QED
    BY <2>1
<1>3. \A w \in Reconciler : Held(w)'
  <2>1. UNCHANGED job
    BY DEF Create, CreatorStep, Upsert, UpsertFails, RecordSuccess, RecordFailure, CreatorDies, Delete, Age
  <2>2. CASE UNCHANGED <<sync_state, deleted_at>>
    BY <2>1, <2>2 DEF LockInv, Held, Exists
  <2>3. CASE \A w \in Reconciler : r \notin job[w].batch
    <3>1. \A d \in Record \ {r} : sync_state'[d] = sync_state[d] /\ deleted_at'[d] = deleted_at[d]
      BY DEF LockInv, TypeOK, Create, CreatorStep, Upsert, UpsertFails, RecordSuccess, RecordFailure,
             CreatorDies, Delete, Age, row
    <3>2. QED
      BY <2>1, <2>3, <3>1, FreeRecords DEF LockInv
  <2>4. CASE Upsert(r) \/ UpsertFails(r) \/ CreatorDies(r)
    BY <2>2, <2>4 DEF Upsert, UpsertFails, CreatorDies, row
  <2>5. CASE RecordSuccess(r) \/ RecordFailure(r) \/ Delete(r)
    BY <2>3, <2>5 DEF RecordSuccess, RecordFailure, Delete, Locked
  <2>6. CASE Create(r) \/ Age(r)
    <3>1. sync_state[r] = "absent" \/ deleted_at[r] = "recent"
      BY <2>6 DEF Create, Age
    <3>2. ASSUME NEW w \in Reconciler PROVE r \notin job[w].batch
      BY <3>1 DEF LockInv, Held, Exists, TypeOK, Job
    <3>3. QED
      BY <2>3, <3>2
  <2>7. QED
    BY <2>4, <2>5, <2>6 DEF CreatorStep
<1>4. QED
  BY <1>1, <1>2, <1>3 DEF LockInv

\* A step that changes the job of one reconciler and no row.
LEMMA JobLocks ==
  ASSUME LockInv, NEW w \in Reconciler, NEW j \in Job,
         job' \in [Reconciler -> Job], job'[w] = j, \A v \in Reconciler \ {w} : job'[v] = job[v],
         UNCHANGED <<row, creator, session, late>>, erased' \subseteq Record,
         vectors' \subseteq Record, faults' \in 0..MaxFaults,
         j.fresh \subseteq j.batch, j.done \union j.bad \subseteq j.batch,
         \A v \in Reconciler \ {w} : job[v].batch \intersect j.batch = {},
         Held(w)'
  PROVE  LockInv'
<1>1. job' \in [Reconciler -> Job] /\ job'[w] = j /\ \A v \in Reconciler \ {w} : job'[v] = job[v]
  OBVIOUS
<1>2. TypeOK'
  <2>1. \A u \in Reconciler : /\ job'[u].fresh \subseteq job'[u].batch
                              /\ job'[u].done \union job'[u].bad \subseteq job'[u].batch
    BY <1>1 DEF LockInv, TypeOK
  <2>2. \A u \in Reconciler : \A v \in Reconciler \ {u} : job'[v].batch \intersect job'[u].batch = {}
    BY <1>1 DEF LockInv, TypeOK
  <2>3. QED
    BY <1>1, <2>1, <2>2 DEF LockInv, TypeOK, row, session
<1>3. \A v \in Reconciler : Held(v)'
  BY <1>1 DEF LockInv, Held, Exists, row
<1>4. \A r \in Record : Attempts(r)'
  BY DEF LockInv, Attempts, row
<1>5. QED
  BY <1>2, <1>3, <1>4 DEF LockInv

\* Job w becomes j, the others stay.
NewJob(w, j) ==
  job' \in [Reconciler -> Job] /\ job'[w] = j /\ \A v \in Reconciler \ {w} : job'[v] = job[v]

LEMMA JobUpdate ==
  ASSUME job \in [Reconciler -> Job], NEW w \in Reconciler, NEW j \in Job, job' = [job EXCEPT ![w] = j]
  PROVE  NewJob(w, j)
BY DEF NewJob

LEMMA ReconcilerLocks ==
  ASSUME LockInv, NEW w \in Reconciler, SyncStep(w) \/ CleanupStep(w) \/ Abort(w)
  PROVE  LockInv'
<1> USE SyncAssumption
<1>1. /\ TypeOK /\ Held(w) /\ job[w] \in Job /\ Idle \in Job
      /\ job[w].batch \subseteq Record /\ job[w].done \subseteq Record /\ job[w].bad \subseteq Record
      /\ \A v \in Reconciler \ {w} : job[v].batch \intersect job[w].batch = {}
  BY JobUpdates DEF LockInv, TypeOK, Job
<1>2. ASSUME NEW S \in SUBSET Record, NEW l \in {"embed", "delete"}, Select(w, SkipLocked(S), l),
             \A r \in S : IF l = "embed" THEN sync_state[r] = "pending" /\ deleted_at[r] = "no"
                                         ELSE Exists(r) /\ deleted_at[r] = "old"
      PROVE  LockInv'
  <2>1. PICK B \in SUBSET (S \ Locked) : job' = [job EXCEPT ![w] = [Idle EXCEPT !.phase = l, !.batch = B]]
    BY <1>2 DEF Select, SkipLocked, kSubset
  <2> DEFINE j == [Idle EXCEPT !.phase = l, !.batch = B]
  <2>2. j \in Job /\ j.phase = l /\ j.batch = B /\ j.done = {} /\ j.bad = {} /\ j.fresh = {}
    BY <1>1, JobUpdates DEF Idle
  <2>3. NewJob(w, j) /\ UNCHANGED <<row, creator, session, late, erased, vectors, faults>>
    <3>1. job' = [job EXCEPT ![w] = j]
      BY <2>1
    <3>2. UNCHANGED <<row, creator, session, late, erased, vectors, faults>>
      BY <1>2 DEF Select, history
    <3> HIDE DEF j
    <3>3. QED
      BY <1>1, <2>2, <3>1, <3>2, JobUpdate DEF TypeOK
  <2>4. \A v \in Reconciler \ {w} : job[v].batch \intersect B = {}
    BY <2>1 DEF Locked
  <2>5. Held(w)'
    BY <1>2, <2>1, <2>2, <2>3 DEF Held, Exists, row, NewJob
  <2> HIDE DEF j
  <2>6. QED
    BY <1>1, <2>2, <2>3, <2>4, <2>5, JobLocks DEF TypeOK, NewJob
<1>3. CASE SelectPending(w)
  BY <1>2, <1>3 DEF SelectPending, NeedingSync
<1>4. CASE SelectDeleted(w)
  BY <1>2, <1>4 DEF SelectDeleted, NeedingCleanup
<1>5. CASE Embed(w)
  <2>1. PICK fresh \in SUBSET (job[w].batch \ embedding) :
          job' = [job EXCEPT ![w].phase = "upsert", ![w].fresh = fresh,
                             ![w].bad = (job[w].batch \ embedding) \ fresh]
    BY <1>5 DEF Embed
  <2> DEFINE j == [job[w] EXCEPT !.phase = "upsert", !.fresh = fresh,
                                 !.bad = (job[w].batch \ embedding) \ fresh]
  <2>2. /\ j \in Job /\ j.phase = "upsert" /\ j.batch = job[w].batch /\ j.done = job[w].done
        /\ j.fresh = fresh /\ j.bad = (job[w].batch \ embedding) \ fresh
    BY <1>1, JobUpdates DEF Job
  <2>3. NewJob(w, j)
    <3>1. job' = [job EXCEPT ![w] = j]
      BY <2>1
    <3> HIDE DEF j
    <3>2. QED
      BY <1>1, <2>2, <3>1, JobUpdate DEF TypeOK
  <2>4. Held(w)' /\ UNCHANGED <<row, creator, session, late, erased, vectors, faults>>
    BY <1>1, <1>5, <2>2, <2>3 DEF Embed, Held, row, history, NewJob
  <2>5. j.fresh \subseteq j.batch /\ j.done \union j.bad \subseteq j.batch
    BY <1>1, <2>1, <2>2 DEF TypeOK
  <2> HIDE DEF j
  <2>6. QED
    BY <1>1, <2>2, <2>3, <2>4, <2>5, JobLocks DEF TypeOK, NewJob
<1>6. ASSUME NEW D \in SUBSET Remaining(w), job[w].phase \in {"upsert", "delete"},
             \/ job' = [job EXCEPT ![w].done = @ \union D]
             \/ job' = [job EXCEPT ![w].bad = @ \union D],
             UNCHANGED <<row, creator, session, late>>, erased' \subseteq Record,
             vectors' \subseteq Record, faults' \in 0..MaxFaults
      PROVE  LockInv'
  <2>1. D \subseteq job[w].batch /\ D \in SUBSET Record
    BY <1>1, <1>6 DEF Remaining
  <2>2. PICK j \in Job : /\ NewJob(w, j)
                         /\ j.phase = job[w].phase /\ j.batch = job[w].batch /\ j.fresh = job[w].fresh
                         /\ j.done \union j.bad = job[w].done \union job[w].bad \union D
    <3>1. CASE job' = [job EXCEPT ![w].done = @ \union D]
      <4> DEFINE j == [job[w] EXCEPT !.done = @ \union D]
      <4>1. /\ j \in Job /\ j.phase = job[w].phase /\ j.batch = job[w].batch /\ j.fresh = job[w].fresh
            /\ j.done = job[w].done \union D /\ j.bad = job[w].bad
        BY <1>1, <2>1, JobUpdates DEF Job
      <4>2. job' = [job EXCEPT ![w] = j]
        BY <3>1
      <4> HIDE DEF j
      <4>3. NewJob(w, j)
        BY <1>1, <4>1, <4>2, JobUpdate DEF TypeOK
      <4>4. j.done \union j.bad = job[w].done \union job[w].bad \union D
        BY <4>1
      <4>5. QED
        BY <4>1, <4>3, <4>4
    <3>2. CASE job' = [job EXCEPT ![w].bad = @ \union D]
      <4> DEFINE j == [job[w] EXCEPT !.bad = @ \union D]
      <4>1. /\ j \in Job /\ j.phase = job[w].phase /\ j.batch = job[w].batch /\ j.fresh = job[w].fresh
            /\ j.done = job[w].done /\ j.bad = job[w].bad \union D
        BY <1>1, <2>1, JobUpdates DEF Job
      <4>2. job' = [job EXCEPT ![w] = j]
        BY <3>2
      <4> HIDE DEF j
      <4>3. NewJob(w, j)
        BY <1>1, <4>1, <4>2, JobUpdate DEF TypeOK
      <4>4. j.done \union j.bad = job[w].done \union job[w].bad \union D
        BY <4>1
      <4>5. QED
        BY <4>1, <4>3, <4>4
    <3>3. QED
      BY <1>6, <3>1, <3>2
  <2>3. job'[w] = j
    BY <2>2 DEF NewJob
  <2>4. Held(w)'
    BY <1>1, <1>6, <2>2, <2>3 DEF Held, Exists, row
  <2>5. j.fresh \subseteq j.batch /\ j.done \union j.bad \subseteq j.batch
    BY <1>1, <2>1, <2>2 DEF TypeOK
  <2>6. QED
    BY <1>1, <1>6, <2>2, <2>4, <2>5, JobLocks DEF NewJob
<1>7. CASE UpsertNamespace(w)
  <2>1. PICK r \in Remaining(w) :
          LET D == {d \in Remaining(w) : NamespaceOf[d] = NamespaceOf[r]} IN
          \/ vectors' = vectors \union D /\ job' = [job EXCEPT ![w].done = @ \union D]
          \/ /\ \E stored \in SUBSET D : vectors' = vectors \union stored
             /\ job' = [job EXCEPT ![w].bad = @ \union D]
    BY <1>7 DEF UpsertNamespace
  <2> DEFINE D == {d \in Remaining(w) : NamespaceOf[d] = NamespaceOf[r]}
  <2>2. D \in SUBSET Remaining(w) /\ D \subseteq Record
    BY <1>1 DEF Remaining
  <2>3. vectors' \subseteq Record /\ erased' \subseteq Record /\ faults' \in 0..MaxFaults
    BY <1>1, <1>7, <2>1, <2>2 DEF TypeOK, UpsertNamespace
  <2>4. \/ job' = [job EXCEPT ![w].done = @ \union D]
        \/ job' = [job EXCEPT ![w].bad = @ \union D]
    BY <2>1
  <2> HIDE DEF D
  <2>5. QED
    BY <1>6, <1>7, <2>2, <2>3, <2>4 DEF UpsertNamespace
<1>8. CASE DeleteNamespace(w)
  <2>1. PICK r \in Remaining(w) :
          LET D == {d \in Remaining(w) : NamespaceOf[d] = NamespaceOf[r]} IN
          \/ /\ vectors' = vectors \ D /\ job' = [job EXCEPT ![w].done = @ \union D]
             /\ UNCHANGED faults
          \/ /\ Fault
             /\ \E removed \in SUBSET D : vectors' = vectors \ removed
             /\ job' = [job EXCEPT ![w].bad = @ \union D]
    BY <1>8 DEF DeleteNamespace
  <2> DEFINE D == {d \in Remaining(w) : NamespaceOf[d] = NamespaceOf[r]}
  <2>2. D \in SUBSET Remaining(w)
    OBVIOUS
  <2>3. /\ UNCHANGED <<row, creator, session, late>> /\ erased' \subseteq Record
        /\ vectors' \subseteq Record /\ faults' \in 0..MaxFaults
    BY <1>1, <1>8, <2>1 DEF DeleteNamespace, history, TypeOK, Fault
  <2>4. \/ job' = [job EXCEPT ![w].done = @ \union D]
        \/ job' = [job EXCEPT ![w].bad = @ \union D]
    BY <2>1
  <2> HIDE DEF D
  <2>5. QED
    BY <1>6, <1>8, <2>2, <2>3, <2>4 DEF DeleteNamespace
<1>9. CASE Abort(w)
  <2>1. NewJob(w, Idle)
    BY <1>1, <1>9, JobUpdate DEF Abort, TypeOK
  <2>2. Held(w)'
    BY <2>1 DEF Held, Idle, NewJob
  <2>3. /\ UNCHANGED <<row, creator, session, late>> /\ erased' \subseteq Record
        /\ vectors' \subseteq Record /\ faults' \in 0..MaxFaults
    BY <1>1, <1>9 DEF Abort, Fault, history, TypeOK
  <2>4. Idle.batch = {} /\ Idle.done = {} /\ Idle.bad = {} /\ Idle.fresh = {}
    BY DEF Idle
  <2>5. QED
    BY <1>1, <2>1, <2>2, <2>3, <2>4, JobLocks DEF NewJob
<1>10. CASE CommitSync(w) \/ CommitCleanup(w)
  <2>1. /\ job' = [job EXCEPT ![w] = Idle] /\ job'[w] = Idle
        /\ \A v \in Reconciler \ {w} : job'[v] = job[v]
    BY <1>1, <1>10 DEF CommitSync, CommitCleanup, TypeOK
  <2>2. \A d \in Record \ job[w].batch : sync_state'[d] = sync_state[d]
    BY <1>1, <1>10 DEF CommitSync, CommitCleanup, Synced, HardDeleted, TypeOK
  <2>3. UNCHANGED <<deleted_at, creator, erasing, erasures, late, erased, faults, vectors>>
    BY <1>10 DEF CommitSync, CommitCleanup, session, history
  <2>4. \A v \in Reconciler : Held(v)'
    BY <1>1, <2>1, <2>2, <2>3 DEF LockInv, Held, Exists, Idle, TypeOK, Job
  <2>5. \A v \in Reconciler : /\ job'[v].fresh \subseteq job'[v].batch
                              /\ job'[v].done \union job'[v].bad \subseteq job'[v].batch
                              /\ \A u \in Reconciler \ {v} : job'[u].batch \intersect job'[v].batch = {}
    BY <1>1, <2>1 DEF TypeOK, Idle
  <2>6. CASE CommitCleanup(w)
    <3>1. /\ sync_state' \in [Record -> {"absent", "pending", "synced", "failed", "gone"}]
          /\ embedding' \subseteq Record /\ UNCHANGED sync_attempts
      BY <1>1, <2>6 DEF CommitCleanup, TypeOK
    <3>2. job' \in [Reconciler -> Job]
      BY <1>1, <2>1 DEF TypeOK
    <3>3. TypeOK'
      BY <1>1, <2>3, <2>5, <3>1, <3>2 DEF TypeOK
    <3>4. \A r \in Record : Attempts(r)'
      BY <1>1, <2>3, <2>6, <3>1 DEF CommitCleanup, HardDeleted, LockInv, Attempts, Held, Exists, TypeOK
    <3>5. QED
      BY <2>4, <3>3, <3>4 DEF LockInv
  <2>7. CASE CommitSync(w)
    <3>1. \A r \in job[w].done \union job[w].bad : r \in Record /\ sync_state[r] = "pending"
      BY <1>1, <2>7 DEF CommitSync, Held, TypeOK
    <3>2. \A r \in Record : /\ Attempts(r)'
                            /\ sync_attempts'[r] \in 0..(MaxSyncAttempts + 1)
                            /\ sync_state'[r] \in {"absent", "pending", "synced", "failed", "gone"}
      <4> SUFFICES ASSUME NEW r \in Record
                   PROVE  /\ Attempts(r)'
                          /\ sync_attempts'[r] \in 0..(MaxSyncAttempts + 1)
                          /\ sync_state'[r] \in {"absent", "pending", "synced", "failed", "gone"}
        OBVIOUS
      <4>1. /\ Attempts(r) /\ sync_attempts[r] \in Nat /\ sync_attempts[r] <= MaxSyncAttempts + 1
            /\ MaxSyncAttempts \in Nat \ {0} /\ creator'[r] = creator[r] /\ deleted_at'[r] = deleted_at[r]
            /\ sync_state[r] \in {"absent", "pending", "synced", "failed", "gone"}
        BY <1>1, <2>3 DEF LockInv, TypeOK
      <4>2. CASE r \in job[w].done
        BY <2>7, <3>1, <4>1, <4>2 DEF CommitSync, Synced, Attempts
      <4>3. CASE r \notin job[w].done /\ r \in job[w].bad
        BY <2>7, <3>1, <4>1, <4>3 DEF CommitSync, Synced, StateAfterBump, Attempts
      <4>4. CASE r \notin job[w].done /\ r \notin job[w].bad
        BY <2>7, <4>1, <4>4 DEF CommitSync, Synced, Attempts
      <4>5. QED
        BY <4>2, <4>3, <4>4
    <3>3. sync_state' \in [Record -> {"absent", "pending", "synced", "failed", "gone"}]
          /\ sync_attempts' \in [Record -> 0..(MaxSyncAttempts + 1)]
      BY <2>7, <3>2 DEF CommitSync
    <3>4. embedding' \subseteq Record /\ job' \in [Reconciler -> Job]
      BY <1>1, <2>1, <2>7 DEF CommitSync, TypeOK
    <3>5. TypeOK'
      BY <1>1, <2>3, <2>5, <3>3, <3>4 DEF TypeOK
    <3>6. QED
      BY <2>4, <3>2, <3>5 DEF LockInv
  <2>8. QED
    BY <1>10, <2>6, <2>7
<1>11. QED
  BY <1>3, <1>4, <1>5, <1>7, <1>8, <1>9, <1>10 DEF SyncStep, CleanupStep

\* delete_session removes rows that no reconciler holds, and touches no job.
LEMMA EraseLocks ==
  ASSUME LockInv, EraseStep
  PROVE  LockInv'
<1> USE SyncAssumption
<1>1. UNCHANGED <<sync_attempts, deleted_at, creator, job>>
  BY DEF EraseStep, EraseList, EraseNamespace, EraseCommit, EraseFails, row
<1>2. \A r \in Record : \/ sync_state'[r] = sync_state[r]
                        \/ /\ sync_state'[r] = "gone" /\ Exists(r)
                           /\ \A w \in Reconciler : r \notin job[w].batch
  BY DEF EraseStep, EraseList, EraseNamespace, EraseCommit, EraseFails, row, Locked
<1>3. TypeOK'
  <2>1. CASE EraseList
    BY <1>1, <2>1 DEF LockInv, TypeOK, EraseList, row, history
  <2>2. CASE EraseNamespace
    BY <1>1, <2>2 DEF LockInv, TypeOK, EraseNamespace, row, Fault
  <2>3. CASE EraseCommit
    BY <1>1, <2>3 DEF LockInv, TypeOK, EraseCommit, Resting
  <2>4. CASE EraseFails
    BY <1>1, <2>4 DEF LockInv, TypeOK, EraseFails, row, history, Resting, Fault
  <2>5. QED
    BY <2>1, <2>2, <2>3, <2>4 DEF EraseStep
<1>4. \A w \in Reconciler : Held(w)'
  BY <1>1, <1>2 DEF LockInv, TypeOK, Job, Held, Exists
<1>5. \A r \in Record : Attempts(r)'
  BY <1>1, <1>2 DEF LockInv, Attempts, Exists
<1>6. QED
  BY <1>3, <1>4, <1>5 DEF LockInv

LEMMA InitLocks == Init => LockInv
<1> USE SyncAssumption
<1>1. SUFFICES ASSUME Init PROVE LockInv
  OBVIOUS
<1>2. Idle \in Job /\ Idle.phase = "idle" /\ Idle.batch = {} /\ Idle.done = {} /\ Idle.bad = {} /\ Idle.fresh = {}
  BY DEF Idle, Job
<1>3. job \in [Reconciler -> Job] /\ \A w \in Reconciler : job[w] = Idle
  BY <1>1, <1>2 DEF Init
<1>4. \A w \in Reconciler : Held(w)
  BY <1>2, <1>3 DEF Held
<1>5. \A r \in Record : Attempts(r)
  BY <1>1 DEF Init, Attempts
<1>6. TypeOK
  <2>1. \A w \in Reconciler : /\ job[w].fresh \subseteq job[w].batch
                              /\ job[w].done \union job[w].bad \subseteq job[w].batch
                              /\ \A v \in Reconciler \ {w} : job[v].batch \intersect job[w].batch = {}
    BY <1>2, <1>3
  <2>2. QED
    BY <1>1, <1>3, <2>1 DEF Init, TypeOK, Resting
<1>7. QED
  BY <1>4, <1>5, <1>6 DEF LockInv

LEMMA NextLocks == LockInv /\ [Next]_vars => LockInv'
<1>1. LockInv /\ Next => LockInv'
  BY RecordLocks, ReconcilerLocks, EraseLocks DEF Next
<1>2. LockInv /\ UNCHANGED vars => LockInv'
  <2>1. SUFFICES ASSUME LockInv, UNCHANGED vars PROVE LockInv'
    OBVIOUS
  <2>2. TypeOK'
    BY <2>1 DEF LockInv, TypeOK, vars, row, session, history
  <2>3. (\A w \in Reconciler : Held(w)') /\ \A r \in Record : Attempts(r)'
    BY <2>1 DEF LockInv, Held, Attempts, Exists, vars, row
  <2>4. QED
    BY <2>2, <2>3 DEF LockInv
<1>3. QED
  BY <1>1, <1>2

LEMMA LocksHold == Spec => []LockInv
BY InitLocks, NextLocks, PTL DEF Spec

\* Every row, job and lock stays well formed: no row is in two reconcilers' hands, and the
\* attempts counted on a row stay within MAX_SYNC_ATTEMPTS and the creator's own failure.
THEOREM SyncTypes == Spec => []TypeOK
<1>1. LockInv => TypeOK
  BY DEF LockInv
<1>2. QED
  BY <1>1, LocksHold, PTL

\* A reconciler commits "pending" or "failed" only over rows it selected as pending and
\* has held since; a creator writes a state of its own only on success.
THEOREM SyncedStays == Spec => SyncedIsFinal
<1>1. LockInv /\ Next => \A r \in Record : sync_state[r] = "synced" => sync_state'[r] \in {"synced", "gone"}
  <2> SUFFICES ASSUME LockInv, Next, NEW r \in Record, sync_state[r] = "synced"
               PROVE  sync_state'[r] \in {"synced", "gone"}
    OBVIOUS
  <2>1. ASSUME NEW d \in Record, Create(d) \/ CreatorStep(d) \/ Delete(d) \/ Age(d)
        PROVE  sync_state'[r] \in {"synced", "gone"}
    BY <2>1 DEF LockInv, TypeOK, Create, CreatorStep, Upsert, UpsertFails, RecordSuccess, RecordFailure,
                StateAfterFailure, CreatorDies, Delete, Age, row
  <2>2. ASSUME NEW w \in Reconciler, CommitSync(w)
        PROVE  sync_state'[r] \in {"synced", "gone"}
    <3>1. r \notin job[w].bad
      BY <2>2 DEF LockInv, TypeOK, CommitSync, Held
    <3>2. QED
      BY <2>2, <3>1 DEF CommitSync
  <2>3. ASSUME NEW w \in Reconciler, CommitCleanup(w)
        PROVE  sync_state'[r] \in {"synced", "gone"}
    BY <2>3 DEF CommitCleanup
  <2>4. ASSUME NEW w \in Reconciler, \/ SelectPending(w) \/ Embed(w) \/ UpsertNamespace(w)
                                     \/ SelectDeleted(w) \/ DeleteNamespace(w) \/ Abort(w)
        PROVE  sync_state'[r] \in {"synced", "gone"}
    BY <2>4 DEF SelectPending, SelectDeleted, Select, Embed, UpsertNamespace, DeleteNamespace, Abort, row
  <2>5. ASSUME EraseStep
        PROVE  sync_state'[r] \in {"synced", "gone"}
    BY <2>5 DEF EraseStep, EraseList, EraseNamespace, EraseCommit, EraseFails, row
  <2>6. QED
    BY <2>1, <2>2, <2>3, <2>4, <2>5 DEF Next, SyncStep, CleanupStep
<1>2. UNCHANGED vars => \A r \in Record : sync_state[r] = "synced" => sync_state'[r] \in {"synced", "gone"}
  BY DEF vars, row
<1>3. QED
  BY <1>1, <1>2, LocksHold, PTL DEF SyncedIsFinal, Spec

\* A record's vector is in the store, or delete_session has taken it out, or the record is
\* soft-deleted and needs none.
Stored(r) == r \in vectors \/ r \in erased \/ deleted_at[r] # "no"

\* Whoever says that a record is synced, or is about to, has stored its vector.
StoreInv ==
  /\ \A r \in Record : sync_state[r] = "synced" \/ creator[r] = "succeeded" => Stored(r)
  /\ \A w \in Reconciler : job[w].phase = "upsert" => \A r \in job[w].done : Stored(r)

\* Vectors are deleted of soft-deleted records, and by delete_session, which is recorded.
LEMMA StoredStays ==
  ASSUME LockInv, Next, NEW r \in Record, Stored(r)
  PROVE  Stored(r)'
<1>1. ASSUME NEW d \in Record, Create(d) \/ CreatorStep(d) \/ Delete(d) \/ Age(d)
      PROVE  Stored(r)'
  BY <1>1 DEF Stored, LockInv, TypeOK, Create, CreatorStep, Upsert, UpsertFails, RecordSuccess,
              RecordFailure, CreatorDies, Delete, Age, row, history
<1>2. ASSUME NEW w \in Reconciler, DeleteNamespace(w)
      PROVE  Stored(r)'
  <2>1. \A d \in Remaining(w) : d \in job[w].batch /\ deleted_at[d] = "old"
    BY <1>2 DEF Remaining, DeleteNamespace, LockInv, Held
  <2>2. \A d \in vectors : d \notin Remaining(w) => d \in vectors'
    BY <1>2 DEF DeleteNamespace
  <2>3. UNCHANGED <<deleted_at, erased>>
    BY <1>2 DEF DeleteNamespace, row, history
  <2>4. QED
    BY <2>1, <2>2, <2>3 DEF Stored
<1>3. ASSUME NEW w \in Reconciler, SyncStep(w) \/ SelectDeleted(w) \/ CommitCleanup(w) \/ Abort(w)
      PROVE  Stored(r)'
  BY <1>3 DEF Stored, SyncStep, SelectPending, SelectDeleted, Select, Embed, UpsertNamespace, CommitSync,
              CommitCleanup, Abort, row, history
<1>4. ASSUME EraseStep
      PROVE  Stored(r)'
  BY <1>4 DEF Stored, EraseStep, EraseList, EraseNamespace, EraseCommit, EraseFails, row, history
<1>5. QED
  BY <1>1, <1>2, <1>3, <1>4 DEF Next, CleanupStep

\* What a job has done at the end of a step it had done before, or it did it in the step.
LEMMA JobsGrow ==
  ASSUME LockInv, NEW w \in Reconciler, SyncStep(w) \/ CleanupStep(w) \/ Abort(w)
  PROVE  /\ \A v \in Reconciler \ {w} : job'[v] = job[v]
         /\ \/ job'[w].done = {}
            \/ job'[w].phase = job[w].phase /\ job'[w].done = job[w].done
            \/ \E D \in SUBSET job[w].batch :
                 /\ job'[w].phase = job[w].phase /\ job'[w].done = job[w].done \union D
                 /\ \/ job[w].phase = "upsert" /\ D \subseteq vectors'
                    \/ job[w].phase = "delete" /\ vectors' = vectors \ D
<1>1. job \in [Reconciler -> Job] /\ job[w] \in Job /\ (job[w].phase = "embed" => job[w].done = {})
  BY DEF LockInv, TypeOK, Held
<1>2. CASE SelectPending(w) \/ SelectDeleted(w)
  <2>1. PICK l \in {"embed", "delete"}, B \in SUBSET Record :
          job' = [job EXCEPT ![w] = [Idle EXCEPT !.phase = l, !.batch = B]]
    BY <1>2, SyncAssumption DEF SelectPending, SelectDeleted, Select, SkipLocked, NeedingSync,
                                NeedingCleanup, kSubset
  <2> DEFINE j == [Idle EXCEPT !.phase = l, !.batch = B]
  <2>2. j \in Job /\ j.done = {}
    BY JobUpdates, <1>1 DEF Idle
  <2>3. job' = [job EXCEPT ![w] = j]
    BY <2>1
  <2> HIDE DEF j
  <2>4. QED
    BY <1>1, <2>2, <2>3
<1>3. CASE Embed(w)
  <2>1. PICK F, G : job' = [job EXCEPT ![w].phase = "upsert", ![w].fresh = F, ![w].bad = G]
    BY <1>3 DEF Embed
  <2>2. \A v \in Reconciler \ {w} : job'[v] = job[v]
    BY <1>1, <2>1
  <2>3. job'[w].done = job[w].done
    BY <1>1, <2>1 DEF Job
  <2>4. QED
    BY <1>1, <1>3, <2>2, <2>3 DEF Embed
<1>4. CASE UpsertNamespace(w) \/ DeleteNamespace(w)
  <2>1. PICK D \in SUBSET Remaining(w) :
          \/ /\ job' = [job EXCEPT ![w].done = @ \union D]
             /\ \/ job[w].phase = "upsert" /\ D \subseteq vectors'
                \/ job[w].phase = "delete" /\ vectors' = vectors \ D
          \/ job' = [job EXCEPT ![w].bad = @ \union D]
    <3>1. CASE UpsertNamespace(w)
      <4>1. PICK r \in Remaining(w) :
              LET D == {d \in Remaining(w) : NamespaceOf[d] = NamespaceOf[r]} IN
              \/ vectors' = vectors \union D /\ job' = [job EXCEPT ![w].done = @ \union D]
              \/ job' = [job EXCEPT ![w].bad = @ \union D]
        BY <3>1 DEF UpsertNamespace
      <4> DEFINE D == {d \in Remaining(w) : NamespaceOf[d] = NamespaceOf[r]}
      <4>2. D \in SUBSET Remaining(w) /\ job[w].phase = "upsert"
        BY <3>1 DEF UpsertNamespace
      <4>3. \/ vectors' = vectors \union D /\ job' = [job EXCEPT ![w].done = @ \union D]
            \/ job' = [job EXCEPT ![w].bad = @ \union D]
        BY <4>1
      <4> HIDE DEF D
      <4>4. vectors' = vectors \union D => D \subseteq vectors'
        OBVIOUS
      <4>5. \/ /\ job' = [job EXCEPT ![w].done = @ \union D]
               /\ job[w].phase = "upsert" /\ D \subseteq vectors'
            \/ job' = [job EXCEPT ![w].bad = @ \union D]
        BY <4>2, <4>3, <4>4
      <4>6. QED
        BY <4>2, <4>5
    <3>2. CASE DeleteNamespace(w)
      <4>1. PICK r \in Remaining(w) :
              LET D == {d \in Remaining(w) : NamespaceOf[d] = NamespaceOf[r]} IN
              \/ vectors' = vectors \ D /\ job' = [job EXCEPT ![w].done = @ \union D]
              \/ job' = [job EXCEPT ![w].bad = @ \union D]
        BY <3>2 DEF DeleteNamespace
      <4>2. WITNESS {d \in Remaining(w) : NamespaceOf[d] = NamespaceOf[r]} \in SUBSET Remaining(w)
      <4>3. QED
        BY <3>2, <4>1 DEF DeleteNamespace
    <3>3. QED
      BY <1>4, <3>1, <3>2
  <2>2. \A v \in Reconciler \ {w} : job'[v] = job[v]
    BY <1>1, <2>1
  <2>3. job'[w].phase = job[w].phase
    BY <1>1, <2>1 DEF Job
  <2>4. CASE job' = [job EXCEPT ![w].bad = @ \union D]
    <3>1. job'[w].done = job[w].done
      BY <1>1, <2>4 DEF Job
    <3>2. QED
      BY <2>2, <2>3, <3>1
  <2>5. CASE job' = [job EXCEPT ![w].done = @ \union D]
    <3>1. job'[w].done = job[w].done \union D
      BY <1>1, <2>5 DEF Job
    <3>2. D \in SUBSET job[w].batch
      BY DEF Remaining
    <3>3. CASE job' = [job EXCEPT ![w].bad = @ \union D]
      BY <2>4, <3>3
    <3>4. QED
      BY <2>1, <2>2, <2>3, <3>1, <3>2, <3>3
  <2>6. QED
    BY <2>1, <2>4, <2>5
<1>5. CASE CommitSync(w) \/ CommitCleanup(w) \/ Abort(w)
  <2>1. job' = [job EXCEPT ![w] = Idle]
    BY <1>5 DEF CommitSync, CommitCleanup, Abort
  <2>2. QED
    BY <1>1, <2>1 DEF Idle
<1>6. QED
  BY <1>2, <1>3, <1>4, <1>5 DEF SyncStep, CleanupStep

LEMMA StoreStep ==
  ASSUME LockInv, StoreInv, Next
  PROVE  StoreInv'
<1>1. ASSUME NEW r \in Record, sync_state'[r] = "synced"
      PROVE  Stored(r)'
  <2>1. sync_state[r] = "synced" \/ creator[r] = "succeeded" \/ \E w \in Reconciler : job[w].phase = "upsert" /\ r \in job[w].done
    <3>1. ASSUME NEW d \in Record, Create(d) \/ CreatorStep(d) \/ Delete(d) \/ Age(d)
          PROVE  sync_state[r] = "synced" \/ creator[r] = "succeeded"
      BY <1>1, <3>1 DEF LockInv, TypeOK, Create, CreatorStep, Upsert, UpsertFails, RecordSuccess,
                        RecordFailure, StateAfterFailure, CreatorDies, Delete, Age, row
    <3>2. ASSUME NEW w \in Reconciler, CommitSync(w)
          PROVE  sync_state[r] = "synced" \/ r \in job[w].done
      BY <1>1, <3>2 DEF CommitSync, Synced, StateAfterBump
    <3>3. ASSUME NEW w \in Reconciler, CommitCleanup(w)
          PROVE  sync_state[r] = "synced"
      BY <1>1, <3>3 DEF CommitCleanup
    <3>4. ASSUME NEW w \in Reconciler, \/ SelectPending(w) \/ Embed(w) \/ UpsertNamespace(w)
                                       \/ SelectDeleted(w) \/ DeleteNamespace(w) \/ Abort(w)
          PROVE  sync_state[r] = "synced"
      BY <1>1, <3>4 DEF SelectPending, SelectDeleted, Select, Embed, UpsertNamespace, DeleteNamespace,
                        Abort, row
    <3>5. \A w \in Reconciler : CommitSync(w) => job[w].phase = "upsert"
      BY DEF CommitSync
    <3>6. EraseStep => sync_state[r] = "synced"
      BY <1>1 DEF EraseStep, EraseList, EraseNamespace, EraseCommit, EraseFails, row
    <3>7. QED
      BY <3>1, <3>2, <3>3, <3>4, <3>5, <3>6 DEF Next, SyncStep, CleanupStep
  <2>2. QED
    BY <2>1, StoredStays DEF StoreInv
<1>2. ASSUME NEW r \in Record, creator'[r] = "succeeded"
      PROVE  Stored(r)'
  <2>1. ASSUME NEW d \in Record, Create(d) \/ CreatorStep(d) \/ Delete(d) \/ Age(d)
        PROVE  creator[r] = "succeeded" \/ r \in vectors'
    BY <1>2, <2>1 DEF LockInv, TypeOK, Create, CreatorStep, Upsert, UpsertFails, RecordSuccess,
                      RecordFailure, CreatorDies, Delete, Age, row
  <2>2. ASSUME NEW w \in Reconciler, SyncStep(w) \/ CleanupStep(w) \/ Abort(w)
        PROVE  UNCHANGED creator
    BY <2>2 DEF SyncStep, CleanupStep, SelectPending, SelectDeleted, Select, Embed, UpsertNamespace,
                CommitSync, DeleteNamespace, CommitCleanup, Abort
  <2>3. EraseStep => UNCHANGED creator
    BY DEF EraseStep, EraseList, EraseNamespace, EraseCommit, EraseFails
  <2>4. creator[r] = "succeeded" \/ r \in vectors'
    BY <1>2, <2>1, <2>2, <2>3 DEF Next
  <2>5. QED
    BY <2>4, StoredStays DEF StoreInv, Stored
<1>3. ASSUME NEW v \in Reconciler, job'[v].phase = "upsert", NEW r \in job'[v].done
      PROVE  Stored(r)'
  <2>1. \A d \in job[v].done \union job[v].batch : d \in Record
    BY DEF LockInv, TypeOK, Job
  <2>2. CASE EraseStep \/ \E d \in Record : Create(d) \/ CreatorStep(d) \/ Delete(d) \/ Age(d)
    <3>1. UNCHANGED job
      BY <2>2 DEF Create, CreatorStep, Upsert, UpsertFails, RecordSuccess, RecordFailure, CreatorDies,
                  Delete, Age, EraseStep, EraseList, EraseNamespace, EraseCommit, EraseFails
    <3>2. QED
      BY <1>3, <2>1, <3>1, StoredStays DEF StoreInv
  <2>3. ASSUME NEW w \in Reconciler, SyncStep(w) \/ CleanupStep(w) \/ Abort(w)
        PROVE  Stored(r)'
    <3>1. CASE v # w
      BY <1>3, <2>1, <2>3, <3>1, JobsGrow, StoredStays DEF StoreInv
    <3>2. CASE v = w
      <4>1. \/ job[v].phase = "upsert" /\ r \in job[v].done
            \/ r \in vectors'
        BY <1>3, <2>3, <3>2, JobsGrow
      <4>2. QED
        BY <2>1, <4>1, StoredStays DEF StoreInv, Stored
    <3>3. QED
      BY <3>1, <3>2
  <2>4. QED
    BY <2>2, <2>3 DEF Next
<1>4. QED
  BY <1>1, <1>2, <1>3 DEF StoreInv

\* A row becomes "synced" by its creator after its own upsert, or by the reconciler that
\* upserted it; and a vector is deleted only after its document was, or by delete_session.
THEOREM SyncedAreStored == Spec => []SyncedIsStored
<1>1. Init => StoreInv
  BY DEF Init, StoreInv, Idle
<1>2. LockInv /\ StoreInv /\ [Next]_vars => StoreInv'
  <2>1. UNCHANGED vars /\ StoreInv => StoreInv'
    BY DEF vars, row, history, StoreInv, Stored
  <2>2. QED
    BY <2>1, StoreStep
<1>3. StoreInv => SyncedIsStored
  BY DEF StoreInv, Stored, SyncedIsStored
<1>4. QED
  BY <1>1, <1>2, <1>3, LocksHold, PTL DEF Spec

\* The vector is gone, or how it can still be there is recorded.
Clean(r) == r \in vectors => r \in late

\* Past the grace period, or its row is gone.
Dead(r) == deleted_at[r] = "old" \/ sync_state[r] = "gone"

\* What was deleted stays deleted: only an upsert counted in late can store the record again.
OrphanInv ==
  /\ \A r \in Record : Dead(r) /\ creator[r] = "upserting" => r \in late
  /\ \A r \in Record : sync_state[r] = "gone" => Clean(r)
  /\ \A w \in Reconciler : job[w].phase = "delete" => \A r \in job[w].done : Clean(r)
  /\ \A r \in erased : r \notin vectors

LEMMA CleanStays ==
  ASSUME LockInv, OrphanInv, Next, NEW r \in Record, Dead(r)
  PROVE  Dead(r)' /\ (Clean(r) => Clean(r)')
<1>1. ASSUME NEW d \in Record, Create(d) \/ CreatorStep(d) \/ Delete(d) \/ Age(d)
      PROVE  Dead(r)' /\ (Clean(r) => Clean(r)')
  <2>1. Dead(r)' /\ late \subseteq late'
    BY <1>1 DEF Dead, LockInv, TypeOK, Create, CreatorStep, Upsert, UpsertFails, RecordSuccess,
                RecordFailure, StateAfterFailure, Exists, CreatorDies, Delete, Age, row, history
  <2>2. r \in vectors' => r \in vectors \/ creator[r] = "upserting"
    BY <1>1 DEF Create, CreatorStep, Upsert, UpsertFails, RecordSuccess, RecordFailure, CreatorDies,
                Delete, Age
  <2>3. QED
    BY <2>1, <2>2 DEF OrphanInv, Clean
<1>2. ASSUME NEW w \in Reconciler, UpsertNamespace(w)
      PROVE  Dead(r)' /\ (Clean(r) => Clean(r)')
  <2>1. r \notin Remaining(w)
    BY <1>2 DEF Remaining, UpsertNamespace, LockInv, Held, Dead
  <2>2. r \in vectors' => r \in vectors
    BY <1>2, <2>1 DEF UpsertNamespace
  <2>3. QED
    BY <1>2, <2>2 DEF UpsertNamespace, Clean, Dead, row
<1>3. ASSUME NEW w \in Reconciler, CommitSync(w)
      PROVE  Dead(r)' /\ (Clean(r) => Clean(r)')
  <2>1. r \notin job[w].batch /\ job[w].done \union job[w].bad \subseteq job[w].batch
    BY <1>3 DEF CommitSync, LockInv, TypeOK, Held, Dead
  <2>2. QED
    BY <1>3, <2>1 DEF CommitSync, Synced, Clean, Dead, history
<1>4. ASSUME NEW w \in Reconciler, SelectPending(w) \/ Embed(w) \/ CleanupStep(w) \/ Abort(w)
      PROVE  Dead(r)' /\ (Clean(r) => Clean(r)')
  BY <1>4 DEF Clean, Dead, CleanupStep, SelectPending, SelectDeleted, Select, Embed,
              DeleteNamespace, CommitCleanup, Abort, row, history
<1>5. ASSUME EraseStep
      PROVE  Dead(r)' /\ (Clean(r) => Clean(r)')
  BY <1>5 DEF Clean, Dead, EraseStep, EraseList, EraseNamespace, EraseCommit, EraseFails, row, history
<1>6. QED
  BY <1>1, <1>2, <1>3, <1>4, <1>5 DEF Next, SyncStep

\* delete_session excuses what it leaves behind.
LEMMA EraseLeaves ==
  ASSUME LockInv, OrphanInv, EraseStep, NEW r \in Record
  PROVE  /\ Dead(r)' /\ creator'[r] = "upserting" => r \in late'
         /\ sync_state'[r] = "gone" => Clean(r)'
         /\ r \in erased' => r \notin vectors'
<1>1. CASE EraseList \/ EraseFails
  BY <1>1 DEF EraseList, EraseFails, OrphanInv, Dead, Clean, row, history
<1>2. CASE EraseNamespace
  BY <1>2 DEF EraseNamespace, OrphanInv, Dead, Clean, row
<1>3. CASE EraseCommit
  <2>1. UNCHANGED <<deleted_at, creator, vectors, erased>>
    BY <1>3 DEF EraseCommit
  <2>2. sync_state'[r] = "gone" =>
          \/ sync_state[r] = "gone"
          \/ (r \in erased \/ r \in late') /\ (creator[r] = "upserting" => r \in late')
    BY <1>3 DEF EraseCommit
  <2>3. late \subseteq late'
    BY <1>3 DEF EraseCommit
  <2>4. QED
    BY <2>1, <2>2, <2>3 DEF OrphanInv, Dead, Clean
<1>4. QED
  BY <1>1, <1>2, <1>3 DEF EraseStep

LEMMA OrphanStep ==
  ASSUME LockInv, OrphanInv, Next
  PROVE  OrphanInv'
<1>1. ASSUME NEW r \in Record, sync_state'[r] = "gone"
      PROVE  \/ sync_state[r] = "gone"
             \/ EraseStep
             \/ \E w \in Reconciler : job[w].phase = "delete" /\ r \in job[w].done
  <2>1. ASSUME NEW d \in Record, Create(d) \/ CreatorStep(d) \/ Delete(d) \/ Age(d)
        PROVE  sync_state[r] = "gone"
    BY <1>1, <2>1 DEF LockInv, TypeOK, Create, CreatorStep, Upsert, UpsertFails, RecordSuccess,
                      RecordFailure, StateAfterFailure, CreatorDies, Delete, Age, row
  <2>2. ASSUME NEW w \in Reconciler, CommitSync(w)
        PROVE  sync_state[r] = "gone"
    BY <1>1, <2>2 DEF CommitSync, StateAfterBump
  <2>3. ASSUME NEW w \in Reconciler, CommitCleanup(w)
        PROVE  sync_state[r] = "gone" \/ (job[w].phase = "delete" /\ r \in job[w].done)
    BY <1>1, <2>3 DEF CommitCleanup, HardDeleted
  <2>4. ASSUME NEW w \in Reconciler, \/ SelectPending(w) \/ Embed(w) \/ UpsertNamespace(w)
                                     \/ SelectDeleted(w) \/ DeleteNamespace(w) \/ Abort(w)
        PROVE  sync_state[r] = "gone"
    BY <1>1, <2>4 DEF SelectPending, SelectDeleted, Select, Embed, UpsertNamespace, DeleteNamespace,
                      Abort, row
  <2>5. QED
    BY <2>1, <2>2, <2>3, <2>4 DEF Next, SyncStep, CleanupStep
<1>2. \A w \in Reconciler : job[w].phase = "delete" =>
        \A r \in job[w].done : r \in Record /\ deleted_at[r] = "old"
  BY DEF LockInv, TypeOK, Job, Held
<1>3. ASSUME NEW r \in Record, Dead(r)', creator'[r] = "upserting"
      PROVE  r \in late'
  <2>1. ASSUME NEW d \in Record, Create(d) \/ CreatorStep(d) \/ Delete(d) \/ Age(d)
        PROVE  r \in late'
    <3>1. CASE Create(d)
      BY <1>3, <3>1 DEF LockInv, TypeOK, Attempts, Create, OrphanInv, Dead, history
    <3>2. CASE CreatorStep(d) \/ Delete(d)
      BY <1>1, <1>3, <3>2 DEF LockInv, TypeOK, CreatorStep, Upsert, UpsertFails, RecordSuccess,
            RecordFailure, StateAfterFailure, CreatorDies, Delete, row, history, OrphanInv, Dead
    <3>3. CASE Age(d)
      BY <1>3, <3>3 DEF LockInv, TypeOK, Age, OrphanInv, Dead
    <3>4. QED
      BY <2>1, <3>1, <3>2, <3>3
  <2>2. ASSUME NEW w \in Reconciler, SyncStep(w) \/ CleanupStep(w) \/ Abort(w)
        PROVE  r \in late'
    <3>1. UNCHANGED <<creator, deleted_at, late>>
      BY <2>2 DEF SyncStep, CleanupStep, SelectPending, SelectDeleted, Select, Embed, UpsertNamespace,
                  CommitSync, DeleteNamespace, CommitCleanup, Abort, row, history
    <3>2. sync_state'[r] = "gone" => Dead(r)
      <4>1. sync_state'[r] = "gone" =>
              sync_state[r] = "gone" \/ \E u \in Reconciler : job[u].phase = "delete" /\ r \in job[u].done
        <5>1. CASE CommitSync(w)
          BY <5>1 DEF CommitSync, StateAfterBump
        <5>2. CASE CommitCleanup(w)
          BY <5>2 DEF CommitCleanup, HardDeleted
        <5>3. CASE \/ SelectPending(w) \/ Embed(w) \/ UpsertNamespace(w)
                   \/ SelectDeleted(w) \/ DeleteNamespace(w) \/ Abort(w)
          BY <5>3 DEF SelectPending, SelectDeleted, Select, Embed, UpsertNamespace, DeleteNamespace,
                      Abort, row
        <5>4. QED
          BY <2>2, <5>1, <5>2, <5>3 DEF SyncStep, CleanupStep
      <4>2. QED
        BY <1>2, <4>1 DEF Dead
    <3>3. QED
      BY <1>3, <3>1, <3>2 DEF OrphanInv, Dead
  <2>3. QED
    BY <1>3, <2>1, <2>2, EraseLeaves DEF Next
<1>4. ASSUME NEW r \in Record, sync_state'[r] = "gone"
      PROVE  Clean(r)'
  <2>1. CASE EraseStep
    BY <1>4, <2>1, EraseLeaves
  <2>2. CASE sync_state[r] = "gone" \/ \E w \in Reconciler : job[w].phase = "delete" /\ r \in job[w].done
    <3>1. Dead(r) /\ Clean(r)
      BY <1>2, <2>2 DEF OrphanInv, Dead
    <3>2. QED
      BY <3>1, CleanStays
  <2>3. QED
    BY <1>1, <1>4, <2>1, <2>2
<1>5. ASSUME NEW v \in Reconciler, job'[v].phase = "delete", NEW r \in job'[v].done
      PROVE  Clean(r)'
  <2>1. ASSUME job[v].phase = "delete", r \in job[v].done
        PROVE  Clean(r)'
    <3>1. r \in Record /\ Dead(r)
      BY <1>2, <2>1 DEF Dead
    <3>2. QED
      BY <2>1, <3>1, CleanStays DEF OrphanInv
  <2>2. CASE EraseStep \/ \E d \in Record : Create(d) \/ CreatorStep(d) \/ Delete(d) \/ Age(d)
    <3>1. UNCHANGED job
      BY <2>2 DEF Create, CreatorStep, Upsert, UpsertFails, RecordSuccess, RecordFailure, CreatorDies,
                  Delete, Age, EraseStep, EraseList, EraseNamespace, EraseCommit, EraseFails
    <3>2. QED
      BY <1>5, <2>1, <3>1
  <2>3. ASSUME NEW w \in Reconciler, SyncStep(w) \/ CleanupStep(w) \/ Abort(w)
        PROVE  Clean(r)'
    <3>1. (job[v].phase = "delete" /\ r \in job[v].done) \/ r \notin vectors'
      BY <1>5, <2>3, JobsGrow
    <3>2. QED
      BY <2>1, <3>1 DEF Clean
  <2>4. QED
    BY <2>2, <2>3 DEF Next
<1>6. ASSUME NEW r \in erased'
      PROVE  r \notin vectors'
  <2>1. CASE EraseStep
    BY <1>6, <2>1 DEF EraseStep, EraseList, EraseNamespace, EraseCommit, EraseFails, row, history, OrphanInv
  <2>2. ASSUME NEW d \in Record, Create(d) \/ CreatorStep(d) \/ Delete(d) \/ Age(d)
        PROVE  r \notin vectors'
    BY <1>6, <2>2 DEF Create, CreatorStep, Upsert, UpsertFails, RecordSuccess, RecordFailure, CreatorDies,
                      Delete, Age, history, OrphanInv
  <2>3. ASSUME NEW w \in Reconciler, SyncStep(w) \/ CleanupStep(w) \/ Abort(w)
        PROVE  r \notin vectors'
    BY <1>6, <2>3 DEF SyncStep, CleanupStep, SelectPending, SelectDeleted, Select, Embed, UpsertNamespace,
                CommitSync, DeleteNamespace, CommitCleanup, Abort, history, OrphanInv
  <2>4. QED
    BY <2>1, <2>2, <2>3 DEF Next
<1>7. QED
  BY <1>3, <1>4, <1>5, <1>6 DEF OrphanInv

\* A row is hard-deleted after its vector, within one batch and its locks, or by delete_session,
\* whose omissions are recorded; only an upsert begun before the deletion can bring it back.
THEOREM NoOrphansRemain == Spec => []NoOrphanVectors
<1>1. Init => OrphanInv
  BY DEF Init, OrphanInv, Idle, Dead
<1>2. LockInv /\ OrphanInv /\ [Next]_vars => OrphanInv'
  <2>1. UNCHANGED vars /\ OrphanInv => OrphanInv'
    BY DEF vars, row, history, OrphanInv, Clean, Dead
  <2>2. QED
    BY <2>1, OrphanStep
<1>3. LockInv /\ OrphanInv => NoOrphanVectors
  BY DEF LockInv, TypeOK, OrphanInv, Clean, NoOrphanVectors
<1>4. QED
  BY <1>1, <1>2, <1>3, LocksHold, PTL DEF Spec
=============================================================================
