------------------------------ MODULE WorkQueue ------------------------------
(***************************************************************************)
(* The deriver's work queue: src/src/deriver/queue_manager.py.             *)
(*                                                                         *)
(* Queue rows are grouped by work unit key.  Any number of deriver         *)
(* processes poll the same two Postgres tables: `queue` and                *)
(* `active_queue_sessions` (AQS).  An AQS row is the lease of one work     *)
(* unit; the asyncio task that process_work_unit runs for it is identified *)
(* here by the lease, because worker ids and AQS ids are created in pairs  *)
(* and never reused.  One action is one database transaction together with *)
(* the code up to the next await, so that other tasks and other processes  *)
(* interleave exactly where the program lets them.                         *)
(***************************************************************************)
EXTENDS Integers, FiniteSets, FiniteSetsExt

CONSTANTS
  Process,         \* deriver processes (one QueueManager each)
  Key,             \* work unit keys
  Item,            \* queue rows, numbered in the order a work unit serves them
  WorkUnitOf,      \* [Item -> Key]: the row's work_unit_key
  Kind,            \* [Key -> task type]: what parse_work_unit_key reads in a key
  Tokens,          \* [Item -> Nat]: token_count of the row's message
  BatchMaxTokens,  \* DERIVER.REPRESENTATION_BATCH_MAX_TOKENS
  FlushEnabled,    \* DERIVER.FLUSH_ENABLED
  Workers,         \* DERIVER.WORKERS
  OrderedKeys,     \* work units whose rows are committed in item order
  EventItem,       \* rows that only publish_webhook_event inserts
  Scopes,          \* what can be deleted whole, each session or workspace as the
                   \* units its name matches and the queue rows it owns
  MaxLeases,       \* bound: leases ever issued for one key
  MaxDeletions,    \* bound: deletions of sessions and workspaces
  MaxFaults        \* bound: crashes, signals, slow handlers and failed writes

TaskType == {"representation", "summary", "webhook", "dream", "deletion", "reconciler"}

ASSUME ConstantsAssumption ==
  /\ Process # {}
  /\ Item \subseteq Nat
  /\ IsFiniteSet(Item)
  /\ WorkUnitOf \in [Item -> Key]
  /\ Kind \in [Key -> TaskType]
  /\ Tokens \in [Item -> Nat]
  /\ BatchMaxTokens \in Nat
  /\ FlushEnabled \in BOOLEAN
  /\ Workers \in Nat \ {0}
  /\ OrderedKeys \subseteq Key
  /\ EventItem \subseteq {i \in Item : Kind[WorkUnitOf[i]] = "webhook"}
  /\ \A e \in EventItem : WorkUnitOf[e] \notin OrderedKeys
  /\ Scopes \subseteq [units : SUBSET Key, rows : SUBSET Item]
  /\ MaxLeases \in Nat
  /\ MaxDeletions \in Nat
  /\ MaxFaults \in Nat

Lease == Key \X (1..MaxLeases)
KeyOf(l) == l[1]

VARIABLES
  queue,             \* [Item -> RowStatus]
  aqs,               \* rows of active_queue_sessions
  stale,             \* those whose last_updated is older than the cutoff
  issued,            \* [Key -> Nat]: leases issued so far, so ids are fresh
  poll,              \* [Process -> where its polling loop stands]
  available_units,   \* [Process -> keys its SELECT returned]
  shutdown_event,    \* [Process -> BOOLEAN]
  worker_ownership,  \* [Process -> SUBSET Lease]: QueueManager.worker_ownership
  task,              \* [Lease -> where its process_work_unit task stands]
  home,              \* [Lease -> Process]: the process that inserted the lease
  batch,             \* [Lease -> SUBSET Item]: items_to_process
  counted,           \* [Lease -> BOOLEAN]: queue_item_count > 0
  handled,           \* history: rows a handler has returned from normally
  failed,            \* history: rows whose attempt has raised
  deletions,         \* sessions and workspaces deleted so far
  faults             \* faults so far

dbVars   == <<queue, aqs, stale, issued>>
pollVars == <<poll, available_units, shutdown_event>>
taskVars == <<task, home, batch, counted>>
history  == <<handled, failed>>
counts   == <<deletions, faults>>
vars     == <<dbVars, pollVars, worker_ownership, taskVars, history, counts>>

RowStatus == {"absent", "pending", "processed", "errored", "deleted"}
PollState == {"top", "select", "claim", "track", "exiting", "down"}
TaskState == {"none", "claimed", "waiting", "loop", "handling", "marking",
              "failing", "closing", "publishing", "gone"}

\* Inside `async with self.semaphore`, and with a task object at all.
Running == {"loop", "handling", "marking", "failing", "closing", "publishing"}
Alive   == Running \union {"waiting"}
Holding == {"handling", "marking", "failing"}

\* Every variable has its type, and a task that holds a batch holds rows of its
\* own unit only: what a fetch returned never mixes work units.
TypeOK ==
  /\ queue \in [Item -> RowStatus]
  /\ aqs \subseteq Lease
  /\ stale \subseteq aqs
  /\ issued \in [Key -> 0..MaxLeases]
  /\ poll \in [Process -> PollState]
  /\ available_units \in [Process -> SUBSET Key]
  /\ shutdown_event \in [Process -> BOOLEAN]
  /\ worker_ownership \in [Process -> SUBSET Lease]
  /\ task \in [Lease -> TaskState]
  /\ home \in [Lease -> Process]
  /\ batch \in [Lease -> SUBSET Item]
  /\ counted \in [Lease -> BOOLEAN]
  /\ handled \subseteq Item
  /\ failed \subseteq Item
  /\ deletions \in 0..MaxDeletions
  /\ faults \in 0..MaxFaults
  /\ \A l \in Lease : task[l] \in Holding => /\ batch[l] # {}
                                            /\ \A i \in batch[l] : WorkUnitOf[i] = KeyOf(l)

-----------------------------------------------------------------------------
(* Queries. *)

Rows(k)     == {i \in Item : WorkUnitOf[i] = k}
PendingOfAnyUnit(k) == {i \in Item : queue[i] = "pending"}          \* mutant
Pending(k)  == {i \in Rows(k) : queue[i] = "pending"}
IsLeased(k) == \E l \in aqs : KeyOf(l) = k

\* Tasks of p that hold a permit of its semaphore.
RunningTasks(p) == {l \in Lease : home[l] = p /\ task[l] \in Running}

\* token_stats_subq and the threshold filter: a representation unit waits
\* until its unprocessed messages carry enough tokens to fill a batch.
PendingTokens(k) == MapThenSumSet(LAMBDA i : Tokens[i], Pending(k))
MoreThanFillsBatch(k) ==                                             \* mutant
  Kind[k] = "representation" /\ ~FlushEnabled => PendingTokens(k) > BatchMaxTokens
FillsBatch(k) ==
  Kind[k] = "representation" /\ ~FlushEnabled => PendingTokens(k) >= BatchMaxTokens

Claimable(k) == Pending(k) # {} /\ FillsBatch(k)

\* What one fetch may return.  A representation unit gets a run of its first
\* unprocessed rows (how long, RepresentationBatch works out); any other unit
\* its first row.
Prefixes(S) == {B \in (SUBSET S) \ {{}} : \A i \in B, j \in S : j < i => j \in B}
UnorderedBatches(k) == (SUBSET Pending(k)) \ {{}}                    \* mutant
Batches(k)  == IF Kind[k] = "representation"
               THEN Prefixes(Pending(k))
               ELSE {{Min(Pending(k))}}

Fault == faults < MaxFaults /\ faults' = faults + 1 /\ UNCHANGED deletions

-----------------------------------------------------------------------------
(* Producers. *)

\* A producer's transaction commits.  Ids are given at INSERT, so rows of one
\* unit may become visible out of order, unless its producers are serial.
Enqueue(i) ==
  /\ queue[i] = "absent"
  /\ i \notin EventItem
  /\ WorkUnitOf[i] \in OrderedKeys =>
       \A j \in Rows(WorkUnitOf[i]) : j < i => queue[j] # "absent"
  /\ queue' = [queue EXCEPT ![i] = "pending"]
  /\ UNCHANGED <<aqs, stale, issued, pollVars, worker_ownership, taskVars, history, counts>>

-----------------------------------------------------------------------------
(* The polling loop. *)

\* What cleanup_stale_work_units deletes: rows that another transaction has
\* locked are being refreshed or deleted by it, so none is missed.
SweepBusyOnly == {l \in stale : Pending(KeyOf(l)) # {}}              \* mutant
Sweep == stale

\* A turn begins unless every permit is taken, by deleting all stale leases.
PollBegin(p) ==
  /\ poll[p] = "top" /\ ~shutdown_event[p]
  /\ Cardinality(RunningTasks(p)) < Workers
  /\ aqs' = aqs \ Sweep
  /\ stale' = stale \ Sweep
  /\ poll' = [poll EXCEPT ![p] = "select"]
  /\ UNCHANGED <<queue, issued, available_units, shutdown_event, worker_ownership,
                 taskVars, history, counts>>

LimitIgnoringOwned(p) == Workers                                     \* mutant
Limit(p) == IF Cardinality(worker_ownership[p]) < Workers
            THEN Workers - Cardinality(worker_ownership[p]) ELSE 0

\* SELECT ... LIMIT: any `limit` of the unleased claimable units.
PollSelect(p) ==
  LET free == {k \in Key : Claimable(k) /\ ~IsLeased(k) /\ issued[k] < MaxLeases} IN
  /\ poll[p] = "select"
  /\ \E S \in SUBSET free :
       /\ S = free \/ Cardinality(S) = Limit(p)
       /\ Cardinality(S) <= Limit(p)
       /\ available_units' = [available_units EXCEPT ![p] = S]
       /\ poll' = [poll EXCEPT ![p] = IF S = {} THEN "top" ELSE "claim"]
  /\ UNCHANGED <<dbVars, shutdown_event, worker_ownership, taskVars, history, counts>>

\* The keys INSERT ... ON CONFLICT DO NOTHING RETURNING really inserts.
InsertedUnchecked(p) == {k \in available_units[p] : issued[k] < MaxLeases}  \* mutant
Inserted(p) == {k \in available_units[p] : ~IsLeased(k) /\ issued[k] < MaxLeases}
NextLease(k) == <<k, issued[k] + 1>>

PollClaim(p) ==
  LET new == {NextLease(k) : k \in Inserted(p)} IN
  /\ poll[p] = "claim"
  /\ aqs' = aqs \union new
  /\ issued' = [k \in Key |-> IF k \in Inserted(p) THEN issued[k] + 1 ELSE issued[k]]
  /\ task' = [l \in Lease |-> IF l \in new THEN "claimed" ELSE task[l]]
  /\ home' = [l \in Lease |-> IF l \in new THEN p ELSE home[l]]
  /\ available_units' = [available_units EXCEPT ![p] = {}]
  /\ poll' = [poll EXCEPT ![p] = IF new = {} THEN "top" ELSE "track"]
  /\ UNCHANGED <<queue, stale, shutdown_event, worker_ownership, batch, counted,
                 history, counts>>

ClaimedBy(p) == {l \in Lease : home[l] = p /\ task[l] = "claimed"}

\* Back from the claim: track and start a task per lease, or, when a signal
\* came meanwhile, drop the leases on the floor.
PollTrack(p) ==
  /\ poll[p] = "track"
  /\ poll' = [poll EXCEPT ![p] = "top"]
  /\ IF shutdown_event[p]
     THEN /\ task' = [l \in Lease |-> IF l \in ClaimedBy(p) THEN "gone" ELSE task[l]]
          /\ UNCHANGED worker_ownership
     ELSE /\ task' = [l \in Lease |-> IF l \in ClaimedBy(p) THEN "waiting" ELSE task[l]]
          /\ worker_ownership' = [worker_ownership EXCEPT ![p] = @ \union ClaimedBy(p)]
  /\ UNCHANGED <<dbVars, available_units, shutdown_event, home, batch, counted,
                 history, counts>>

\* A query of the turn raises; leases already committed are never tracked.
PollError(p) ==
  /\ poll[p] \in {"select", "claim", "track"}
  /\ Fault
  /\ poll' = [poll EXCEPT ![p] = "top"]
  /\ available_units' = [available_units EXCEPT ![p] = {}]
  /\ task' = [l \in Lease |-> IF l \in ClaimedBy(p) THEN "gone" ELSE task[l]]
  /\ UNCHANGED <<dbVars, shutdown_event, worker_ownership, home, batch, counted, history>>

-----------------------------------------------------------------------------
(* A task: process_work_unit(work_unit_key, worker_id). *)

Goto(l, s) == task' = [task EXCEPT ![l] = s]

Acquire(l) ==
  /\ task[l] = "waiting"
  /\ Cardinality(RunningTasks(home[l])) < Workers
  /\ Goto(l, "loop")
  /\ UNCHANGED <<dbVars, pollVars, worker_ownership, home, batch, counted, history, counts>>

Owns(l) == l \in worker_ownership[home[l]]

\* The loop ends on a shutdown, on lost ownership (in memory or in the table)
\* and when no row is left.
Leave(l) ==
  /\ task[l] = "loop"
  /\ \/ shutdown_event[home[l]]
     \/ ~Owns(l)
     \/ l \notin aqs
     \/ Pending(KeyOf(l)) = {}
  /\ Goto(l, "closing")
  /\ UNCHANGED <<dbVars, pollVars, worker_ownership, home, batch, counted, history, counts>>

Fetch(l) ==
  /\ task[l] = "loop" /\ ~shutdown_event[home[l]]
  /\ Owns(l) /\ l \in aqs /\ Pending(KeyOf(l)) # {}
  /\ \E B \in Batches(KeyOf(l)) : batch' = [batch EXCEPT ![l] = B]
  /\ Goto(l, "handling")
  /\ UNCHANGED <<dbVars, pollVars, worker_ownership, home, counted, history, counts>>

\* items[0], the only row _handle_processing_error marks.
BlamedLast(l) == Max(batch[l])                                       \* mutant
Blamed(l) == Min(batch[l])

\* process_representation_batch or process_item returns ...
Handle(l) ==
  /\ task[l] = "handling"
  /\ handled' = handled \union batch[l]
  /\ Goto(l, "marking")
  /\ UNCHANGED <<dbVars, pollVars, worker_ownership, home, batch, counted, failed, counts>>

\* ... or raises: only the first row of the batch will be blamed.
HandleRaises(l) ==
  /\ task[l] = "handling"
  /\ failed' = failed \union {Blamed(l)}
  /\ Goto(l, "failing")
  /\ UNCHANGED <<dbVars, pollVars, worker_ownership, home, batch, counted, handled, counts>>

\* Both kinds of mark refresh last_updated by key alone, whoever holds it.
Refreshed(k) == {l \in stale : KeyOf(l) # k}

\* UPDATE queue SET processed = true by row id: an error text already there
\* stays, and a row that is no more is not missed.
MarkedWholeUnit(l) == batch[l] \union Pending(KeyOf(l))              \* mutant
Marked(l) == batch[l]

MarkProcessed(l) ==
  /\ task[l] = "marking"
  /\ queue' = [i \in Item |-> IF i \in Marked(l) /\ queue[i] \notin {"errored", "deleted"}
                              THEN "processed" ELSE queue[i]]
  /\ stale' = Refreshed(KeyOf(l))
  /\ counted' = [counted EXCEPT ![l] = TRUE]
  /\ batch' = [batch EXCEPT ![l] = {}]
  /\ Goto(l, "loop")
  /\ UNCHANGED <<aqs, issued, pollVars, worker_ownership, home, history, counts>>

\* The write raises inside the same try: a handled batch is treated as failed.
MarkProcessedRaises(l) ==
  /\ task[l] = "marking"
  /\ Fault
  /\ failed' = failed \union {Blamed(l)}
  /\ Goto(l, "failing")
  /\ UNCHANGED <<dbVars, pollVars, worker_ownership, home, batch, counted, handled>>

MarkErrored(l) ==
  /\ task[l] = "failing"
  /\ queue' = [queue EXCEPT ![Blamed(l)] = IF @ = "deleted" THEN @ ELSE "errored"]
  /\ stale' = Refreshed(KeyOf(l))
  /\ batch' = [batch EXCEPT ![l] = {}]
  /\ Goto(l, "loop")
  /\ UNCHANGED <<aqs, issued, pollVars, worker_ownership, home, counted, history, counts>>

\* _handle_processing_error swallows a failure of its own write.
MarkErroredRaises(l) ==
  /\ task[l] = "failing"
  /\ Fault
  /\ batch' = [batch EXCEPT ![l] = {}]
  /\ Goto(l, "loop")
  /\ UNCHANGED <<dbVars, pollVars, worker_ownership, home, counted, history>>

\* The finally block: drop the lease if still tracked, untrack, and announce
\* queue.empty when this task removed the row and processed something.
Announces(l) ==
  Owns(l) /\ l \in aqs /\ counted[l] /\ Kind[KeyOf(l)] \in {"representation", "summary"}

\* DELETE FROM active_queue_sessions WHERE id = ... AND work_unit_key = ...
ReleasedByKey(l) == {m \in aqs : KeyOf(m) = KeyOf(l)}                \* mutant
Released(l) == {l}

Close(l) ==
  /\ task[l] = "closing"
  /\ IF Owns(l) THEN aqs' = aqs \ Released(l) /\ stale' = stale \ Released(l)
             ELSE UNCHANGED <<aqs, stale>>
  /\ worker_ownership' = [worker_ownership EXCEPT ![home[l]] = @ \ {l}]
  /\ counted' = [counted EXCEPT ![l] = FALSE]
  /\ Goto(l, IF Announces(l) THEN "publishing" ELSE "gone")
  /\ UNCHANGED <<queue, issued, pollVars, home, batch, history, counts>>

\* _cleanup_work_unit raises: the rest of the finally block is skipped.
CloseRaises(l) ==
  /\ task[l] = "closing" /\ Owns(l)
  /\ Fault
  /\ counted' = [counted EXCEPT ![l] = FALSE]
  /\ Goto(l, "gone")
  /\ UNCHANGED <<dbVars, pollVars, worker_ownership, home, batch, history>>

\* publish_webhook_event inserts one more row (or swallows its failure).
Publish(l) ==
  /\ task[l] = "publishing"
  /\ \/ \E e \in EventItem : queue[e] = "absent" /\ queue' = [queue EXCEPT ![e] = "pending"]
     \/ UNCHANGED queue
  /\ Goto(l, "gone")
  /\ UNCHANGED <<aqs, stale, issued, pollVars, worker_ownership, home, batch, counted,
                 history, counts>>

-----------------------------------------------------------------------------
(* Deletions. *)

\* The transaction of delete_session or delete_workspace, whichever process runs
\* it: leases are matched by the names in their key, whoever holds them and
\* however fresh, except those claimed after its first DELETE; queue rows are
\* matched by the ids they carry.  No task is told.
DeleteScope(s) ==
  LET matched == {l \in aqs : KeyOf(l) \in s.units} IN
  /\ deletions < MaxDeletions /\ deletions' = deletions + 1
  /\ \E D \in SUBSET matched : aqs' = aqs \ D /\ stale' = stale \ D
  /\ queue' = [i \in Item |-> IF i \in s.rows /\ queue[i] # "absent"
                              THEN "deleted" ELSE queue[i]]
  /\ UNCHANGED <<issued, pollVars, worker_ownership, taskVars, history, faults>>

-----------------------------------------------------------------------------
(* Time, signals and crashes. *)

\* STALE_SESSION_TIMEOUT_MINUTES pass without a refresh.  Only a lease whose
\* task still lives makes this a fault: its handler outlasted the timeout.
Expire(l) ==
  /\ l \in aqs \ stale
  /\ stale' = stale \union {l}
  /\ IF task[l] = "gone" THEN UNCHANGED counts ELSE Fault
  /\ UNCHANGED <<queue, aqs, issued, pollVars, worker_ownership, taskVars, history>>

\* SIGTERM or SIGINT.
Shutdown(p) ==
  /\ poll[p] \notin {"exiting", "down"} /\ ~shutdown_event[p]
  /\ Fault
  /\ shutdown_event' = [shutdown_event EXCEPT ![p] = TRUE]
  /\ UNCHANGED <<dbVars, poll, available_units, worker_ownership, taskVars, history>>

\* The loop ends and initialize() runs cleanup() in its finally block: every
\* tracked lease goes, its task still running or not; or the DELETE fails.
Cleanup(p) ==
  /\ poll[p] = "top" /\ shutdown_event[p]
  /\ \/ aqs' = aqs \ worker_ownership[p] /\ stale' = stale \ worker_ownership[p]
        /\ UNCHANGED counts
     \/ worker_ownership[p] # {} /\ Fault /\ UNCHANGED <<aqs, stale>>
  /\ worker_ownership' = [worker_ownership EXCEPT ![p] = {}]
  /\ poll' = [poll EXCEPT ![p] = "exiting"]
  /\ UNCHANGED <<queue, issued, available_units, shutdown_event, taskVars, history>>

\* Everything in the memory of p is lost.
Stop(p) ==
  /\ poll' = [poll EXCEPT ![p] = "down"]
  /\ available_units' = [available_units EXCEPT ![p] = {}]
  /\ worker_ownership' = [worker_ownership EXCEPT ![p] = {}]
  /\ task' = [l \in Lease |-> IF home[l] = p /\ task[l] # "none" THEN "gone" ELSE task[l]]
  /\ batch' = [l \in Lease |-> IF home[l] = p THEN {} ELSE batch[l]]
  /\ counted' = [l \in Lease |-> home[l] # p /\ counted[l]]
  /\ UNCHANGED <<dbVars, shutdown_event, home, history>>

\* main() returns and asyncio.run cancels whatever still runs.
Exit(p)  == poll[p] = "exiting" /\ Stop(p) /\ UNCHANGED counts
Crash(p) == poll[p] # "down" /\ Fault /\ Stop(p)

Start(p) ==
  /\ poll[p] = "down"
  /\ poll' = [poll EXCEPT ![p] = "top"]
  /\ shutdown_event' = [shutdown_event EXCEPT ![p] = FALSE]
  /\ UNCHANGED <<dbVars, available_units, worker_ownership, taskVars, history, counts>>

-----------------------------------------------------------------------------
Init ==
  /\ queue = [i \in Item |-> "absent"]
  /\ aqs = {} /\ stale = {}
  /\ issued = [k \in Key |-> 0]
  /\ poll = [p \in Process |-> "top"]
  /\ available_units = [p \in Process |-> {}]
  /\ shutdown_event = [p \in Process |-> FALSE]
  /\ worker_ownership = [p \in Process |-> {}]
  /\ task = [l \in Lease |-> "none"]
  /\ home = [l \in Lease |-> CHOOSE p \in Process : TRUE]
  /\ batch = [l \in Lease |-> {}]
  /\ counted = [l \in Lease |-> FALSE]
  /\ handled = {} /\ failed = {}
  /\ deletions = 0 /\ faults = 0

PollStep(p) ==
  PollBegin(p) \/ PollSelect(p) \/ PollClaim(p) \/ PollTrack(p) \/ Cleanup(p) \/ Exit(p)

TaskStep(l) ==
  \/ Acquire(l) \/ Leave(l) \/ Fetch(l) \/ Handle(l) \/ HandleRaises(l)
  \/ MarkProcessed(l) \/ MarkErrored(l) \/ Close(l) \/ Publish(l)

FaultStep ==
  \/ \E p \in Process : PollError(p) \/ Shutdown(p) \/ Crash(p)
  \/ \E l \in Lease : MarkProcessedRaises(l) \/ MarkErroredRaises(l) \/ CloseRaises(l)

Next ==
  \/ \E i \in Item : Enqueue(i)
  \/ \E p \in Process : PollStep(p) \/ Start(p)
  \/ \E l \in Lease : TaskStep(l) \/ Expire(l)
  \/ \E s \in Scopes : DeleteScope(s)
  \/ FaultStep

\* Each polling loop comes around; whenever some task can step, some task does
\* (an awaited call returns or raises); time passes for leases nobody refreshes.
\* Nothing obliges a producer to enqueue, or anyone to restart a process.
Fairness ==
  /\ \A p \in Process : WF_vars(PollStep(p))
  /\ WF_vars(\E l \in Lease : TaskStep(l))
  /\ WF_vars(\E l \in Lease : task[l] = "gone" /\ Expire(l))

Spec     == Init /\ [][Next]_vars
FairSpec == Spec /\ Fairness
-----------------------------------------------------------------------------
(* What the queue promises. *)

\* Two pollers that SELECT the same unit never both hold it.
OneLeasePerUnit == \A l, m \in aqs : KeyOf(l) = KeyOf(m) => l = m

\* claims never overbook a process, although they are computed one await
\* before they are tracked and tasks untrack themselves meanwhile.
WithinCapacity ==
  \A p \in Process : Cardinality(worker_ownership[p] \union ClaimedBy(p)) <= Workers

\* Rows that arrive while a batch is being handled are never marked with it,
\* and blame falls only on a row whose attempt raised.
NoRowLost == \A i \in Item :
  /\ queue[i] = "processed" => i \in handled
  /\ queue[i] = "errored" => i \in failed

\* Where producers are serial, a unit's finished rows are its first rows, but
\* for deleted ones: no crash, steal, error, late writer or deletion of the
\* session under a running task makes the queue skip one.
FinishedInOrder ==
  \A k \in OrderedKeys : \A i, j \in Rows(k) :
    i < j /\ queue[j] \in {"processed", "errored"} =>
      queue[i] \in {"processed", "errored", "deleted"}

\* All of it is an at-least-once ledger of rows: WorkLedger.
Ledger == INSTANCE WorkLedger WITH status <- queue, Withdrawable <- {s.rows : s \in Scopes}
ImplementsLedger == Ledger!Spec

\* A lease ends because it was stale, because the process that took it gives it
\* up in that very step, or with the session or workspace its key names: a task
\* that lost its unit never ends the lease of the task that has it now.
OnlyOwnersRelease ==
  [][\A l \in aqs \ aqs' :
       \/ l \in stale
       \/ l \in worker_ownership[home[l]] \ worker_ownership'[home[l]]
       \/ deletions' # deletions /\ \E s \in Scopes : KeyOf(l) \in s.units]_vars

\* A process that can take work: up, and some slot not leaked by CloseRaises.
Leaked(p)  == {l \in worker_ownership[p] : task[l] = "gone"}
Serving(p) == poll[p] # "down" /\ Cardinality(Leaked(p)) < Workers

\* A pending row is resolved or deleted, unless its representation unit stays below the
\* token threshold or no serving process is left.
Waits(i) == Kind[WorkUnitOf[i]] = "representation" /\ ~FlushEnabled
            /\ PendingTokens(WorkUnitOf[i]) < BatchMaxTokens
EveryRowIsResolved ==
  \A i \in Item : queue[i] = "pending" ~>
    queue[i] \in {"processed", "errored", "deleted"} \/ Waits(i) \/ \A p \in Process : ~Serving(p)

\* The leases of vanished tasks do not block their units for ever.
AbandonedLeasesEnd ==
  []<>(~(\E l \in aqs : task[l] = "gone") \/ \A p \in Process : poll[p] = "down")
=============================================================================
