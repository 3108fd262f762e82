--------------------------- MODULE DreamScheduler ---------------------------
(***************************************************************************)
(* Dreams, from the document that makes one due to its queue row:          *)
(* src/src/dreamer/dream_scheduler.py and enqueue_dream in                 *)
(* src/src/deriver/enqueue.py.                                             *)
(*                                                                         *)
(* Each deriver process keeps a dictionary of asyncio timers by work unit  *)
(* key.  Savers (tasks that save a representation) schedule and cancel     *)
(* them; a timer that fires, or a caller of the schedule_dream route,      *)
(* enqueues the dream unless one is pending or in progress.  One action is *)
(* the code between two awaits: the event loop of a process switches       *)
(* between its savers and timers there, other processes run at any time.   *)
(***************************************************************************)
EXTENDS Integers, FiniteSets, FiniteSetsExt

CONSTANTS
  Process,            \* deriver processes
  Key,                \* dream work unit keys: one per collection, ENABLED_TYPES being one
  Saver,              \* concurrent representation tasks
  HomeOf,             \* [Saver -> Process]
  Caller,             \* requests to the schedule_dream route of the API
  TargetOf,           \* [Caller -> Key]
  Timer,              \* bound: timers alive at a time (identities are reused)
  DocumentThreshold,  \* DREAM.DOCUMENT_THRESHOLD
  MaxDocuments,       \* bound: documents of a collection
  MaxFaults           \* bound: crashes and failed queries

\* What the modules that use this one assume.
DreamAssumption ==
  /\ HomeOf \in [Saver -> Process]
  /\ TargetOf \in [Caller -> Key]
  /\ Timer \subseteq Nat /\ Timer \intersect Caller = {}
  /\ DocumentThreshold \in Nat \ {0}
  /\ MaxDocuments \in Nat
  /\ MaxFaults \in Nat

VARIABLES
  documents,       \* [Key -> Nat]: documents in the collection
  metadata,        \* [Key -> [count, fresh]]: internal_metadata["dream"]
  rows,            \* [Key -> Nat]: unprocessed dream rows in the queue
  leased,          \* keys with a row in active_queue_sessions
  pending_dreams,  \* [Process -> [Key -> Timer \union {None}]]
  timer,           \* [Timer -> what the task was made for]
  saver,           \* [Saver -> where save_representation stands]
  at,              \* [Timer \union Caller -> where the coroutine stands]
  count,           \* [Timer \union Caller -> Nat]: document_count it read
  stopping,        \* processes in shutdown()
  faults

Enqueuer == Timer \union Caller
dbVars   == <<documents, metadata, rows, leased>>
memory   == <<pending_dreams, timer, saver, stopping>>
vars     == <<dbVars, memory, at, count, faults>>

None     == 0 - 1
NoTimer  == [home |-> None, key |-> None, cancelled |-> FALSE]
Idle     == [step |-> "idle"]

\* "disturbed" is a timer that sleeps although a message has come since it was
\* set; a coroutine in enqueue_dream awaits one of three queries.
Sleeping  == {"sleeping", "disturbed"}
Enqueuing == {"lease?", "row?", "insert"}
Live      == {t \in Timer : at[t] \in Sleeping \union Enqueuing}

Metadata   == [count : 0..MaxDocuments, fresh : BOOLEAN]
Task       == [home : Process, key : Key, cancelled : BOOLEAN]
Checking   == [step : {"checking"}, key : Key, seen : Metadata]
Cancelling == [step : {"cancelling"}, key : Key, old : Timer]

\* Every variable has its type, and a saver waits only for a timer it cancelled.
TypeOK ==
  /\ documents \in [Key -> 0..MaxDocuments]
  /\ metadata \in [Key -> Metadata]
  /\ rows \in [Key -> Nat]
  /\ leased \subseteq Key
  /\ pending_dreams \in [Process -> [Key -> Timer \union {None}]]
  /\ timer \in [Timer -> {NoTimer} \union Task]
  /\ saver \in [Saver -> {Idle} \union Checking \union Cancelling]
  /\ \A s \in Saver : saver[s].step = "cancelling" =>
       timer[saver[s].old].cancelled \/ timer[saver[s].old] = NoTimer
  /\ at \in [Enqueuer -> {"none", "finished"} \union Sleeping \union Enqueuing]
  /\ count \in [Enqueuer -> 0..MaxDocuments]
  /\ stopping \subseteq Process
  /\ faults \in 0..MaxFaults

Fault == faults < MaxFaults /\ faults' = faults + 1
-----------------------------------------------------------------------------
(* Savers: check_and_schedule_dream and schedule_dream. *)

\* An identity is free again when nobody but s waits for its last task.
Unused(s) == {t \in Timer : /\ at[t] = "none"
                            /\ \A r \in Saver \ {s} :
                                 saver[r].step = "cancelling" => saver[r].old # t}

\* The collection is fetched (its metadata may be outdated from here on) and a
\* document is written to it.
SaveDocuments(s, k) ==
  /\ saver[s] = Idle
  /\ documents[k] < MaxDocuments
  /\ documents' = [documents EXCEPT ![k] = @ + 1]
  /\ saver' = [saver EXCEPT ![s] = [step |-> "checking", key |-> k, seen |-> metadata[k]]]
  /\ UNCHANGED <<metadata, rows, leased, pending_dreams, timer, stopping, at, count, faults>>

\* The message's own configuration has dreams disabled, or the count fails.
SaveUnchecked(s) ==
  /\ saver[s].step = "checking"
  /\ saver' = [saver EXCEPT ![s] = Idle]
  /\ UNCHANGED <<dbVars, pending_dreams, timer, stopping, at, count, faults>>

Due(s) == /\ documents[saver[s].key] - saver[s].seen.count >= DocumentThreshold
          /\ ~saver[s].seen.fresh

\* asyncio.create_task(_delayed_dream(...)) and its entry in the dictionary.
Create(s, t) ==
  LET k == saver[s].key
      p == HomeOf[s] IN
  /\ timer' = [timer EXCEPT ![t] = [home |-> p, key |-> k, cancelled |-> FALSE]]
  /\ pending_dreams' = [pending_dreams EXCEPT ![p][k] = t]
  /\ at' = [at EXCEPT ![t] = "sleeping"]
  /\ saver' = [saver EXCEPT ![s] = Idle]

SaveNotDue(s) ==
  /\ saver[s].step = "checking" /\ ~Due(s)
  /\ saver' = [saver EXCEPT ![s] = Idle]
  /\ UNCHANGED <<dbVars, pending_dreams, timer, stopping, at, count, faults>>

\* No entry, or that of a task that is done, which await does not wait for.
ScheduleAtOnce(s) ==
  /\ saver[s].step = "checking" /\ Due(s) /\ Unused(s) # {}
  /\ LET old == pending_dreams[HomeOf[s]][saver[s].key] IN
       old # None => at[old] = "finished"
  /\ Create(s, Min(Unused(s)))
  /\ UNCHANGED <<dbVars, stopping, count, faults>>

KeptTask(t)      == timer[t]                                         \* mutant
CancelledTask(t) == [timer[t] EXCEPT !.cancelled = TRUE]

\* cancel_dream: pop the entry, cancel the task and wait for its end.
ScheduleCancels(s) ==
  LET k == saver[s].key
      p == HomeOf[s]
      old == pending_dreams[p][k] IN
  /\ saver[s].step = "checking" /\ Due(s)
  /\ old # None /\ at[old] # "finished"
  /\ pending_dreams' = [pending_dreams EXCEPT ![p][k] = None]
  /\ timer' = [timer EXCEPT ![old] = CancelledTask(old)]
  /\ saver' = [saver EXCEPT ![s] = [step |-> "cancelling", key |-> k, old |-> old]]
  /\ UNCHANGED <<dbVars, stopping, at, count, faults>>

\* Its callbacks have run; whatever was registered meanwhile is overwritten.
ForgottenReschedule(s, t) ==                                         \* mutant
  saver' = [saver EXCEPT ![s] = Idle] /\ UNCHANGED <<timer, pending_dreams, at>>
Reschedule(s, t) == Create(s, t)

ScheduleResumes(s) ==
  /\ saver[s].step = "cancelling" /\ at[saver[s].old] = "none" /\ Unused(s) # {}
  /\ Reschedule(s, Min(Unused(s)))
  /\ UNCHANGED <<dbVars, stopping, count, faults>>

-----------------------------------------------------------------------------
(* Timers: _delayed_dream, execute_dream and enqueue_dream. *)

Goto(e, s) ==
  /\ at' = [at EXCEPT ![e] = s]
  /\ count' = [count EXCEPT ![e] = IF s \in Enqueuing THEN @ ELSE 0]
Done(e)    == IF e \in Timer THEN "finished" ELSE "none"
Runs(e)    == e \in Timer => ~timer[e].cancelled

\* The sleep is over: the current count and configuration are read.
Fire(t) ==
  /\ at[t] \in Sleeping /\ Runs(t)
  /\ count' = [count EXCEPT ![t] = documents[timer[t].key]]
  /\ at' = [at EXCEPT ![t] = "lease?"]
  /\ UNCHANGED <<dbVars, memory, faults>>

Target(e) == IF e \in Timer THEN timer[e].key ELSE TargetOf[e]

\* in_progress_check and pending_check are two queries, each with its own snapshot.
CheckInProgress(e) ==
  /\ at[e] = "lease?" /\ Runs(e)
  /\ Goto(e, IF Target(e) \in leased THEN Done(e) ELSE "row?")
  /\ UNCHANGED <<dbVars, memory, faults>>

CheckPending(e) ==
  /\ at[e] = "row?" /\ Runs(e)
  /\ Goto(e, IF rows[Target(e)] > 0 THEN Done(e) ELSE "insert")
  /\ UNCHANGED <<dbVars, memory, faults>>

\* uq_queue_dream_pending_work_unit_key refuses a second unprocessed row.
Unconstrained(k) == TRUE                                             \* mutant
Insertable(k) == rows[k] = 0

Insert(e) ==
  LET k == Target(e) IN
  /\ rows' = [rows EXCEPT ![k] = @ + 1]
  /\ metadata' = [metadata EXCEPT ![k] = [count |-> count[e], fresh |-> TRUE]]
  /\ UNCHANGED <<documents, leased>>

\* The row and the collection's metadata are committed together, or neither is.
Enqueue(e) ==
  /\ at[e] = "insert" /\ Runs(e)
  /\ Goto(e, Done(e))
  /\ IF Insertable(Target(e)) THEN Insert(e) ELSE UNCHANGED dbVars
  /\ UNCHANGED <<memory, faults>>

\* A query raises, or dreams have been disabled: the timer ends without a row; a
\* caller gets the error.
EnqueueFails(e) ==
  /\ at[e] \in Sleeping \union Enqueuing /\ Runs(e)
  /\ Fault
  /\ Goto(e, Done(e))
  /\ UNCHANGED <<dbVars, memory>>

\* CancelledError is raised at the await the timer is in; a commit under way
\* may have been done by then.
InterruptibleAsleep == Sleeping                                      \* mutant
Interruptible == Sleeping \union Enqueuing

Cancelled(t) ==
  /\ at[t] \in Interruptible /\ timer[t].cancelled
  /\ Goto(t, "finished")
  /\ \/ UNCHANGED dbVars
     \/ at[t] = "insert" /\ Insertable(Target(t)) /\ Insert(t)
  /\ UNCHANGED <<memory, faults>>

\* The done callback removes the entry of the key, whosever it is by now.
RemovedIfCancelled(t) == timer[t].cancelled                          \* mutant
Removed(t) == TRUE

Callback(t) ==
  /\ at[t] = "finished"
  /\ Goto(t, "none")
  /\ pending_dreams' = IF Removed(t)
       THEN [pending_dreams EXCEPT ![timer[t].home][timer[t].key] = None]
       ELSE pending_dreams
  /\ timer' = [timer EXCEPT ![t] = NoTimer]
  /\ UNCHANGED <<dbVars, saver, stopping, faults>>

-----------------------------------------------------------------------------
(* The API process, the queue's workers and the outside. *)

\* The schedule_dream route counts the documents and calls enqueue_dream.
Call(c) ==
  /\ at[c] = "none"
  /\ count' = [count EXCEPT ![c] = documents[TargetOf[c]]]
  /\ at' = [at EXCEPT ![c] = "lease?"]
  /\ UNCHANGED <<dbVars, memory, faults>>

\* enqueue() cancels the dreams that the scheduler of its own process holds for
\* the sender.  Messages are enqueued by the API, which never creates one.
Cancellable(k) == {}

Message(k) ==
  LET hit == Cancellable(k) IN
  /\ timer' = [t \in Timer |-> IF t \in hit THEN CancelledTask(t) ELSE timer[t]]
  /\ at' = [e \in Enqueuer |-> IF at[e] = "sleeping" /\ timer[e].key = k THEN "disturbed" ELSE at[e]]
  /\ UNCHANGED <<dbVars, pending_dreams, saver, stopping, count, faults>>

\* A worker leases the dream's work unit, runs it, and gives the lease up.
Claim(k) ==
  /\ k \notin leased /\ rows[k] > 0
  /\ leased' = leased \union {k}
  /\ UNCHANGED <<documents, metadata, rows, memory, at, count, faults>>

Dream(k) ==
  /\ k \in leased /\ rows[k] > 0
  /\ rows' = [rows EXCEPT ![k] = @ - 1]
  /\ UNCHANGED <<documents, metadata, leased, memory, at, count, faults>>

Release(k) ==
  /\ k \in leased
  /\ leased' = leased \ {k}
  /\ UNCHANGED <<documents, metadata, rows, memory, at, count, faults>>

\* MIN_HOURS_BETWEEN_DREAMS pass since last_dream_at.
Age(k) ==
  /\ metadata[k].fresh
  /\ metadata' = [metadata EXCEPT ![k].fresh = FALSE]
  /\ UNCHANGED <<documents, rows, leased, memory, at, count, faults>>

\* shutdown() cancels every timer of the dictionary and waits for them.
Registered(p) == {pending_dreams[p][k] : k \in Key} \ {None}

Shutdown(p) ==
  /\ p \notin stopping /\ Fault
  /\ stopping' = stopping \union {p}
  /\ timer' = [t \in Timer |-> IF t \in Registered(p) THEN CancelledTask(t) ELSE timer[t]]
  /\ UNCHANGED <<dbVars, pending_dreams, saver, at, count>>

\* All that p has in memory is gone, and it is started again.
Forget(p) ==
  LET mine == {t \in Timer : timer[t].home = p} IN
  /\ pending_dreams' = [pending_dreams EXCEPT ![p] = [k \in Key |-> None]]
  /\ timer' = [t \in Timer |-> IF t \in mine THEN NoTimer ELSE timer[t]]
  /\ saver' = [s \in Saver |-> IF HomeOf[s] = p THEN Idle ELSE saver[s]]
  /\ at' = [e \in Enqueuer |-> IF e \in mine THEN "none" ELSE at[e]]
  /\ count' = [e \in Enqueuer |-> IF e \in mine THEN 0 ELSE count[e]]
  /\ stopping' = stopping \ {p}
  /\ UNCHANGED dbVars

\* The dictionary is cleared when the cancelled timers have ended; the process exits.
Exit(p) ==
  /\ p \in stopping
  /\ \A t \in Timer : timer[t].home = p => ~timer[t].cancelled
  /\ Forget(p) /\ UNCHANGED faults

Crash(p) == Fault /\ Forget(p)
-----------------------------------------------------------------------------
Init ==
  /\ documents = [k \in Key |-> 0]
  /\ metadata = [k \in Key |-> [count |-> 0, fresh |-> FALSE]]
  /\ rows = [k \in Key |-> 0] /\ leased = {}
  /\ pending_dreams = [p \in Process |-> [k \in Key |-> None]]
  /\ timer = [t \in Timer |-> NoTimer]
  /\ saver = [s \in Saver |-> Idle]
  /\ at = [e \in Enqueuer |-> "none"]
  /\ count = [e \in Enqueuer |-> 0]
  /\ stopping = {} /\ faults = 0

SaverStep(s) ==
  SaveNotDue(s) \/ ScheduleAtOnce(s) \/ ScheduleCancels(s) \/ ScheduleResumes(s)
EnqueueStep(e) == CheckInProgress(e) \/ CheckPending(e) \/ Enqueue(e)
TimerStep(t) == Fire(t) \/ EnqueueStep(t) \/ Cancelled(t) \/ Callback(t)

Next ==
  \/ \E s \in Saver : SaverStep(s) \/ SaveUnchecked(s) \/ \E k \in Key : SaveDocuments(s, k)
  \/ \E t \in Timer : TimerStep(t)
  \/ \E c \in Caller : Call(c) \/ EnqueueStep(c)
  \/ \E e \in Enqueuer : EnqueueFails(e)
  \/ \E k \in Key : Message(k) \/ Claim(k) \/ Dream(k) \/ Release(k) \/ Age(k)
  \/ \E p \in Process : Shutdown(p) \/ Exit(p) \/ Crash(p)

\* While some coroutine can go on, some does (which one is up to the event loops),
\* and time passes for sleeping timers.
Step     == (\E s \in Saver : SaverStep(s)) \/ (\E t \in Timer : TimerStep(t))
Fairness == WF_vars(Step)

Spec     == Init /\ [][Next]_vars
FairSpec == Spec /\ Fairness
-----------------------------------------------------------------------------
\* Timers of several processes and manual requests may all have passed both
\* checks: still one unprocessed dream row per collection.
OneDreamRow == \A k \in Key : rows[k] <= 1

\* A dictionary entry never outlives its task, although a task's callback may
\* remove another one's entry: nobody cancels, or waits for, a ghost.
EntriesAreTimers ==
  \A p \in Process, k \in Key : LET t == pending_dreams[p][k] IN
    t # None => at[t] # "none" /\ timer[t].home = p /\ timer[t].key = k

\* Whatever timers, callbacks and requests overlap: at most one dream of a collection
\* is queued, and the dictionaries lead to timers that exist (dream_scheduler.py:76-93,
\* enqueue.py:477-525).
DreamsAreSingle == OneDreamRow /\ EntriesAreTimers

\* Savers that cancel a timer get on with their own work, whatever the timer was
\* doing (documents are bounded, so a saver that hangs hangs in all later states).
CancellersResume == []<>(\A s \in Saver : saver[s].step # "cancelling")

\* Rescheduling never loses the dream: while somebody's timer runs, a dream of
\* the collection will be pending or in progress.  Nothing is promised once a fault has
\* happened (faults > 0): a crash or a signal loses the timer, a failed query the dream.
Underway(k) == rows[k] > 0 \/ k \in leased
TimersLeadToDreams ==
  \A k \in Key : (\E t \in Live : timer[t].key = k) ~> Underway(k) \/ faults > 0

\* dreaming.mdx: "When new messages arrive for a peer, any pending (not yet
\* started) dream for that peer is cancelled."
ActivityCancels ==
  [][\A t \in Timer : at[t] = "disturbed" => at'[t] \in {"disturbed", "finished", "none"}]_vars
=============================================================================
