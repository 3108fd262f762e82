------------------------- MODULE ReconcilerScheduler ------------------------
(***************************************************************************)
(* The periodic maintenance tasks (src/src/reconciler/scheduler.py): every *)
(* deriver instance has a scheduler that puts a row into the queue when a  *)
(* task is due, unless the task is waiting or running already; a worker of *)
(* any instance takes the row (module WorkQueue, here without its          *)
(* details), and the cleanup task deletes the processed rows               *)
(* (src/src/reconciler/queue_cleanup.py).                                  *)
(***************************************************************************)
EXTENDS Integers, FiniteSets

CONSTANTS
  Instance,   \* deriver processes
  Task,       \* RECONCILER_TASKS
  Cleanup,    \* the task cleanup_queue
  NoTask

ASSUME SchedulerAssumption == Cleanup \in Task /\ NoTask \notin Task

VARIABLES
  at,         \* [Instance -> where _scheduler_loop stands]
  current,    \* [Instance -> the task it tries to enqueue]
  due,        \* [Instance -> tasks whose next_run has come]
  unprocessed,\* [Task -> its rows in the queue that are not processed]
  processed,  \* [Task -> which kinds of processed rows it has]
  lease       \* [Task -> its ActiveQueueSession: "none", "claimed" or "handled"]

schedulerVars == <<at, current, due, unprocessed, processed, lease>>

RowKind == {"success", "error"}

SchedulerTypeOK ==
  /\ at \in [Instance -> {"sleeping", "pending check", "insert", "stopped"}]
  /\ current \in [Instance -> Task \union {NoTask}]
  /\ due \in [Instance -> SUBSET Task]
  /\ unprocessed \in [Task -> 0..1]    \* uq_queue_reconciler_pending_work_unit_key
  /\ processed \in [Task -> SUBSET RowKind]
  /\ lease \in [Task -> {"none", "claimed", "handled"}]

SchedulerInit ==
  /\ at = [i \in Instance |-> "sleeping"] /\ current = [i \in Instance |-> NoTask]
  /\ due = [i \in Instance |-> {}]
  /\ unprocessed = [t \in Task |-> 0] /\ processed = [t \in Task |-> {}]
  /\ lease = [t \in Task |-> "none"]
-----------------------------------------------------------------------------
(* _scheduler_loop and _try_enqueue_task. *)

BecomesDue(i, t) ==
  /\ at[i] # "stopped" /\ t \notin due[i] /\ t # current[i]
  /\ due' = [due EXCEPT ![i] = @ \union {t}]
  /\ UNCHANGED <<at, current, unprocessed, processed, lease>>

\* The attempt is over, and the next one is an interval away whatever came of it.
Done(i) ==
  /\ at' = [at EXCEPT ![i] = "sleeping"] /\ current' = [current EXCEPT ![i] = NoTask]

CheckInProgress(i, t) ==
  /\ at[i] = "sleeping" /\ t \in due[i]
  /\ due' = [due EXCEPT ![i] = @ \ {t}]
  /\ IF lease[t] # "none"
     THEN UNCHANGED <<at, current>>
     ELSE /\ at' = [at EXCEPT ![i] = "pending check"]
          /\ current' = [current EXCEPT ![i] = t]
  /\ UNCHANGED <<unprocessed, processed, lease>>

\* mutant: processed rows count as pending
AnyRow(t) == unprocessed[t] > 0 \/ processed[t] # {}
IsPending(t) == unprocessed[t] > 0

CheckPending(i) ==
  /\ at[i] = "pending check"
  /\ IF IsPending(current[i])
     THEN Done(i)
     ELSE at' = [at EXCEPT ![i] = "insert"] /\ UNCHANGED current
  /\ UNCHANGED <<due, unprocessed, processed, lease>>

\* mutant: no unique index
InsertAlways(t) == unprocessed' = [unprocessed EXCEPT ![t] = @ + 1]
\* The unique index turns the row of the second instance into an IntegrityError.
Insert(t) == unprocessed' = [unprocessed EXCEPT ![t] = 1]

Enqueue(i) ==
  /\ at[i] = "insert"
  /\ Insert(current[i]) /\ Done(i)
  /\ UNCHANGED <<due, processed, lease>>

\* The database fails at any of these steps: logged, and tried again when next due.
EnqueueFails(i) ==
  /\ at[i] \in {"pending check", "insert"}
  /\ Done(i)
  /\ UNCHANGED <<due, unprocessed, processed, lease>>

\* shutdown waits five seconds and then cancels the loop where it stands.
Stop(i) ==
  /\ at[i] # "stopped"
  /\ at' = [at EXCEPT ![i] = "stopped"] /\ current' = [current EXCEPT ![i] = NoTask]
  /\ due' = [due EXCEPT ![i] = {}]
  /\ UNCHANGED <<unprocessed, processed, lease>>
-----------------------------------------------------------------------------
(* The work unit of a task, in whatever process handles it. *)

Claim(t) ==
  /\ lease[t] = "none" /\ unprocessed[t] > 0
  /\ lease' = [lease EXCEPT ![t] = "claimed"]
  /\ UNCHANGED <<at, current, due, unprocessed, processed>>

\* The process dies and the stale lease is swept: the row is still there.
LeaseEnds(t) ==
  /\ lease[t] = "claimed"
  /\ lease' = [lease EXCEPT ![t] = "none"]
  /\ UNCHANGED <<at, current, due, unprocessed, processed>>

\* cleanup_queue_items deletes the successes, and the errors (old) whose retention
\* time is over.
AfterCleanup(rows, old) == rows \ ({"success"} \union old)

\* The handler returns or raises, and the row is marked.
Handle(t, outcome, old) ==
  /\ lease[t] = "claimed" /\ unprocessed[t] > 0
  /\ lease' = [lease EXCEPT ![t] = "handled"]
  /\ unprocessed' = [unprocessed EXCEPT ![t] = @ - 1]
  /\ LET cleaned == IF t = Cleanup /\ outcome = "success"
                    THEN [u \in Task |-> AfterCleanup(processed[u], old)] ELSE processed
     IN  processed' = [cleaned EXCEPT ![t] = @ \union {outcome}]
  /\ UNCHANGED <<at, current, due>>

Release(t) ==
  /\ lease[t] = "handled"
  /\ lease' = [lease EXCEPT ![t] = "none"]
  /\ UNCHANGED <<at, current, due, unprocessed, processed>>

SchedulerStep(i) ==
  \/ \E t \in Task : CheckInProgress(i, t)
  \/ CheckPending(i) \/ Enqueue(i) \/ EnqueueFails(i)

LeaseStep(t) == Claim(t) \/ LeaseEnds(t) \/ Release(t)

\* The handlers of a deriver run in the processes of module DeriverServices.
Handled(t, outcome) == \E old \in {{}, {"error"}} : Handle(t, outcome, old)
-----------------------------------------------------------------------------
(* Properties. *)

\* As long as one instance is running, every task is handled again and again, although
\* instances refuse each other's rows, skip an interval when the task is waiting or
\* running, and handlers fail (scheduler.py:64).
TasksKeepRunning ==
  \A t \in Task : (\E i \in Instance : [](at[i] # "stopped")) => []<>(lease[t] = "handled")
=============================================================================
