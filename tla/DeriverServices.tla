--------------------------- MODULE DeriverServices --------------------------
(***************************************************************************)
(* The services of one deriver process that live beside its queue, from    *)
(* start to exit (src/src/deriver/__main__.py,                             *)
(* src/src/deriver/queue_manager.py): its scheduler of maintenance tasks,  *)
(* stopped by the signal handler, and its telemetry emitter, shut down     *)
(* when the main coroutine is over.  Handlers of the tasks emit events.    *)
(***************************************************************************)
EXTENDS TelemetryEmitter, ReconcilerScheduler

CONSTANT Self     \* the instance whose emitter it is

ASSUME ServicesAssumption == Self \in Instance

vars == <<emitterVars, schedulerVars>>

TypeOK == EmitterTypeOK /\ SchedulerTypeOK

Init == EmitterInit /\ SchedulerInit

\* process_reconciler on this process: it tells what it did, except when sync_vectors
\* had nothing to do or the handler raised.
HandleHere(t, outcome) ==
  /\ mode # "exited" /\ Handled(t, outcome)
  /\ \/ outcome = "success" /\ Emit
     \/ (t # Cleanup \/ outcome = "error" \/ next > MaxEvents) /\ UNCHANGED emitterVars

HandleElsewhere(t, outcome) == Handled(t, outcome) /\ UNCHANGED emitterVars

\* The exit of the process takes its scheduler with it.
ExitProcess ==
  /\ Exit
  /\ IF at[Self] = "stopped" THEN UNCHANGED schedulerVars ELSE Stop(Self)

EmitterStep ==
  \/ Emit \/ Tick \/ RunSpawned \/ BeginShutdown \/ FinalFlush
  \/ \E f \in Flusher : FlushStep(f)

OtherSchedulerStep ==
  \/ \E i \in Instance : SchedulerStep(i) \/ Stop(i) \/ \E t \in Task : BecomesDue(i, t)
  \/ \E t \in Task : LeaseStep(t)

Next ==
  \/ EmitterStep /\ UNCHANGED schedulerVars
  \/ OtherSchedulerStep /\ UNCHANGED emitterVars
  \/ ExitProcess
  \/ \E t \in Task, outcome \in RowKind : HandleHere(t, outcome) \/ HandleElsewhere(t, outcome)

\* Time passes, loops and workers go on, and the database does not fail every time.
Fairness ==
  /\ \A i \in Instance :
       /\ \A t \in Task : WF_schedulerVars(BecomesDue(i, t) \/ CheckInProgress(i, t))
       /\ SF_schedulerVars(CheckPending(i)) /\ SF_schedulerVars(Enqueue(i))
  /\ \A t \in Task : /\ WF_schedulerVars(Claim(t) \/ Release(t))
                     /\ SF_schedulerVars(HandleElsewhere(t, "success"))

Spec == Init /\ [][Next]_vars /\ Fairness
=============================================================================
