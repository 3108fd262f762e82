-------------------------- MODULE TelemetryEmitter --------------------------
(***************************************************************************)
(* The emitter of telemetry events of one process                          *)
(* (src/src/telemetry/emitter.py): a bounded buffer, and flushes that take *)
(* batches from its front, send them with retries and put a batch that was *)
(* not accepted back.  A flush is run by the periodic task, by a task that *)
(* emit spawns at a threshold, and once more by shutdown.                  *)
(***************************************************************************)
EXTENDS Integers, Sequences, SequencesExt, FiniteSetsExt

CONSTANTS
  Spawned,      \* bound: flush tasks spawned by emit at one time
  MaxBuffer,    \* max_buffer_size
  BatchSize, Threshold, MaxRetries,
  MaxEvents,    \* bound: events emitted
  Unlocked      \* nobody holds the flush lock

Flusher == Spawned \union {"periodic", "final"}

ASSUME EmitterAssumption ==
  /\ {MaxBuffer, BatchSize, Threshold, MaxRetries, MaxEvents} \subseteq Nat \ {0}
  /\ {"periodic", "final", Unlocked} \intersect Spawned = {}
  /\ Unlocked \notin {"periodic", "final"}

VARIABLES
  buffer,     \* _buffer, a deque of at most MaxBuffer events
  flusher,    \* [Flusher -> where that task stands in flush]
  holder,     \* the task that holds _lock
  batch,      \* the batch of the holder
  tries,      \* its attempt to send it
  mode,       \* "running", "closing" (shutdown is under way), "exited"
  next,       \* events are numbered in the order of their emission
  received,   \* history: what the endpoint has received
  overflowed, \* history: what a full buffer has dropped
  cut         \* history: what was in a batch when its task was cancelled

emitterVars == <<buffer, flusher, holder, batch, tries, mode, next, received, overflowed, cut>>

Event == 1..MaxEvents

EmitterTypeOK ==
  /\ buffer \in Seq(Event) /\ Len(buffer) <= MaxBuffer
  /\ flusher \in [Flusher -> {"idle", "spawned", "waiting", "sending", "ended"}]
  /\ holder \in Flusher \union {Unlocked}
  /\ batch \in Seq(Event) /\ Len(batch) <= BatchSize /\ tries \in 1..MaxRetries
  /\ mode \in {"running", "closing", "exited"}
  /\ next \in 1..(MaxEvents + 1)
  /\ received \subseteq Event /\ overflowed \subseteq Event /\ cut \subseteq Event

EmitterInit ==
  /\ buffer = <<>> /\ holder = Unlocked /\ batch = <<>> /\ tries = 1
  /\ flusher = [f \in Flusher |-> "idle"]
  /\ mode = "running" /\ next = 1
  /\ received = {} /\ overflowed = {} /\ cut = {}
-----------------------------------------------------------------------------
At(f, l)   == flusher[f] = l
Goto(f, l) == flusher' = [flusher EXCEPT ![f] = l]

\* A task spawned at the threshold, if the bound allows one more.
Spawn(size) ==
  LET Free == {f \in Spawned : At(f, "idle")}
  IN  IF size >= Threshold /\ mode = "running" /\ Free # {}
      THEN Goto(CHOOSE f \in Free : TRUE, "spawned")
      ELSE UNCHANGED flusher

\* emit: a full deque drops its oldest event.
Emit ==
  /\ mode # "exited" /\ next <= MaxEvents
  /\ LET full == Len(buffer) = MaxBuffer
         kept == IF full THEN Tail(buffer) ELSE buffer
     IN  /\ buffer' = Append(kept, next)
         /\ overflowed' = overflowed \union IF full THEN {Head(buffer)} ELSE {}
         /\ Spawn(Len(kept) + 1)
  /\ next' = next + 1
  /\ UNCHANGED <<holder, batch, tries, mode, received, cut>>

\* flush looks at the buffer before it asks for the lock.
BeginFlush(f) ==
  /\ IF buffer = <<>>
     THEN Goto(f, IF f = "final" THEN "ended" ELSE "idle")
     ELSE Goto(f, "waiting")
  /\ UNCHANGED <<buffer, holder, batch, tries, mode, next, received, overflowed, cut>>

Tick       == mode = "running" /\ At("periodic", "idle") /\ buffer # <<>> /\ BeginFlush("periodic")
RunSpawned == mode # "exited" /\ \E f \in Spawned : At(f, "spawned") /\ BeginFlush(f)

Leave(f) == holder' = Unlocked /\ Goto(f, IF f = "final" THEN "ended" ELSE "idle")

\* The head of the loop in flush: the next batch, or the lock is released.
NextBatch(f) ==
  LET n == Min({BatchSize, Len(buffer)})
  IN  IF n = 0
      THEN Leave(f) /\ batch' = <<>> /\ UNCHANGED <<buffer, tries>>
      ELSE /\ batch' = SubSeq(buffer, 1, n)
           /\ buffer' = SubSeq(buffer, n + 1, Len(buffer))
           /\ tries' = 1 /\ Goto(f, "sending") /\ holder' = f

Acquire(f) ==
  /\ At(f, "waiting") /\ holder = Unlocked
  /\ NextBatch(f)
  /\ UNCHANGED <<mode, next, received, overflowed, cut>>

\* The endpoint knows an event it has seen by its (deterministic) id.
Received == received \union ToSet(batch)

SendSucceeds(f) ==
  /\ At(f, "sending")
  /\ received' = Received /\ NextBatch(f)
  /\ UNCHANGED <<mode, next, overflowed, cut>>

\* mutant: a batch that was not accepted is forgotten
ForgetBatch(f) == UNCHANGED <<buffer, overflowed>>

\* appendleft of each event in turn: a full deque drops from its other end, the
\* newest events, whatever emit says of the oldest.
ReturnBatch(f) ==
  LET all == batch \o buffer
      n   == Min({MaxBuffer, Len(all)})
  IN  /\ buffer' = SubSeq(all, 1, n)
      /\ overflowed' = overflowed \union {all[i] : i \in (n + 1)..Len(all)}

\* An error status, no connection, or (arrived) an answer that was lost on its way.
SendFails(f, arrived) ==
  /\ At(f, "sending")
  /\ received' = IF arrived THEN Received ELSE received
  /\ IF tries < MaxRetries
     THEN tries' = tries + 1 /\ UNCHANGED <<buffer, overflowed, batch, holder, flusher>>
     ELSE ReturnBatch(f) /\ batch' = <<>> /\ Leave(f) /\ UNCHANGED tries
  /\ UNCHANGED <<mode, next, cut>>
-----------------------------------------------------------------------------
(* shutdown, and the end of the process. *)

\* The lock is released on the way out; a batch is neither sent nor returned.
Cancelled(f) == holder' = IF holder = f THEN Unlocked ELSE holder

\* The periodic task is cancelled where it stands.
BeginShutdown ==
  /\ mode = "running" /\ mode' = "closing"
  /\ Goto("periodic", "ended") /\ Cancelled("periodic")
  /\ IF holder = "periodic"
     THEN cut' = cut \union (ToSet(batch) \ received) /\ batch' = <<>>
     ELSE UNCHANGED <<cut, batch>>
  /\ UNCHANGED <<buffer, tries, next, received, overflowed>>

FinalFlush == mode = "closing" /\ At("final", "idle") /\ BeginFlush("final")

\* The client is closed, _emitter is gone, and asyncio.run cancels what is left.  The
\* final flush returns at once when the buffer is empty, also while a spawned task is
\* still sending the last batch.
Exit ==
  /\ mode = "closing" /\ At("final", "ended") /\ mode' = "exited"
  /\ flusher' = [f \in Flusher |-> "ended"] /\ holder' = Unlocked /\ batch' = <<>>
  /\ cut' = cut \union (ToSet(batch) \ received)
  /\ UNCHANGED <<buffer, tries, next, received, overflowed>>

FlushStep(f) ==
  \/ Acquire(f) \/ SendSucceeds(f)
  \/ \E arrived \in BOOLEAN : SendFails(f, arrived)
-----------------------------------------------------------------------------
(* Properties. *)

Ascending(s) == \A i, j \in DOMAIN s : i < j => s[i] < s[j]

\* However flushes overlap, fail, return their batch and are cancelled, the events keep
\* their order in the process and arrive in it (what is still to arrive is younger than
\* all that has), and each is somewhere: received, in the batch or the buffer, dropped
\* by a full buffer, or in a batch that was cut off by the end of the process ("Events
\* are returned to the buffer on permanent failure", emitter.py:197).
EventsAccounted ==
  /\ Ascending(batch \o buffer)
  /\ \A e \in ToSet(batch \o buffer) \ received : \A r \in received : r < e
  /\ 1..(next - 1) = received \union ToSet(batch \o buffer) \union overflowed \union cut
  /\ mode = "running" => cut = {}
=============================================================================
