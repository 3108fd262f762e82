------------------------------ MODULE Sessions ------------------------------
(***************************************************************************)
(* One session name: its row in Postgres, the cache entries of it, the     *)
(* numbered messages, and the requests that read, create, change, fill and *)
(* delete it (src/src/crud/session.py, src/src/crud/message.py,            *)
(* src/src/cache/client.py, src/src/routers/sessions.py,                   *)
(* src/src/deriver/consumer.py).                                           *)
(*                                                                         *)
(* Every operation starts from _fetch_session, a read-through cache: the   *)
(* copy it returns may be of any age, and the code below works on with     *)
(* that copy, one database statement or cache call per step.               *)
(***************************************************************************)
EXTENDS Integers, FiniteSetsExt

CONSTANTS
  Request,    \* API requests under way
  Saver,      \* the kinds of summary, each saved by a coroutine (module Summaries)
  Straggler,  \* the same coroutines of a task whose lease was taken from it
  Worker,     \* the deriver task of the deletion work unit
  Key,        \* configuration keys
  Batch,      \* messages in one create_messages call
  NoRow,      \* "no such session"
  Nobody,     \* nobody holds the advisory lock
  Caching,    \* the caches that are checked: one for all (TRUE), one per process (FALSE)
  MaxOps      \* bound: requests

Process == Request \union Saver \union Straggler \union {Worker}

ASSUME SessionsAssumption ==
  /\ Batch \in Nat \ {0} /\ MaxOps \in Nat /\ Caching \subseteq BOOLEAN
  /\ Nobody \notin Process /\ Worker \notin Request \union Saver \union Straggler
  /\ Request \intersect (Saver \union Straggler) = {} /\ Saver \intersect Straggler = {}

VARIABLES
  row,        \* sessions: the row of this name, or NoRow
  shared,     \* init_cache: Redis, or the memory of each process
  cache,      \* [Cache -> its entry: a copy of the row, or NoRow for none]
  messages,   \* the committed messages
  lock,       \* who holds pg_advisory_xact_lock of the session
  deletions,  \* deletion rows waiting in the queue or being handled
  failed,     \* history: a deletion raised, or found no row to delete
  proc,       \* [Process -> where it stands, what it was asked for and what it has read]
  nextId,     \* primary keys: the next of sessions
  nextMsg,    \* ... and of messages
  excused,    \* history: the shared entry may be stale, see StaleHasACause
  ops         \* requests so far

tables == <<row, messages, deletions, failed, nextId, nextMsg>>
vars == <<tables, shared, cache, lock, proc, excused, ops>>

\* The entry that p reads and writes.  With Redis there is only one; without it, or when
\* Redis does not answer at the start, the API and the deriver have their own.
Cache == {"api", "deriver"}
Home(p) == IF shared \/ p \in Request THEN "api" ELSE "deriver"
Entry(p) == cache[Home(p)]
Enter(p, copy) == cache' = [cache EXCEPT ![Home(p)] = copy]
Excuse(cause) == excused' = (shared /\ cause)

Number  == Nat \ {0}
Message == [id : Number, seq : Number]
\* A summary names the last message it covers; the text itself is modelled by the set
\* of the messages that went into it, directly or through the summary before it.
Summary == [upTo : Nat, covers : SUBSET Number]
NoSummary == [upTo |-> 0, covers |-> {}]
Row == [id : Number, active : BOOLEAN, config : SUBSET Key, summaries : [Saver -> Summary]]

ASSUME NoRowAssumption == NoRow \notin Row

Step == {"idle", "lookup", "miss", "fill", "use", "refresh", "refreshNew", "store", "merge",
         "refreshMerged", "invalidate", "lock", "number", "insert", "drop", "llm"}
Kind == {"none", "ensure", "update", "delete", "post", "erase", "summarise", "save"}

Local == [pc : Step, kind : Kind, adds : SUBSET Key, retried : BOOLEAN,
          snap : Row \union {NoRow},   \* the copy of the session it works with
          seen : SUBSET Message]       \* the messages it has read, or removed
Resting == [pc |-> "idle", kind |-> "none", adds |-> {}, retried |-> FALSE,
            snap |-> NoRow, seen |-> {}]
Asked(kind, adds) == [Resting EXCEPT !.pc = "lookup", !.kind = kind, !.adds = adds]

TypeOK ==
  /\ row \in Row \union {NoRow} /\ shared \in Caching
  /\ cache \in [Cache -> Row \union {NoRow}]
  /\ messages \subseteq Message
  /\ lock \in Request \union {Nobody}
  /\ deletions \in Nat /\ failed \in BOOLEAN
  /\ proc \in [Process -> Local]
  /\ nextId \in Number /\ nextMsg \in Number
  /\ excused \in BOOLEAN /\ ops \in 0..MaxOps

At(p, l)   == proc[p].pc = l
Goto(p, l) == proc' = [proc EXCEPT ![p].pc = l]
GotoWith(p, l, copy) == proc' = [proc EXCEPT ![p].pc = l, ![p].snap = copy]
Finish(p)  == proc' = [proc EXCEPT ![p] = Resting]
\* A request that has come to its end is "idle"; it forgets what it read.
Move(p, l) == IF l = "idle" THEN Finish(p) ELSE Goto(p, l)
\* The row that p's copy is of: statements by primary key find no other.
SameRow(p) == row # NoRow /\ row.id = proc[p].snap.id
-----------------------------------------------------------------------------
(* _fetch_session and the cache. *)

Lookup(p) ==
  /\ At(p, "lookup")
  /\ GotoWith(p, IF Entry(p) = NoRow THEN "miss" ELSE "use", Entry(p))
  /\ UNCHANGED <<tables, cache, lock, excused, ops>>

\* A session that does not exist is not cached (condition=NOT_NONE).
ReadRow(p) ==
  /\ At(p, "miss")
  /\ GotoWith(p, IF row = NoRow THEN "use" ELSE "fill", row)
  /\ UNCHANGED <<tables, cache, lock, excused, ops>>

\* The entry written is what p read, whatever has happened to the row since.
Fill(p) ==
  /\ At(p, "fill")
  /\ \/ Enter(p, proc[p].snap) /\ Excuse(proc[p].snap # row)
     \/ UNCHANGED <<cache, excused>>       \* Redis does not take it
  /\ Goto(p, "use")
  /\ UNCHANGED <<tables, lock, ops>>

\* mutant: invalidation is forgotten
KeepEntry(p) ==
  /\ At(p, "invalidate")
  /\ Finish(p)
  /\ UNCHANGED <<tables, cache, lock, excused, ops>>

\* safe_cache_delete, the last thing an operation does; a failure is only logged.
Invalidate(p) ==
  /\ At(p, "invalidate")
  /\ \/ Enter(p, NoRow) /\ Excuse(FALSE)
     \/ UNCHANGED cache /\ Excuse(Entry(p) # NoRow)
  /\ Finish(p)
  /\ UNCHANGED <<tables, lock, ops>>

\* The TTL ends or Redis evicts the entry.
Expire(c) ==
  /\ cache[c] # NoRow
  /\ cache' = [cache EXCEPT ![c] = NoRow] /\ Excuse(FALSE)
  /\ UNCHANGED <<tables, lock, proc, ops>>
-----------------------------------------------------------------------------
(* get_or_create_session and what follows it. *)

Begin(p, kind, adds) ==
  /\ At(p, "idle") /\ ops < MaxOps
  /\ ops' = ops + 1
  /\ proc' = [proc EXCEPT ![p] = Asked(kind, adds)]
  /\ UNCHANGED <<tables, cache, lock, excused>>

\* What the request came for, once get_or_create_session has returned.
Continue(p) ==
  CASE proc[p].kind = "update" -> "merge"
    [] proc[p].kind = "post"   -> "lock"
    [] OTHER                   -> "idle"

GetsOrCreates(p) == At(p, "use") /\ proc[p].kind \in {"ensure", "update", "post"}

\* Only get_or_create_session's own caller passes a configuration to it.
Incoming(p) == IF proc[p].kind = "ensure" THEN proc[p].adds ELSE {}

\* The INSERT; the unique name makes a second creator look again, once.
CreateRow(p) ==
  /\ GetsOrCreates(p) /\ proc[p].snap = NoRow
  /\ IF row = NoRow
     THEN /\ row' = [id |-> nextId, active |-> TRUE, config |-> Incoming(p),
                     summaries |-> [k \in Saver |-> NoSummary]]
          /\ nextId' = nextId + 1
          /\ GotoWith(p, "refreshNew", row')
     ELSE /\ IF proc[p].retried THEN Finish(p)
             ELSE proc' = [proc EXCEPT ![p].pc = "lookup", ![p].retried = TRUE]
          /\ UNCHANGED <<row, nextId>>
  /\ UNCHANGED <<messages, deletions, failed, nextMsg, cache, lock, excused, ops>>

RejectInactive(p) ==
  /\ GetsOrCreates(p) /\ proc[p].snap # NoRow /\ ~proc[p].snap.active
  /\ Finish(p)
  /\ UNCHANGED <<tables, cache, lock, excused, ops>>

\* mutant: the whole cached copy is written back
WriteCopy(p, adds, next) ==
  IF SameRow(p)
  THEN /\ row' = [proc[p].snap EXCEPT !.config = @ \union adds]
       /\ Goto(p, next)
  ELSE /\ Finish(p) /\ UNCHANGED row

\* UPDATE sessions SET configuration = <copy merged with adds> WHERE id = ...; the
\* ORM writes only the column that changed and raises if the row is gone.
WriteConfig(p, adds, next) ==
  IF SameRow(p)
  THEN /\ row' = [row EXCEPT !.config = proc[p].snap.config \union adds]
       /\ Goto(p, next)
  ELSE /\ Finish(p) /\ UNCHANGED row

UseExisting(p) ==
  /\ GetsOrCreates(p) /\ proc[p].snap # NoRow /\ proc[p].snap.active
  /\ IF Incoming(p) \subseteq proc[p].snap.config
     THEN Goto(p, "refresh") /\ UNCHANGED row
     ELSE WriteConfig(p, Incoming(p), "refreshNew")
  /\ UNCHANGED <<messages, deletions, failed, nextId, nextMsg, cache, lock, excused, ops>>

\* db.refresh after a commit that changed nothing; it raises if the row is gone.
Refresh(p) ==
  /\ At(p, "refresh")
  /\ IF SameRow(p) /\ Continue(p) # "idle" THEN GotoWith(p, Continue(p), row) ELSE Finish(p)
  /\ UNCHANGED <<tables, cache, lock, excused, ops>>

\* The same after a change: raising skips the cache call that was to follow.
RefreshChanged(p, from, next) ==
  /\ At(p, from)
  /\ IF SameRow(p)
     THEN GotoWith(p, next, row) /\ UNCHANGED excused
     ELSE Finish(p) /\ Excuse(excused \/ Entry(p) # NoRow)
  /\ UNCHANGED <<tables, cache, lock, ops>>

RefreshNew(p)    == RefreshChanged(p, "refreshNew", "store")
RefreshMerged(p) == RefreshChanged(p, "refreshMerged", "invalidate")

\* safe_cache_set; a write that fails leaves the entry of before the change.
Store(p) ==
  /\ At(p, "store")
  /\ \/ Enter(p, proc[p].snap) /\ Excuse(proc[p].snap # row)
     \/ UNCHANGED cache /\ Excuse(excused \/ Entry(p) # NoRow)
  /\ Move(p, Continue(p))
  /\ UNCHANGED <<tables, lock, ops>>

\* update_session: the second merge starts from the refreshed copy.
Merge(p) ==
  /\ At(p, "merge")
  /\ IF proc[p].adds \subseteq proc[p].snap.config
     THEN Finish(p) /\ UNCHANGED row
     ELSE WriteConfig(p, proc[p].adds, "refreshMerged")
  /\ UNCHANGED <<messages, deletions, failed, nextId, nextMsg, cache, lock, excused, ops>>
-----------------------------------------------------------------------------
(* create_messages, after get_or_create_session. *)

\* mutant: the number is read without the lock
NoLock(p) ==
  /\ At(p, "lock")
  /\ Goto(p, "number")
  /\ UNCHANGED <<tables, cache, lock, excused, ops>>

\* lock_timeout: the request fails after five seconds of waiting.
AcquireLock(p) ==
  /\ At(p, "lock")
  /\ \/ lock = Nobody /\ lock' = p /\ Goto(p, "number")
     \/ lock # Nobody /\ UNCHANGED lock /\ Finish(p)
  /\ UNCHANGED <<tables, cache, excused, ops>>

ReadLastSeq(p) ==
  /\ At(p, "number")
  /\ proc' = [proc EXCEPT ![p].pc = "insert", ![p].seen = messages]
  /\ UNCHANGED <<tables, cache, lock, excused, ops>>

LastSeq(p) == Max({m.seq : m \in proc[p].seen} \union {0})
\* The (unique) numbers that p is going to use are still free.
Free(p) == \A m \in messages : m.seq \notin (LastSeq(p) + 1)..(LastSeq(p) + Batch)

\* mutant: enumerate() from zero
ZeroBased(p) == {[id |-> nextMsg + i, seq |-> LastSeq(p) + i] : i \in 0..(Batch - 1)}
NewMessages(p) == {[id |-> nextMsg + i, seq |-> LastSeq(p) + 1 + i] : i \in 0..(Batch - 1)}

\* INSERT and COMMIT, which releases the lock: the session must exist (foreign key)
\* and the numbers must be unused (unique constraint), or the request fails.
InsertMessages(p) ==
  /\ At(p, "insert")
  /\ IF row # NoRow /\ Free(p)
     THEN messages' = messages \union NewMessages(p) /\ nextMsg' = nextMsg + Batch
     ELSE UNCHANGED <<messages, nextMsg>>
  /\ lock' = IF lock = p THEN Nobody ELSE lock
  /\ Finish(p)
  /\ UNCHANGED <<row, deletions, failed, nextId, cache, excused, ops>>
-----------------------------------------------------------------------------
(* Deletion: the router marks the session, the worker erases it. *)

\* mutant: the mark is committed before the deletion is queued, which then fails
MarkOnly(p) ==
  /\ At(p, "use") /\ proc[p].kind = "delete"
  /\ IF proc[p].snap # NoRow /\ proc[p].snap.active /\ SameRow(p)
     THEN row' = [row EXCEPT !.active = FALSE] /\ Goto(p, "invalidate")
     ELSE Finish(p) /\ UNCHANGED row
  /\ UNCHANGED <<messages, deletions, failed, nextId, nextMsg, cache, lock, excused, ops>>

\* One transaction sets is_active and adds the queue row.
MarkDeleted(p) ==
  /\ At(p, "use") /\ proc[p].kind = "delete"
  /\ IF proc[p].snap # NoRow /\ proc[p].snap.active /\ SameRow(p)
     THEN /\ row' = [row EXCEPT !.active = FALSE]
          /\ deletions' = deletions + 1
          /\ Goto(p, "invalidate")
     ELSE Finish(p) /\ UNCHANGED <<row, deletions>>
  /\ UNCHANGED <<messages, failed, nextId, nextMsg, cache, lock, excused, ops>>

\* process_deletion: one row at a time, inactive sessions included.
TakeDeletion ==
  /\ At(Worker, "idle") /\ deletions > 0
  /\ proc' = [proc EXCEPT ![Worker] = Asked("erase", {})]
  /\ UNCHANGED <<tables, cache, lock, excused, ops>>

\* The DELETE of the messages, not yet committed; an unknown session is a success.
\* The same transaction has removed the leases and queue rows of the session (DeleteScope
\* of WorkQueue) and its vectors, embeddings and documents (EraseStep of VectorSync).
EraseMessages ==
  /\ At(Worker, "use")
  /\ IF proc[Worker].snap = NoRow
     THEN Finish(Worker) /\ deletions' = deletions - 1
     ELSE /\ proc' = [proc EXCEPT ![Worker].pc = "drop", ![Worker].seen = messages]
          /\ UNCHANGED deletions
  /\ UNCHANGED <<row, messages, failed, nextId, nextMsg, cache, lock, excused, ops>>

\* DELETE FROM sessions by primary key and COMMIT.  A message inserted since the
\* erasure violates the foreign key: everything is rolled back and the handler raises.
\* A copy of an earlier session of that name matches no row, which is only a warning.
DropSession ==
  /\ At(Worker, "drop")
  /\ IF SameRow(Worker) /\ ~(messages \subseteq proc[Worker].seen)
     THEN failed' = TRUE /\ Finish(Worker) /\ UNCHANGED <<row, messages>>
     ELSE /\ row' = IF SameRow(Worker) THEN NoRow ELSE row
          /\ messages' = messages \ proc[Worker].seen
          /\ failed' = (failed \/ ~SameRow(Worker))
          /\ Goto(Worker, "invalidate")
  /\ deletions' = deletions - 1
  /\ UNCHANGED <<nextId, nextMsg, cache, lock, excused, ops>>
-----------------------------------------------------------------------------
Init ==
  /\ row = NoRow /\ shared \in Caching /\ cache = [c \in Cache |-> NoRow]
  /\ messages = {} /\ lock = Nobody
  /\ deletions = 0 /\ failed = FALSE
  /\ proc = [p \in Process |-> Resting]
  /\ nextId = 1 /\ nextMsg = 1 /\ excused = FALSE /\ ops = 0

Fetch(p) == Lookup(p) \/ ReadRow(p) \/ Fill(p)

NewRequest(p) ==
  \/ Begin(p, "ensure", {}) \/ Begin(p, "post", {}) \/ Begin(p, "delete", {})
  \/ \E k \in Key : Begin(p, "ensure", {k}) \/ Begin(p, "update", {k})

RequestStep(p) ==
  \/ Fetch(p) \/ CreateRow(p) \/ RejectInactive(p) \/ UseExisting(p)
  \/ Refresh(p) \/ RefreshNew(p) \/ RefreshMerged(p) \/ Store(p) \/ Merge(p)
  \/ AcquireLock(p) \/ ReadLastSeq(p) \/ InsertMessages(p) \/ MarkDeleted(p) \/ Invalidate(p)

WorkerStep ==
  TakeDeletion \/ Fetch(Worker) \/ EraseMessages \/ DropSession \/ Invalidate(Worker)

SessionNext ==
  /\ UNCHANGED shared
  /\ \/ WorkerStep
     \/ \E c \in Cache : Expire(c)
     \/ \E p \in Request : NewRequest(p) \/ RequestStep(p)
=============================================================================
