----------------------------- MODULE Summaries -----------------------------
(***************************************************************************)
(* Summaries of a session (src/src/utils/summarizer.py), on top of module  *)
(* Sessions.  Every so many messages have a queue row for the summary of   *)
(* a kind; the rows of a session are one work unit, so its tasks run one   *)
(* after the other, but the two kinds of one task run concurrently.  A     *)
(* saver reads the session through the cache, lets a model write the text, *)
(* reads the session again and writes all summaries of that copy back.  A  *)
(* task that takes too long loses its lease and runs on beside the next.   *)
(***************************************************************************)
EXTENDS Sessions

CONSTANTS
  Intervals,  \* the messages per summary that a configuration can ask for, by kind
  KindOf,     \* [Straggler -> the kind of summary it saves]
  MaxSweeps   \* bound: leases taken from a task that still runs

ASSUME SummariesAssumption ==
  /\ Intervals \subseteq [Saver -> Nat \ {0}]
  /\ KindOf \in [Straggler -> Saver] /\ \A i, j \in Straggler : KindOf[i] = KindOf[j] => i = j
  /\ MaxSweeps \in Nat

VARIABLES
  task,     \* [of, per] the message whose summary row is being processed, and its intervals
  swept,    \* the same of the task that the stragglers work for
  served,   \* [Saver -> history: messages whose row was taken and asked for that kind]
  draft,    \* [saver or straggler -> the summary it is making]
  sweeps,   \* leases swept so far
  outdated, \* history: a saver used a copy whose summaries were not those of the row, or a
            \* straggler wrote a summary
  gap       \* history: a summary was not written, or before the one that ends where its
            \* window begins, or the session of its message was deleted before it was read

sumVars == <<task, swept, served, draft, sweeps, outdated, gap>>
allVars == <<vars, sumVars>>

Writer == Saver \union Straggler
NoTask == [id |-> 0, seq |-> 0]
Task   == [of : Message \union {NoTask}, per : [Saver -> Nat \ {0}]]

SumTypeOK ==
  /\ TypeOK
  /\ task \in Task /\ swept \in Task
  /\ served \in [Saver -> SUBSET Message]
  /\ draft \in [Writer -> Summary] /\ sweeps \in 0..MaxSweeps
  /\ outdated \in BOOLEAN /\ gap \in BOOLEAN

Due(k, t) == t.of.seq % t.per[k] = 0

\* The row of a message carries the configuration of the workspace, the session and the
\* message as it was resolved when the row was enqueued.  It can be enqueued after that
\* of a later message, or never: every request enqueues in a background task of its own.
StartTask ==
  /\ \A k \in Saver : At(k, "idle")
  /\ \E m \in messages, per \in Intervals :
       LET t == [of |-> m, per |-> per]
           due == {k \in Saver : Due(k, t)} IN
       /\ due # {} /\ \A k \in Saver : m \notin served[k]
       /\ task' = t
       /\ served' = [k \in Saver |-> IF k \in due THEN served[k] \union {m} ELSE served[k]]
       /\ gap' = (gap \/ \E k \in due : \E n \in messages \ served[k] : n.seq = m.seq - per[k])
       /\ proc' = [p \in Process |-> IF p \in due THEN Asked("summarise", {}) ELSE proc[p]]
  /\ UNCHANGED <<tables, shared, cache, lock, excused, ops, swept, draft, sweeps, outdated>>

Busy(p) == ~At(p, "idle")

\* cleanup_stale_work_units: the lease of a task that has not come to its end in time is
\* removed, and the next owner takes the same row, which is not marked processed.
SweepLease ==
  /\ sweeps < MaxSweeps /\ sweeps' = sweeps + 1
  /\ \A j \in Straggler : ~Busy(j)
  /\ \E k \in Saver : Busy(k)
  /\ \A k \in Saver : Busy(k) => \E j \in Straggler : KindOf[j] = k
  /\ swept' = task
  /\ proc' = [p \in Process |-> IF p \in Straggler THEN proc[KindOf[p]]
                                ELSE IF p \in Saver /\ Due(p, task) THEN Asked("summarise", {})
                                ELSE proc[p]]
  /\ draft' = [p \in Writer |-> IF p \in Straggler THEN draft[KindOf[p]] ELSE NoSummary]
  /\ UNCHANGED <<tables, shared, cache, lock, excused, ops, task, served, outdated, gap>>

Copy(w)   == proc[w].snap
Kd(w)     == IF w \in Saver THEN w ELSE KindOf[w]
TaskOf(w) == IF w \in Saver THEN task ELSE swept
\* get_summary: an inactive session has none.
Latest(w) == IF Copy(w) # NoRow /\ Copy(w).active THEN Copy(w).summaries[Kd(w)] ELSE NoSummary
Current(w) == IF row # NoRow THEN row.summaries[Kd(w)] ELSE NoSummary

\* The last messages up to that of the task, as many as its interval says.
Window(t, k, n) == {m \in messages : m.seq \in (t.of.seq - t.per[k] + n)..t.of.seq}
FewerMessages(w) == Window(TaskOf(w), Kd(w), 2)                      \* mutant: one too few
LastMessages(w)  == Window(TaskOf(w), Kd(w), 1)
LastOf(ms) == (CHOOSE m \in ms : \A n \in ms : n.seq <= m.seq).id

Making(w, kind) == At(w, "use") /\ proc[w].kind = kind

\* mutant: what is already summarised is summarised again
NothingNew(w) == LastMessages(w) = {}
AlreadyCovered(w) == Latest(w).upTo >= TaskOf(w).of.id \/ LastMessages(w) = {}

\* _create_and_save_summary up to the call of the model.
Check(w) ==
  /\ Making(w, "summarise")
  /\ IF AlreadyCovered(w)
     THEN Finish(w) /\ UNCHANGED <<draft, outdated, gap>>
     ELSE /\ draft' = [draft EXCEPT ![w] =
                         [upTo |-> LastOf(LastMessages(w)),
                          covers |-> Latest(w).covers \union {m.id : m \in LastMessages(w)}]]
          /\ outdated' = (outdated \/ (w \in Saver /\ Latest(w) # Current(w)))
          /\ gap' = (gap \/ (w \in Saver /\ task.of \notin messages))
          /\ Goto(w, "llm")
  /\ UNCHANGED <<tables, shared, cache, lock, excused, ops, task, swept, served, sweeps>>

\* The model answers, or the summary is a fallback, which is not saved.
Summarise(w) ==
  /\ At(w, "llm")
  /\ \/ proc' = [proc EXCEPT ![w] = Asked("save", {})] /\ UNCHANGED <<draft, gap>>
     \/ Finish(w) /\ draft' = [draft EXCEPT ![w] = NoSummary] /\ gap' = (gap \/ w \in Saver)
  /\ UNCHANGED <<tables, shared, cache, lock, excused, ops, task, swept, served, sweeps, outdated>>

\* _save_summary: || replaces the whole summaries object of the row of that name by
\* the object of the copy, with its own summary in it.
Save(w) ==
  /\ Making(w, "save")
  /\ IF Copy(w) = NoRow \/ ~Copy(w).active
     THEN Finish(w) /\ gap' = (gap \/ w \in Saver) /\ UNCHANGED <<row, outdated>>
     ELSE /\ row' = IF row = NoRow THEN NoRow
                    ELSE [row EXCEPT !.summaries = [Copy(w).summaries EXCEPT ![Kd(w)] = draft[w]]]
          /\ outdated' = (outdated \/ w \in Straggler
                                   \/ (row # NoRow /\ Copy(w).summaries # row.summaries))
          /\ Goto(w, "invalidate") /\ UNCHANGED gap
  /\ draft' = [draft EXCEPT ![w] = NoSummary]
  /\ UNCHANGED <<messages, deletions, failed, nextId, nextMsg, shared, cache, lock, excused,
                 ops, task, swept, served, sweeps>>

SaverStep(w) ==
  \/ (Fetch(w) \/ Invalidate(w)) /\ UNCHANGED <<shared, sumVars>>
  \/ Check(w) \/ Summarise(w) \/ Save(w)
-----------------------------------------------------------------------------
AnyTask == [of |-> NoTask, per |-> [k \in Saver |-> 1]]

SumInit ==
  /\ Init
  /\ task = AnyTask /\ swept = AnyTask /\ sweeps = 0
  /\ served = [k \in Saver |-> {}]
  /\ draft = [w \in Writer |-> NoSummary]
  /\ outdated = FALSE /\ gap = FALSE

Next ==
  \/ SessionNext /\ UNCHANGED sumVars
  \/ StartTask \/ SweepLease
  \/ \E w \in Writer : SaverStep(w)

Spec == SumInit /\ [][Next]_allVars
-----------------------------------------------------------------------------
(* Properties. *)

\* Somebody has committed a change and has not yet told the cache (session.py,
\* get_or_create_session, update_session, delete_session; _save_summary).
OwesTheCache ==
  \E p \in Process : proc[p].pc \in {"refreshNew", "store", "refreshMerged", "invalidate"}

\* The Redis entry differs from the database only while someone who changed the row still
\* has to update it, or because of what no caller excludes: a reader filled it with
\* what it read before the change, or Redis refused a call after all its retries.
StaleHasACause ==
  shared /\ cache["api"] \notin {NoRow, row} => excused \/ OwesTheCache

\* A session that is marked for deletion is never active again: no request that
\* still works with a copy of the active session writes the mark back.
MarkIsFinal ==
  [][row # NoRow /\ ~row.active => row' = NoRow \/ row'.id # row.id \/ ~row'.active]_allVars

\* create_messages never meets its own unique constraint: between the read of the
\* last number and the commit nobody else takes a number (message.py:169).
NumbersAreFree == \A p \in Request : At(p, "insert") => Free(p)

\* A marked session has its deletion ahead of it, unless the task that was to do it
\* raised, or worked with the copy of another session (routers/sessions.py).
MarkedIsQueued == row # NoRow /\ ~row.active => deletions > 0 \/ failed

\* As long as no saver works with an outdated copy, and no task saves after its lease was
\* swept, a stored summary never goes back to fewer messages, nor does the summary of
\* one kind displace that of the other.
SummariesAdvance ==
  [][\A k \in Saver :
       row # NoRow /\ row' # NoRow /\ row'.id = row.id /\ ~outdated'
         => row'.summaries[k].upTo >= row.summaries[k].upTo]_allVars

\* A summary and the messages from its last one on cover the whole conversation: so
\* docs/v3/documentation/features/advanced/summarizer.mdx:9 and :22 promise, "they
\* are given the prior summary of their type plus every message after that summary".
ContextIsExhaustive ==
  row # NoRow => \A k \in Saver : \A m \in messages :
                   m.id < row.summaries[k].upTo => m.id \in row.summaries[k].covers

\* The same as long as every summary was written, from a copy that was up to date, for a
\* message that is there, by the task that held the lease, and after the summary of that
\* kind for the message one interval before: the windows, which are cut out by number,
\* then join without a hole.  An interval changed on the way excuses only the window
\* that begins at a message which had no row of that kind under the interval before.
WindowsJoin == ~gap /\ ~outdated => ContextIsExhaustive
=============================================================================
