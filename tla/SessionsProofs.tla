---------------------------- MODULE SessionsProofs ----------------------------
(***************************************************************************)
(* Theorems about Sessions and Summaries, for any number of requests,      *)
(* configuration keys, kinds of summary, batch sizes and operations, and   *)
(* about SessionPeers, for any peers, limit and requests: the count of     *)
(* observers is right but for those that an upsert keeps without having    *)
(* counted them, and for races.                                            *)
(***************************************************************************)
EXTENDS Summaries, WellFoundedInduction, FiniteSetTheorems, TLAPS

CONSTANTS Peer, Limit

VARIABLES member, clone, written, raced

Members == INSTANCE SessionPeers

\* The largest of some numbers that do not grow beyond a bound; Max finds it.
LEMMA MaxOfNumbers ==
  ASSUME NEW S \in SUBSET Nat, S # {}, NEW b \in Nat, \A x \in S : x <= b
  PROVE  Max(S) \in S /\ \A x \in S : x <= Max(S)
<1> DEFINE LessThan == {ss \in Nat \X Nat : ss[1] < ss[2]}
           Bounds == {c \in Nat : \A x \in S : x <= c}
<1>1. IsWellFoundedOn(LessThan, Nat)
  BY NatLessThanWellFounded DEF OpToRel
<1>2. PICK c \in Bounds : \A d \in Bounds : ~(<<d, c>> \in LessThan)
  <2>1. b \in Bounds /\ Bounds \subseteq Nat
    OBVIOUS
  <2> HIDE DEF LessThan, Bounds
  <2>2. QED
    BY <1>1, <2>1, WFMin
<1>3. c \in S
  <2>1. SUFFICES ASSUME c \notin S PROVE FALSE
    OBVIOUS
  <2>2. PICK x \in S : x <= c
    BY <1>2
  <2>3. c - 1 \in Nat
    BY <2>1, <2>2, <1>2
  <2>4. c - 1 \in Bounds
    BY <1>2, <2>1, <2>3
  <2>5. <<c - 1, c>> \in LessThan
    BY <1>2, <2>3
  <2>6. QED
    BY <1>2, <2>4, <2>5
<1>4. \A y \in S : c >= y
  BY <1>2
<1>5. QED
  BY <1>3, <1>4 DEF Max
-----------------------------------------------------------------------------
(* Types. *)

\* Types, and that no message has a number the next one may get: what ReadLastSeq
\* returns is then a number, and the largest of those read.
Numbered ==
  /\ \A m \in messages : m.id < nextMsg /\ m.seq < nextMsg
  /\ \A p \in Process : \A m \in proc[p].seen : m.id < nextMsg /\ m.seq < nextMsg

\* Who is about to cache a copy or to merge into it has one.
HoldsCopy == \A p \in Process : proc[p].pc \in {"fill", "store", "merge"} => proc[p].snap # NoRow

TypeInv == SumTypeOK /\ Numbered /\ HoldsCopy

LEMMA LastSeqIsLast ==
  ASSUME TypeInv, NEW p \in Process
  PROVE  /\ LastSeq(p) \in Nat
         /\ LastSeq(p) < nextMsg
         /\ \A m \in proc[p].seen : m.seq <= LastSeq(p)
<1> DEFINE S == {m.seq : m \in proc[p].seen} \union {0}
<1>1. proc[p].seen \subseteq Message /\ nextMsg \in Nat /\ nextMsg > 0
  BY DEF TypeInv, SumTypeOK, TypeOK, Local, Number
<1>2. S \in SUBSET Nat /\ S # {}
  BY <1>1 DEF Message, Number
<1>3. \A x \in S : x < nextMsg
  BY <1>1 DEF TypeInv, Numbered
<1>4. \A x \in S : x <= nextMsg
  BY <1>1, <1>2, <1>3
<1>5. Max(S) \in S /\ \A x \in S : x <= Max(S)
  BY <1>1, <1>2, <1>4, MaxOfNumbers
<1>6. LastSeq(p) = Max(S)
  BY DEF LastSeq
<1>7. QED
  BY <1>2, <1>3, <1>5, <1>6

LEMMA NewMessagesType ==
  ASSUME TypeInv, NEW p \in Process
  PROVE  /\ NewMessages(p) \subseteq Message
         /\ \A m \in NewMessages(p) : /\ m.id >= nextMsg /\ m.id < nextMsg + Batch
                                      /\ m.seq > LastSeq(p) /\ m.seq <= LastSeq(p) + Batch
                                      /\ m.seq < nextMsg + Batch
                                      /\ m.id - m.seq = nextMsg - (LastSeq(p) + 1)
<1>1. LastSeq(p) \in Nat /\ LastSeq(p) < nextMsg /\ nextMsg \in Number /\ Batch \in Nat \ {0}
  BY LastSeqIsLast, SessionsAssumption DEF TypeInv, SumTypeOK, TypeOK
<1>2. QED
  BY <1>1 DEF NewMessages, Message, Number

LEMMA ProcessKinds ==
  /\ Request \subseteq Process /\ Writer \subseteq Process /\ Worker \in Process
  /\ Writer = Saver \union Straggler
  /\ Worker \notin Request /\ Worker \notin Writer
  /\ Request \intersect Writer = {} /\ Saver \intersect Straggler = {}
BY SessionsAssumption DEF Process, Writer

\* Every writer saves one kind of summary, for a task of its own; the crew is its own kind.
LEMMA WriterKinds ==
  /\ \A k \in Saver : Kd(k) = k /\ TaskOf(k) = task
  /\ \A w \in Writer : Kd(w) \in Saver
BY SummariesAssumption DEF Kd, TaskOf, Writer

LEMMA RestingType == Resting \in Local
BY DEF Resting, Local, Step, Kind

LEMMA AskedType ==
  ASSUME NEW kind \in Kind, NEW adds \in SUBSET Key
  PROVE  Asked(kind, adds) \in Local
BY RestingType DEF Asked, Resting, Local, Step, Kind

\* The effect on proc of a step that moves p on, or that ends what p does.
MovesTo(p, l, copy) ==
  /\ proc' \in [Process -> Local]
  /\ proc'[p].pc = l /\ proc'[p].snap = copy
  /\ proc'[p].kind = proc[p].kind /\ proc'[p].adds = proc[p].adds /\ proc'[p].seen = proc[p].seen
  /\ \A q \in Process \ {p} : proc'[q] = proc[q]

Ends(p) ==
  /\ proc' \in [Process -> Local]
  /\ proc'[p].pc = "idle" /\ proc'[p].kind = "none" /\ proc'[p].snap = NoRow /\ proc'[p].seen = {}
  /\ \A q \in Process \ {p} : proc'[q] = proc[q]

LEMMA Finishes ==
  ASSUME TypeOK, NEW p \in Process, Finish(p)
  PROVE  Ends(p)
BY RestingType DEF Finish, TypeOK, Resting, Ends

LEMMA Moves ==
  ASSUME TypeOK, NEW p \in Process, NEW l \in Step, NEW copy \in Row \union {NoRow}
  PROVE  /\ Goto(p, l) => MovesTo(p, l, proc[p].snap)
         /\ GotoWith(p, l, copy) => MovesTo(p, l, copy)
         /\ Move(p, l) => MovesTo(p, l, proc[p].snap) \/ (Ends(p) /\ l = "idle")
         /\ Finish(p) => Ends(p)
<1>1. /\ proc[p] \in Local
      /\ [proc[p] EXCEPT !.pc = l] \in Local
      /\ [proc[p] EXCEPT !.pc = l, !.snap = copy] \in Local
  BY DEF TypeOK, Local
<1>2. Goto(p, l) => MovesTo(p, l, proc[p].snap)
  BY <1>1 DEF Goto, TypeOK, Local, MovesTo
<1>3. GotoWith(p, l, copy) => MovesTo(p, l, copy)
  BY <1>1 DEF GotoWith, TypeOK, Local, MovesTo
<1>4. Finish(p) => Ends(p)
  BY Finishes
<1>5. Move(p, l) => (Finish(p) /\ l = "idle") \/ Goto(p, l)
  BY DEF Move
<1>6. QED
  BY <1>2, <1>3, <1>4, <1>5

LEMMA EntryType ==
  ASSUME TypeOK, NEW p \in Process
  PROVE  /\ Entry(p) \in Row \union {NoRow}
         /\ proc[p] \in Local /\ proc[p].snap \in Row \union {NoRow}
         /\ proc[p].adds \subseteq Key /\ proc[p].seen \subseteq Message
         /\ \A copy \in Row \union {NoRow} : Enter(p, copy) => cache' \in [Cache -> Row \union {NoRow}]
BY DEF TypeOK, Entry, Home, Cache, Enter, Local

LEMMA RowUpdates ==
  ASSUME NEW r \in Row
  PROVE  /\ \A keys \in SUBSET Key : [r EXCEPT !.config = keys] \in Row
         /\ [r EXCEPT !.active = FALSE] \in Row
         /\ \A s \in [Saver -> Summary] : [r EXCEPT !.summaries = s] \in Row
BY DEF Row

LEMMA ContinueType ==
  ASSUME NEW p \in Process
  PROVE  Continue(p) \in {"merge", "lock", "idle"}
BY DEF Continue

\* Where a request goes that has filled the cache.
LEMMA StoreMoves ==
  ASSUME TypeOK, NEW p \in Process, Store(p)
  PROVE  MovesTo(p, Continue(p), proc[p].snap) \/ (Ends(p) /\ Continue(p) = "idle")
<1>1. Continue(p) \in Step /\ proc[p].snap \in Row \union {NoRow}
  BY ContinueType, EntryType DEF Step
<1>2. Move(p, Continue(p))
  BY DEF Store
<1>3. QED
  BY <1>1, <1>2, Moves

LEMMA WriteConfigEffect ==
  ASSUME TypeOK, NEW p \in Process, NEW adds \in SUBSET Key, NEW next \in Step,
         proc[p].snap \in Row, WriteConfig(p, adds, next)
  PROVE  \/ /\ SameRow(p) /\ row \in Row /\ MovesTo(p, next, proc[p].snap)
            /\ row' \in Row /\ row' = [row EXCEPT !.config = proc[p].snap.config \union adds]
         \/ ~SameRow(p) /\ Ends(p) /\ UNCHANGED row
<1>1. proc[p].snap.config \union adds \in SUBSET Key
  BY DEF Row
<1>2. CASE SameRow(p)
  <2>1. row \in Row /\ Goto(p, next) /\ row' = [row EXCEPT !.config = proc[p].snap.config \union adds]
    BY <1>2 DEF SameRow, WriteConfig, TypeOK
  <2>2. row' \in Row
    BY <1>1, <2>1, RowUpdates
  <2>3. QED
    BY <1>2, <2>1, <2>2, Moves
<1>3. CASE ~SameRow(p)
  BY <1>3, Moves DEF WriteConfig, TypeOK, Step
<1>4. QED
  BY <1>2, <1>3

\* What most steps leave alone.
LEMMA QuietType ==
  ASSUME TypeInv,
         UNCHANGED <<messages, nextMsg, sumVars, shared>>,
         row' \in Row \union {NoRow},
         cache' \in [Cache -> Row \union {NoRow}],
         lock' \in Request \union {Nobody}, deletions' \in Nat, failed' \in BOOLEAN,
         proc' \in [Process -> Local], nextId' \in Number,
         excused' \in BOOLEAN, ops' \in 0..MaxOps,
         \A q \in Process : /\ proc'[q].seen \subseteq messages \union proc[q].seen
                            /\ proc'[q].pc \in {"fill", "store", "merge"} => proc'[q].snap # NoRow
  PROVE  TypeInv'
BY DEF TypeInv, SumTypeOK, TypeOK, Numbered, HoldsCopy, sumVars

LEMMA RequestType ==
  ASSUME TypeInv, NEW p \in Request, RequestStep(p) \/ NewRequest(p),
         UNCHANGED <<shared, sumVars>>
  PROVE  TypeInv'
<1> USE DEF TypeInv, SumTypeOK, HoldsCopy, tables, Step, Excuse, MovesTo, Ends, Cache
<1>1. p \in Process /\ TypeOK /\ proc[p].snap \in Row \union {NoRow} /\ proc[p].adds \subseteq Key
  BY EntryType, ProcessKinds
<1>2. CASE Lookup(p)
  BY <1>1, <1>2, EntryType, Moves, QuietType DEF Lookup, TypeOK
<1>3. CASE ReadRow(p)
  BY <1>1, <1>3, Moves, QuietType DEF ReadRow, TypeOK
<1>4. CASE Fill(p)
  <2>1. cache' \in [Cache -> Row \union {NoRow}] /\ excused' \in BOOLEAN
    BY <1>1, <1>4, EntryType DEF Fill, TypeOK
  <2>2. MovesTo(p, "use", proc[p].snap)
    BY <1>1, <1>4, Moves DEF Fill
  <2>3. QED
    BY <1>1, <1>4, <2>1, <2>2, QuietType DEF Fill, TypeOK
<1>5. CASE Invalidate(p)
  <2>1. cache' \in [Cache -> Row \union {NoRow}] /\ excused' \in BOOLEAN
    BY <1>1, <1>5, EntryType DEF Invalidate, TypeOK
  <2>2. Ends(p)
    BY <1>1, <1>5, Moves DEF Invalidate
  <2>3. QED
    BY <1>1, <1>5, <2>1, <2>2, QuietType DEF Invalidate, TypeOK
<1>6. CASE NewRequest(p)
  <2>1. PICK kind \in Kind, adds \in SUBSET Key : Begin(p, kind, adds)
    BY <1>6 DEF NewRequest, Kind
  <2>2. Asked(kind, adds) \in Local /\ Asked(kind, adds).seen = {} /\ Asked(kind, adds).pc = "lookup"
    BY AskedType DEF Asked, Resting
  <2>3. /\ proc' \in [Process -> Local] /\ ops' \in 0..MaxOps
        /\ \A q \in Process : proc'[q] = proc[q] \/ proc'[q] = Asked(kind, adds)
    BY <1>1, <2>1, <2>2, SessionsAssumption DEF Begin, TypeOK
  <2>4. QED
    BY <1>1, <2>1, <2>2, <2>3, QuietType DEF Begin, TypeOK
<1>7. CASE CreateRow(p)
  <2>1. Incoming(p) \in SUBSET Key
    BY <1>1 DEF Incoming
  <2>2. CASE row = NoRow
    <3>1. NoSummary \in Summary /\ nextId \in Number /\ nextId + 1 \in Number
      BY DEF NoSummary, Summary, TypeOK, Number
    <3>2. [id |-> nextId, active |-> TRUE, config |-> Incoming(p),
           summaries |-> [k \in Saver |-> NoSummary]] \in Row
      BY <2>1, <3>1 DEF Row
    <3>3. row' \in Row /\ nextId' \in Number /\ GotoWith(p, "refreshNew", row')
      BY <1>7, <2>2, <3>1, <3>2 DEF CreateRow
    <3>4. MovesTo(p, "refreshNew", row')
      <4>1. row' \in Row \union {NoRow}
        BY <3>3
      <4>2. QED
        BY <1>1, <3>3, <4>1, Moves
    <3>5. UNCHANGED <<messages, deletions, failed, nextMsg, cache, lock, excused, ops>>
      BY <1>7 DEF CreateRow
    <3>6. QED
      BY <1>1, <3>3, <3>4, <3>5, NoRowAssumption, QuietType DEF TypeOK
  <2>3. CASE row # NoRow /\ proc[p].retried
    BY <1>1, <1>7, <2>3, Moves, QuietType DEF CreateRow, TypeOK
  <2>4. CASE row # NoRow /\ ~proc[p].retried
    <3>1. [proc[p] EXCEPT !.pc = "lookup", !.retried = TRUE] \in Local
      BY <1>1, EntryType DEF Local
    <3>2. /\ proc' \in [Process -> Local] /\ proc'[p].pc = "lookup" /\ proc'[p].seen = proc[p].seen
          /\ \A q \in Process \ {p} : proc'[q] = proc[q]
      BY <1>1, <1>7, <2>4, <3>1 DEF CreateRow, TypeOK, Local
    <3>3. QED
      BY <1>1, <1>7, <2>4, <3>2, QuietType DEF CreateRow, TypeOK
  <2>5. QED
    BY <2>2, <2>3, <2>4
<1>8. CASE RejectInactive(p)
  BY <1>1, <1>8, Moves, QuietType DEF RejectInactive, TypeOK
<1>9. CASE UseExisting(p)
  <2>1. proc[p].snap \in Row /\ Incoming(p) \in SUBSET Key
    BY <1>1, <1>9 DEF UseExisting, Incoming
  <2>2. CASE Goto(p, "refresh") /\ UNCHANGED row
    BY <1>1, <1>9, <2>2, Moves, QuietType DEF UseExisting, TypeOK
  <2>3. CASE WriteConfig(p, Incoming(p), "refreshNew")
    BY <1>1, <1>9, <2>1, <2>3, WriteConfigEffect, QuietType DEF UseExisting, TypeOK
  <2>4. QED
    BY <1>9, <2>2, <2>3 DEF UseExisting
<1>10. CASE Refresh(p)
  <2>1. (row # NoRow /\ MovesTo(p, Continue(p), row) /\ Continue(p) # "idle") \/ Ends(p)
    BY <1>1, <1>10, Moves, ContinueType DEF Refresh, TypeOK, SameRow
  <2>2. QED
    BY <1>1, <1>10, <2>1, ContinueType, QuietType DEF Refresh, TypeOK
<1>11. CASE RefreshNew(p) \/ RefreshMerged(p)
  <2>1. /\ \/ row # NoRow /\ (MovesTo(p, "store", row) \/ MovesTo(p, "invalidate", row))
           \/ Ends(p)
        /\ excused' \in BOOLEAN /\ UNCHANGED <<tables, cache, lock, ops>>
    BY <1>1, <1>11, Moves DEF RefreshNew, RefreshMerged, RefreshChanged, TypeOK, SameRow
  <2>2. QED
    BY <1>1, <2>1, QuietType DEF TypeOK
<1>12. CASE Store(p)
  <2>1. /\ MovesTo(p, Continue(p), proc[p].snap) \/ (Ends(p) /\ Continue(p) = "idle")
        /\ proc[p].snap # NoRow
    BY <1>1, <1>12, Moves, ContinueType DEF Store, At
  <2>2. cache' \in [Cache -> Row \union {NoRow}]
    BY <1>1, <1>12, EntryType DEF Store, TypeOK
  <2>3. QED
    BY <1>1, <1>12, <2>1, <2>2, ContinueType, QuietType DEF Store, TypeOK
<1>13. CASE Merge(p)
  <2>1. CASE proc[p].adds \subseteq proc[p].snap.config
    <3>1. Ends(p)
      BY <1>1, <1>13, <2>1, Moves DEF Merge
    <3>2. QED
      BY <1>13, <2>1, <3>1, QuietType DEF Merge, TypeOK
  <2>2. CASE ~(proc[p].adds \subseteq proc[p].snap.config)
    <3>1. proc[p].snap \in Row
      BY <1>1, <1>13 DEF Merge, At
    <3>2. QED
      BY <1>1, <1>13, <2>2, <3>1, WriteConfigEffect, QuietType DEF Merge, TypeOK
  <2>3. QED
    BY <2>1, <2>2
<1>14. CASE AcquireLock(p)
  <2>1. MovesTo(p, "number", proc[p].snap) \/ Ends(p)
    BY <1>1, <1>14, Moves DEF AcquireLock
  <2>2. lock' \in Request \union {Nobody}
    BY <1>14 DEF AcquireLock, TypeOK
  <2>3. QED
    BY <1>1, <1>14, <2>1, <2>2, QuietType DEF AcquireLock, TypeOK
<1>15. CASE ReadLastSeq(p)
  <2>1. [proc[p] EXCEPT !.pc = "insert", !.seen = messages] \in Local
    <3>1. messages \in SUBSET Message
      BY DEF TypeOK
    <3>2. QED
      BY <1>1, <3>1, EntryType DEF Local
  <2>2. /\ proc' \in [Process -> Local] /\ proc'[p].pc = "insert" /\ proc'[p].seen = messages
        /\ \A q \in Process \ {p} : proc'[q] = proc[q]
    BY <1>1, <1>15, <2>1 DEF ReadLastSeq, TypeOK, Local
  <2>3. QED
    BY <1>1, <1>15, <2>2, QuietType DEF ReadLastSeq, TypeOK
<1>16. CASE InsertMessages(p)
  <2>1. Ends(p) /\ lock' \in Request \union {Nobody}
    BY <1>1, <1>16, Moves DEF InsertMessages, TypeOK
  <2>2. CASE UNCHANGED <<messages, nextMsg>>
    BY <1>16, <2>1, <2>2, QuietType DEF InsertMessages, TypeOK
  <2>3. CASE messages' = messages \union NewMessages(p) /\ nextMsg' = nextMsg + Batch
    <3>1. /\ messages' \subseteq Message
          /\ nextMsg \in Number /\ nextMsg' \in Number /\ nextMsg' > nextMsg
      BY <1>1, <2>3, NewMessagesType, SessionsAssumption DEF TypeOK, Number
    <3>2. \A m \in Message : m.id < nextMsg /\ m.seq < nextMsg => m.id < nextMsg' /\ m.seq < nextMsg'
      BY <3>1 DEF Message, Number
    <3>3. \A m \in messages' : m.id < nextMsg' /\ m.seq < nextMsg'
      BY <1>1, <2>3, <3>1, <3>2, NewMessagesType DEF Numbered, TypeOK
    <3>4. \A q \in Process : \A m \in proc'[q].seen : m.id < nextMsg' /\ m.seq < nextMsg'
      BY <1>1, <2>1, <3>2, EntryType DEF Numbered, TypeOK
    <3>5. QED
      BY <1>16, <2>1, <3>1, <3>3, <3>4 DEF InsertMessages, TypeOK, Numbered, sumVars
  <2>4. QED
    BY <1>16, <2>2, <2>3 DEF InsertMessages
<1>17. CASE MarkDeleted(p)
  <2>1. CASE row' = [row EXCEPT !.active = FALSE] /\ SameRow(p) /\ Goto(p, "invalidate")
             /\ deletions' = deletions + 1
    <3>1. row' \in Row
      BY <1>1, <2>1, RowUpdates DEF SameRow, TypeOK
    <3>2. QED
      BY <1>1, <1>17, <2>1, <3>1, Moves, QuietType DEF MarkDeleted, TypeOK
  <2>2. CASE Finish(p) /\ UNCHANGED <<row, deletions>>
    BY <1>1, <1>17, <2>2, Moves, QuietType DEF MarkDeleted, TypeOK
  <2>3. QED
    BY <1>17, <2>1, <2>2 DEF MarkDeleted
<1>18. QED
  BY <1>2, <1>3, <1>4, <1>5, <1>6, <1>7, <1>8, <1>9, <1>10, <1>11, <1>12, <1>13, <1>14, <1>15,
     <1>16, <1>17 DEF RequestStep, Fetch

\* The read-through cache, for whoever uses it.
LEMMA FetchType ==
  ASSUME TypeInv, NEW p \in Process, Fetch(p) \/ Invalidate(p), UNCHANGED <<shared, sumVars>>
  PROVE  TypeInv'
<1> USE DEF TypeInv, SumTypeOK, HoldsCopy, tables, Step, Excuse, MovesTo, Ends
<1>1. TypeOK /\ proc[p].snap \in Row \union {NoRow}
  BY EntryType
<1>2. CASE Lookup(p)
  BY <1>1, <1>2, EntryType, Moves, QuietType DEF Lookup, TypeOK
<1>3. CASE ReadRow(p)
  BY <1>1, <1>3, Moves, QuietType DEF ReadRow, TypeOK
<1>4. CASE Fill(p)
  <2>1. cache' \in [Cache -> Row \union {NoRow}] /\ excused' \in BOOLEAN
    BY <1>1, <1>4, EntryType DEF Fill, TypeOK
  <2>2. MovesTo(p, "use", proc[p].snap)
    BY <1>1, <1>4, Moves DEF Fill
  <2>3. QED
    BY <1>1, <1>4, <2>1, <2>2, QuietType DEF Fill, TypeOK
<1>5. CASE Invalidate(p)
  <2>1. cache' \in [Cache -> Row \union {NoRow}] /\ excused' \in BOOLEAN
    BY <1>1, <1>5, EntryType, NoRowAssumption DEF Invalidate, TypeOK
  <2>2. Ends(p)
    BY <1>1, <1>5, Moves DEF Invalidate
  <2>3. QED
    BY <1>1, <1>5, <2>1, <2>2, QuietType DEF Invalidate, TypeOK
<1>6. QED
  BY <1>2, <1>3, <1>4, <1>5 DEF Fetch

\* While the worker has a deletion, the queue has its row.
Erasing == proc[Worker].pc \in {"lookup", "miss", "fill", "use", "drop"}

LEMMA WorkerType ==
  ASSUME TypeInv, Erasing => deletions > 0, WorkerStep, UNCHANGED <<shared, sumVars>>
  PROVE  TypeInv'
<1> USE ProcessKinds DEF TypeInv, SumTypeOK, HoldsCopy, tables, Step, Excuse, MovesTo, Ends
<1>1. TypeOK /\ proc[Worker] \in Local /\ proc[Worker].snap \in Row \union {NoRow}
  BY EntryType
<1>2. CASE TakeDeletion
  <2>1. /\ Asked("erase", {}) \in Local /\ Asked("erase", {}).seen = {}
        /\ Asked("erase", {}).pc = "lookup"
    BY AskedType DEF Asked, Resting, Kind
  <2>2. QED
    BY <1>1, <1>2, <2>1, QuietType DEF TakeDeletion, TypeOK
<1>3. CASE Fetch(Worker) \/ Invalidate(Worker)
  BY <1>3, FetchType
<1>4. CASE EraseMessages
  <2>1. CASE Finish(Worker) /\ deletions' = deletions - 1
    <3>1. deletions' \in Nat
      BY <1>1, <1>4, <2>1 DEF EraseMessages, At, Erasing, TypeOK
    <3>2. Ends(Worker)
      BY <1>1, <2>1, Moves
    <3>3. QED
      BY <1>1, <1>4, <2>1, <3>1, <3>2, QuietType DEF EraseMessages, TypeOK
  <2>2. CASE /\ proc' = [proc EXCEPT ![Worker].pc = "drop", ![Worker].seen = messages]
             /\ UNCHANGED deletions
    <3>1. messages \in SUBSET Message
      BY DEF TypeOK
    <3>2. [proc[Worker] EXCEPT !.pc = "drop", !.seen = messages] \in Local
      BY <1>1, <3>1 DEF Local
    <3>3. /\ proc' \in [Process -> Local] /\ proc'[Worker].pc = "drop" /\ proc'[Worker].seen = messages
          /\ \A q \in Process \ {Worker} : proc'[q] = proc[q]
      BY <1>1, <2>2, <3>2 DEF TypeOK, Local
    <3>4. QED
      BY <1>1, <1>4, <2>2, <3>3, QuietType DEF EraseMessages, TypeOK
  <2>3. QED
    BY <1>4, <2>1, <2>2 DEF EraseMessages
<1>5. CASE DropSession
  <2>1. MovesTo(Worker, "invalidate", proc[Worker].snap) \/ Ends(Worker)
    BY <1>1, <1>5, Moves DEF DropSession
  <2>2. row' \in Row \union {NoRow} /\ messages' \subseteq messages /\ failed' \in BOOLEAN
    BY <1>5 DEF DropSession, TypeOK
  <2>3. deletions' \in Nat
    BY <1>1, <1>5 DEF DropSession, At, Erasing, TypeOK
  <2>4. QED
    BY <1>1, <1>5, <2>1, <2>2, <2>3 DEF DropSession, TypeOK, Numbered, sumVars
<1>6. QED
  BY <1>2, <1>3, <1>4, <1>5 DEF WorkerStep

\* The newest message of a window that has any.
LEMMA LastOfType ==
  ASSUME TypeInv, NEW ms \in SUBSET messages, ms # {}
  PROVE  \E m \in ms : LastOf(ms) = m.id /\ \A n \in ms : n.seq <= m.seq
<1> DEFINE S == {m.seq : m \in ms}
<1>1. S \in SUBSET Nat /\ S # {} /\ nextMsg \in Nat /\ \A x \in S : x <= nextMsg
  BY DEF TypeInv, SumTypeOK, TypeOK, Numbered, Message, Number
<1>2. Max(S) \in S /\ \A x \in S : x <= Max(S)
  BY <1>1, MaxOfNumbers
<1>3. \E m \in ms : \A n \in ms : n.seq <= m.seq
  BY <1>2
<1>4. QED
  BY <1>3 DEF LastOf

LEMMA SummaryType ==
  ASSUME TypeInv, StartTask \/ SweepLease \/ \E k \in Writer : Check(k) \/ Summarise(k) \/ Save(k)
  PROVE  TypeInv'
<1> USE ProcessKinds DEF TypeInv, SumTypeOK, HoldsCopy, tables, Step, MovesTo, Ends
<1>1. CASE StartTask
  <2>1. /\ Asked("summarise", {}) \in Local /\ Asked("summarise", {}).seen = {}
        /\ Asked("summarise", {}).pc = "lookup"
    BY AskedType DEF Asked, Resting, Kind
  <2>2. PICK m \in messages, per \in Intervals :
          LET t == [of |-> m, per |-> per]
              due == {k \in Saver : Due(k, t)} IN
          /\ task' = t
          /\ served' = [k \in Saver |-> IF k \in due THEN served[k] \union {m} ELSE served[k]]
          /\ gap' = (gap \/ \E k \in due : \E n \in messages \ served[k] : n.seq = m.seq - per[k])
          /\ proc' = [p \in Process |-> IF p \in due THEN Asked("summarise", {}) ELSE proc[p]]
    BY <1>1 DEF StartTask
  <2> DEFINE due == {k \in Saver : Due(k, [of |-> m, per |-> per])}
  <2>3. /\ task' = [of |-> m, per |-> per] /\ gap' \in BOOLEAN
        /\ served' = [k \in Saver |-> IF k \in due THEN served[k] \union {m} ELSE served[k]]
        /\ proc' = [p \in Process |-> IF p \in due THEN Asked("summarise", {}) ELSE proc[p]]
    BY <2>2
  <2> HIDE DEF due
  <2>4. m \in Message /\ task' \in Task
    BY <2>3, SummariesAssumption DEF Task, TypeOK
  <2>5. served' \in [Saver -> SUBSET Message]
    BY <2>3, <2>4
  <2>6. proc' \in [Process -> Local] /\ \A q \in Process : proc'[q] = proc[q] \/ proc'[q] = Asked("summarise", {})
    BY <2>1, <2>3 DEF TypeOK
  <2>7. QED
    BY <1>1, <2>1, <2>3, <2>4, <2>5, <2>6 DEF StartTask, TypeOK, Numbered, Task
<1>2. CASE SweepLease
  <2>1. /\ Asked("summarise", {}) \in Local /\ Asked("summarise", {}).seen = {}
        /\ Asked("summarise", {}).pc = "lookup" /\ NoSummary \in Summary
    BY AskedType DEF Asked, Resting, Kind, NoSummary, Summary
  <2>2. \A j \in Straggler : KindOf[j] \in Saver /\ KindOf[j] \in Process /\ KindOf[j] \in Writer
    BY SummariesAssumption
  <2>3. \A q \in Process : \/ proc'[q] = Asked("summarise", {})
                          \/ \E o \in Process : proc'[q] = proc[o]
    BY <1>2, <2>2 DEF SweepLease
  <2>4. proc' \in [Process -> Local]
    <3>1. \A q \in Process : proc'[q] \in Local
      BY <2>1, <2>3 DEF TypeOK
    <3>2. QED
      BY <1>2, <3>1 DEF SweepLease
  <2>5. draft' \in [Writer -> Summary]
    <3>1. \A w \in Writer : (IF w \in Straggler THEN draft[KindOf[w]] ELSE NoSummary) \in Summary
      BY <2>1, <2>2
    <3>2. QED
      BY <1>2, <3>1 DEF SweepLease
  <2>6. sweeps' \in 0..MaxSweeps /\ swept' \in Task
    BY <1>2, SummariesAssumption DEF SweepLease
  <2>7. QED
    BY <1>2, <2>1, <2>3, <2>4, <2>5, <2>6 DEF SweepLease, TypeOK, Numbered
<1>3. ASSUME NEW k \in Writer, Check(k) PROVE TypeInv'
  <2>1. k \in Process /\ proc[k] \in Local /\ Copy(k) \in Row \union {NoRow}
    BY EntryType DEF Copy
  <2>2. CASE Finish(k) /\ UNCHANGED <<draft, outdated, gap>>
    <3>1. Ends(k)
      BY <2>1, <2>2, Moves
    <3>2. QED
      BY <1>3, <2>2, <3>1 DEF Check, TypeOK, Numbered
  <2>3. CASE ~AlreadyCovered(k)
    <3>1. Latest(k) \in Summary
      BY <2>1, WriterKinds DEF Latest, Row, NoSummary, Summary
    <3>2. LastMessages(k) \in SUBSET messages /\ LastMessages(k) # {}
      BY <2>3 DEF AlreadyCovered, LastMessages, Window
    <3>3. LastOf(LastMessages(k)) \in Nat /\ {m.id : m \in LastMessages(k)} \subseteq Number
      BY <3>2, LastOfType DEF TypeOK, Message, Number
    <3>4. [upTo |-> LastOf(LastMessages(k)),
           covers |-> Latest(k).covers \union {m.id : m \in LastMessages(k)}] \in Summary
      BY <3>1, <3>3 DEF Summary
    <3>5. /\ draft' \in [Writer -> Summary] /\ outdated' \in BOOLEAN /\ gap' \in BOOLEAN
          /\ Goto(k, "llm")
      BY <1>3, <2>3, <3>4 DEF Check
    <3>6. QED
      BY <1>3, <2>1, <3>5, Moves DEF Check, TypeOK, Numbered
  <2>4. QED
    BY <1>3, <2>2, <2>3 DEF Check
<1>4. ASSUME NEW k \in Writer, Summarise(k) PROVE TypeInv'
  <2>1. /\ Asked("save", {}) \in Local /\ Asked("save", {}).seen = {} /\ Asked("save", {}).pc = "lookup"
        /\ NoSummary \in Summary
    BY AskedType DEF Asked, Resting, Kind, NoSummary, Summary
  <2>2. CASE proc' = [proc EXCEPT ![k] = Asked("save", {})] /\ UNCHANGED <<draft, gap>>
    BY <1>4, <2>1, <2>2 DEF Summarise, TypeOK, Numbered
  <2>3. CASE Finish(k) /\ draft' = [draft EXCEPT ![k] = NoSummary] /\ gap' = (gap \/ k \in Saver)
    <3>1. Ends(k)
      BY <2>3, Moves
    <3>2. gap' \in BOOLEAN
      BY <2>3
    <3>3. QED
      BY <1>4, <2>1, <2>3, <3>1, <3>2 DEF Summarise, TypeOK, Numbered
  <2>4. QED
    BY <1>4, <2>2, <2>3 DEF Summarise
<1>5. ASSUME NEW k \in Writer, Save(k) PROVE TypeInv'
  <2>1. k \in Process /\ Copy(k) \in Row \union {NoRow} /\ NoSummary \in Summary
    BY EntryType DEF Copy, NoSummary, Summary
  <2>2. draft' \in [Writer -> Summary] /\ outdated' \in BOOLEAN /\ gap' \in BOOLEAN
    BY <1>5, <2>1 DEF Save
  <2>3. row' \in Row \union {NoRow}
    <3>1. CASE UNCHANGED row \/ row' = NoRow
      BY <3>1 DEF TypeOK
    <3>2. CASE ~(UNCHANGED row \/ row' = NoRow)
      <4>1. /\ Copy(k) \in Row /\ row \in Row
            /\ row' = [row EXCEPT !.summaries = [Copy(k).summaries EXCEPT ![Kd(k)] = draft[k]]]
        BY <1>5, <2>1, <3>2 DEF Save, TypeOK
      <4>2. [Copy(k).summaries EXCEPT ![Kd(k)] = draft[k]] \in [Saver -> Summary]
        BY <4>1 DEF Row
      <4>3. QED
        BY <4>1, <4>2, RowUpdates
    <3>3. QED
      BY <3>1, <3>2
  <2>4. MovesTo(k, "invalidate", proc[k].snap) \/ Ends(k)
    BY <1>5, <2>1, EntryType, Moves DEF Save
  <2>5. QED
    BY <1>5, <2>2, <2>3, <2>4 DEF Save, TypeOK, Numbered
<1>6. QED
  BY <1>1, <1>3, <1>4, <1>5, <1>2
-----------------------------------------------------------------------------
(* What the steps do to the row. *)

\* It stays the row of the same session, with its summaries.
SameSession ==
  /\ row \in Row /\ row' \in Row
  /\ row'.id = row.id /\ row'.summaries = row.summaries

\* A request leaves the row alone, creates it, changes its configuration, or marks it
\* and queues its deletion; whoever changes it has the cache still to tell.
RowKept(p)    == UNCHANGED <<row, deletions>>
RowCreated(p) == /\ row = NoRow /\ row' \in Row /\ row'.active
                 /\ row'.summaries = [k \in Saver |-> NoSummary]
                 /\ proc'[p].pc = "refreshNew" /\ UNCHANGED deletions
RowConfigured(p) == /\ SameSession /\ row'.active = row.active
                    /\ proc'[p].pc \in {"refreshNew", "refreshMerged"} /\ UNCHANGED deletions
RowMarked(p)  == /\ SameSession /\ ~row'.active
                 /\ proc'[p].pc = "invalidate" /\ deletions' = deletions + 1

LEMMA RequestRows ==
  ASSUME TypeInv, NEW p \in Request, RequestStep(p) \/ NewRequest(p)
  PROVE  /\ RowKept(p) \/ RowCreated(p) \/ RowConfigured(p) \/ RowMarked(p)
         /\ \A q \in Process \ {p} : proc'[q] = proc[q]
         /\ UNCHANGED failed
<1> DEFINE Goal == /\ RowKept(p) \/ RowCreated(p) \/ RowConfigured(p) \/ RowMarked(p)
                   /\ \A q \in Process \ {p} : proc'[q] = proc[q]
                   /\ UNCHANGED failed
<1> USE ProcessKinds DEF TypeInv, SumTypeOK, HoldsCopy, tables, Step, MovesTo, Ends, RowKept
<1>1. p \in Process /\ TypeOK /\ proc[p].snap \in Row \union {NoRow} /\ proc[p].adds \subseteq Key
  BY EntryType
<1>2. CASE Lookup(p) \/ ReadRow(p) \/ Fill(p) \/ Invalidate(p)
  BY <1>1, <1>2 DEF Lookup, ReadRow, Fill, Invalidate, Goto, GotoWith, Finish, TypeOK
<1>3. CASE RejectInactive(p) \/ Refresh(p) \/ RefreshNew(p) \/ RefreshMerged(p) \/ Store(p)
  BY <1>1, <1>3 DEF RejectInactive, Refresh, RefreshNew, RefreshMerged, RefreshChanged, Store,
                    Goto, GotoWith, Finish, Move, TypeOK
<1>4. CASE AcquireLock(p) \/ ReadLastSeq(p) \/ InsertMessages(p)
  BY <1>1, <1>4 DEF AcquireLock, ReadLastSeq, InsertMessages, Goto, Finish, TypeOK
<1>5. CASE NewRequest(p)
  <2>1. PICK kind \in Kind, adds \in SUBSET Key : Begin(p, kind, adds)
    BY <1>5 DEF NewRequest, Kind
  <2>2. QED
    BY <1>1, <2>1 DEF Begin, TypeOK
<1>6. CASE CreateRow(p)
  <2>1. Incoming(p) \in SUBSET Key
    BY <1>1 DEF Incoming
  <2>2. CASE row = NoRow
    <3>1. NoSummary \in Summary /\ nextId \in Number
      BY DEF NoSummary, Summary, TypeOK, Number
    <3>2. [id |-> nextId, active |-> TRUE, config |-> Incoming(p),
           summaries |-> [k \in Saver |-> NoSummary]] \in Row
      BY <2>1, <3>1 DEF Row
    <3>3. /\ row' = [id |-> nextId, active |-> TRUE, config |-> Incoming(p),
                     summaries |-> [k \in Saver |-> NoSummary]]
          /\ GotoWith(p, "refreshNew", row')
      BY <1>6, <2>2 DEF CreateRow
    <3>4. row' \in Row /\ row'.active /\ row'.summaries = [k \in Saver |-> NoSummary]
      BY <3>2, <3>3
    <3>5. RowCreated(p) /\ \A q \in Process \ {p} : proc'[q] = proc[q]
      BY <1>1, <1>6, <2>2, <3>3, <3>4, Moves DEF CreateRow, RowCreated
    <3>6. QED
      BY <1>6, <3>5 DEF CreateRow
  <2>3. CASE row # NoRow
    BY <1>1, <1>6, <2>3 DEF CreateRow, Finish, TypeOK
  <2>4. QED
    BY <2>2, <2>3
<1>7. ASSUME NEW adds \in SUBSET Key, NEW next \in {"refreshNew", "refreshMerged"},
             proc[p].snap \in Row, WriteConfig(p, adds, next), UNCHANGED <<failed, deletions>>
      PROVE  Goal
  <2>1. CASE ~SameRow(p) /\ Ends(p) /\ UNCHANGED row
    BY <1>7, <2>1
  <2>2. CASE /\ row \in Row /\ MovesTo(p, next, proc[p].snap)
             /\ row' \in Row /\ row' = [row EXCEPT !.config = proc[p].snap.config \union adds]
    <3>1. row'.id = row.id /\ row'.summaries = row.summaries /\ row'.active = row.active
      BY <2>2 DEF Row
    <3>2. QED
      BY <1>7, <2>2, <3>1 DEF RowConfigured, SameSession
  <2>3. QED
    BY <1>1, <1>7, <2>1, <2>2, WriteConfigEffect
<1>8. CASE UseExisting(p)
  <2>1. proc[p].snap \in Row /\ Incoming(p) \in SUBSET Key
    BY <1>1, <1>8 DEF UseExisting, Incoming
  <2>2. CASE Goto(p, "refresh") /\ UNCHANGED row
    BY <1>1, <1>8, <2>2, Moves DEF UseExisting, TypeOK
  <2>3. CASE WriteConfig(p, Incoming(p), "refreshNew")
    BY <1>7, <1>8, <2>1, <2>3 DEF UseExisting
  <2>4. QED
    BY <1>8, <2>2, <2>3 DEF UseExisting
<1>9. CASE Merge(p)
  <2>1. CASE proc[p].adds \subseteq proc[p].snap.config
    BY <1>1, <1>9, <2>1, Moves DEF Merge, TypeOK
  <2>2. CASE ~(proc[p].adds \subseteq proc[p].snap.config)
    <3>1. proc[p].snap \in Row
      BY <1>1, <1>9 DEF Merge, At
    <3>2. WriteConfig(p, proc[p].adds, "refreshMerged") /\ UNCHANGED <<failed, deletions>>
      BY <1>9, <2>2 DEF Merge
    <3>3. QED
      BY <1>1, <1>7, <3>1, <3>2
  <2>3. QED
    BY <2>1, <2>2
<1>10. CASE MarkDeleted(p)
  <2>1. CASE row' = [row EXCEPT !.active = FALSE] /\ SameRow(p) /\ Goto(p, "invalidate")
             /\ deletions' = deletions + 1
    <3>1. row \in Row /\ row' \in Row
      BY <1>1, <2>1, RowUpdates DEF SameRow, TypeOK
    <3>2. row'.id = row.id /\ row'.summaries = row.summaries /\ ~row'.active
      BY <2>1, <3>1 DEF Row
    <3>3. MovesTo(p, "invalidate", proc[p].snap)
      BY <1>1, <2>1, Moves
    <3>4. QED
      BY <1>10, <2>1, <3>1, <3>2, <3>3 DEF MarkDeleted, RowMarked, SameSession
  <2>2. CASE Finish(p) /\ UNCHANGED <<row, deletions>>
    BY <1>1, <1>10, <2>2, Moves DEF MarkDeleted, TypeOK
  <2>3. QED
    BY <1>10, <2>1, <2>2 DEF MarkDeleted
<1>11. QED
  BY <1>2, <1>3, <1>4, <1>5, <1>6, <1>8, <1>9, <1>10 DEF RequestStep, Fetch

\* A saver changes nothing but the summaries of a row that exists.
LEMMA SaverRows ==
  ASSUME TypeInv, NEW k \in Writer, SaverStep(k)
  PROVE  /\ \/ UNCHANGED row
            \/ /\ Save(k) /\ row \in Row /\ row' \in Row /\ Copy(k) \in Row
               /\ row'.id = row.id /\ row'.active = row.active
               /\ row'.summaries = [Copy(k).summaries EXCEPT ![Kd(k)] = draft[k]]
               /\ proc'[k].pc = "invalidate"
         /\ \A q \in Process \ {k} : proc'[q] = proc[q]
         /\ UNCHANGED <<messages, nextMsg, lock, deletions, failed, shared>>
<1> USE ProcessKinds DEF TypeInv, SumTypeOK, tables, Step, MovesTo, Ends
<1>1. k \in Process /\ TypeOK /\ Copy(k) \in Row \union {NoRow}
  BY EntryType DEF Copy
<1>2. CASE (Fetch(k) \/ Invalidate(k)) /\ UNCHANGED <<shared, sumVars>>
  BY <1>1, <1>2 DEF Fetch, Lookup, ReadRow, Fill, Invalidate, Goto, GotoWith, Finish, TypeOK
<1>3. CASE Check(k) \/ Summarise(k)
  BY <1>1, <1>3 DEF Check, Summarise, Goto, Finish, TypeOK
<1>4. CASE Save(k)
  <2>1. \A q \in Process \ {k} : proc'[q] = proc[q]
    BY <1>1, <1>4 DEF Save, Goto, Finish, TypeOK
  <2>2. ASSUME ~UNCHANGED row
        PROVE  /\ row \in Row /\ Copy(k) \in Row /\ Goto(k, "invalidate")
               /\ row' = [row EXCEPT !.summaries = [Copy(k).summaries EXCEPT ![Kd(k)] = draft[k]]]
    BY <1>1, <1>4, <2>2 DEF Save, TypeOK
  <2>3. ASSUME ~UNCHANGED row
        PROVE  /\ row' \in Row /\ row'.id = row.id /\ row'.active = row.active
               /\ row'.summaries = [Copy(k).summaries EXCEPT ![Kd(k)] = draft[k]]
    <3>1. Copy(k).summaries \in [Saver -> Summary] /\ draft[k] \in Summary
      BY <2>2, <2>3 DEF Row
    <3>2. [Copy(k).summaries EXCEPT ![Kd(k)] = draft[k]] \in [Saver -> Summary]
      BY <3>1
    <3>3. QED
      BY <2>2, <2>3, <3>2, RowUpdates DEF Row
  <2>4. ASSUME ~UNCHANGED row PROVE proc'[k].pc = "invalidate"
    BY <1>1, <2>2, <2>4, Moves
  <2>5. QED
    BY <1>4, <2>1, <2>2, <2>3, <2>4 DEF Save
<1>5. QED
  BY <1>2, <1>3, <1>4 DEF SaverStep
-----------------------------------------------------------------------------
(* Deletion. *)

\* MarkedIsQueued made inductive.  The row of the queue that the worker is busy with
\* does not count when it has found no session: it was queued for an earlier one.
DeletionInv ==
  /\ Erasing => deletions > 0
  /\ row # NoRow /\ ~row.active /\ ~failed =>
       /\ deletions > 0
       /\ proc[Worker].pc = "use" /\ proc[Worker].snap = NoRow => deletions > 1

LEMMA RequestDeletions ==
  ASSUME TypeInv, DeletionInv, NEW p \in Request, RequestStep(p) \/ NewRequest(p)
  PROVE  DeletionInv'
<1>1. p \in Process /\ p # Worker /\ Worker \in Process /\ deletions \in Nat
  BY ProcessKinds DEF TypeInv, SumTypeOK, TypeOK
<1>2. proc'[Worker] = proc[Worker] /\ UNCHANGED failed
  BY <1>1, RequestRows
<1>3. CASE RowKept(p)
  BY <1>2, <1>3 DEF RowKept, DeletionInv, Erasing
<1>4. CASE RowCreated(p)
  BY <1>2, <1>4 DEF RowCreated, DeletionInv, Erasing
<1>5. CASE RowConfigured(p)
  BY <1>2, <1>5, NoRowAssumption DEF RowConfigured, SameSession, DeletionInv, Erasing
<1>6. CASE RowMarked(p)
  <2>1. deletions' > 0 /\ (Erasing => deletions' > 1)
    BY <1>1, <1>6 DEF RowMarked, DeletionInv
  <2>2. QED
    BY <1>2, <2>1 DEF DeletionInv, Erasing
<1>7. QED
  BY <1>3, <1>4, <1>5, <1>6, RequestRows

LEMMA WorkerDeletions ==
  ASSUME TypeInv, DeletionInv, WorkerStep
  PROVE  DeletionInv'
<1> USE ProcessKinds DEF TypeInv, SumTypeOK, tables, Step, MovesTo, Ends, DeletionInv, Erasing
<1>1. TypeOK /\ proc[Worker].snap \in Row \union {NoRow} /\ deletions \in Nat
  BY EntryType DEF TypeOK
<1>2. CASE TakeDeletion
  <2>1. proc'[Worker].pc = "lookup"
    BY <1>2 DEF TakeDeletion, Asked, Resting, TypeOK
  <2>2. QED
    BY <1>2, <2>1 DEF TakeDeletion
<1>3. CASE Lookup(Worker)
  BY <1>1, <1>3, EntryType, Moves DEF Lookup, At
<1>4. CASE ReadRow(Worker)
  BY <1>1, <1>4, Moves DEF ReadRow, At, TypeOK
<1>5. CASE Fill(Worker)
  <2>1. MovesTo(Worker, "use", proc[Worker].snap)
    BY <1>1, <1>5, Moves DEF Fill
  <2>2. QED
    BY <1>1, <1>5, <2>1 DEF Fill, At, HoldsCopy
<1>6. CASE Invalidate(Worker)
  <2>1. Ends(Worker)
    BY <1>1, <1>6, Moves DEF Invalidate
  <2>2. QED
    BY <1>6, <2>1 DEF Invalidate
<1>7. CASE EraseMessages
  <2>1. CASE proc[Worker].snap = NoRow
    <3>1. Ends(Worker) /\ deletions' = deletions - 1
      BY <1>1, <1>7, <2>1, Moves DEF EraseMessages
    <3>2. QED
      BY <1>1, <1>7, <2>1, <3>1 DEF EraseMessages, At
  <2>2. CASE proc[Worker].snap # NoRow
    <3>1. proc'[Worker].pc = "drop" /\ UNCHANGED deletions
      BY <1>7, <2>2 DEF EraseMessages, TypeOK, Local
    <3>2. QED
      BY <1>1, <1>7, <2>2, <3>1 DEF EraseMessages, At
  <2>3. QED
    BY <2>1, <2>2
<1>8. CASE DropSession
  <2>1. proc'[Worker].pc \in {"idle", "invalidate"}
    BY <1>1, <1>8, Moves DEF DropSession
  <2>2. row' = NoRow \/ failed'
    BY <1>8 DEF DropSession
  <2>3. QED
    BY <2>1, <2>2
<1>9. QED
  BY <1>2, <1>3, <1>4, <1>5, <1>6, <1>7, <1>8 DEF WorkerStep, Fetch

LEMMA NextDeletions == TypeInv /\ DeletionInv /\ [Next]_allVars => TypeInv' /\ DeletionInv'
<1> SUFFICES ASSUME TypeInv, DeletionInv, [Next]_allVars PROVE TypeInv' /\ DeletionInv'
  OBVIOUS
<1>1. ASSUME NEW p \in Request, NewRequest(p) \/ RequestStep(p), UNCHANGED <<shared, sumVars>>
      PROVE  TypeInv' /\ DeletionInv'
  BY <1>1, RequestType, RequestDeletions
<1>2. CASE WorkerStep /\ UNCHANGED <<shared, sumVars>>
  BY <1>2, WorkerType, WorkerDeletions DEF DeletionInv
<1>3. ASSUME NEW c \in Cache, Expire(c), UNCHANGED <<shared, sumVars>>
      PROVE  TypeInv' /\ DeletionInv'
  <2>1. TypeInv'
    BY <1>3 DEF Expire, Excuse, TypeInv, SumTypeOK, TypeOK, Numbered, HoldsCopy, sumVars, tables
  <2>2. QED
    BY <1>3, <2>1 DEF Expire, DeletionInv, Erasing, tables
<1>4. ASSUME NEW k \in Writer, SaverStep(k) PROVE TypeInv' /\ DeletionInv'
  <2>1. TypeInv'
    BY <1>4, ProcessKinds, FetchType, SummaryType DEF SaverStep
  <2>2. proc'[Worker] = proc[Worker] /\ UNCHANGED <<deletions, failed>>
    BY <1>4, ProcessKinds, SaverRows
  <2>3. UNCHANGED row \/ (row \in Row /\ row'.active = row.active)
    BY <1>4, SaverRows
  <2>4. QED
    BY <2>1, <2>2, <2>3, NoRowAssumption DEF DeletionInv, Erasing
<1>5. CASE StartTask \/ SweepLease
  <2>1. TypeInv'
    BY <1>5, SummaryType
  <2>2. proc'[Worker] = proc[Worker]
    BY <1>5, ProcessKinds DEF StartTask, SweepLease
  <2>3. QED
    BY <1>5, <2>1, <2>2 DEF StartTask, SweepLease, tables, DeletionInv, Erasing
<1>6. CASE UNCHANGED allVars
  BY <1>6 DEF allVars, vars, tables, sumVars, TypeInv, SumTypeOK, TypeOK, Numbered, HoldsCopy,
              DeletionInv, Erasing
<1>7. QED
  BY <1>1, <1>2, <1>3, <1>4, <1>5, <1>6 DEF Next, SessionNext

LEMMA InitDeletions == SumInit => TypeInv /\ DeletionInv
<1> SUFFICES ASSUME SumInit PROVE TypeInv /\ DeletionInv
  OBVIOUS
<1>1. NoSummary \in Summary
  BY DEF NoSummary, Summary
<1>2. Resting.pc = "idle" /\ Resting.seen = {}
  BY DEF Resting
<1>3. SumTypeOK
  <2>1. /\ draft \in [Writer -> Summary] /\ task \in Task /\ swept \in Task
        /\ served \in [Saver -> SUBSET Message] /\ sweeps \in 0..MaxSweeps
    BY <1>1, SummariesAssumption DEF SumInit, AnyTask, Task
  <2>2. proc \in [Process -> Local] /\ ops \in 0..MaxOps /\ nextId \in Number /\ nextMsg \in Number
    BY RestingType, SessionsAssumption DEF SumInit, Init, Number
  <2>3. QED
    BY <2>1, <2>2 DEF SumInit, Init, SumTypeOK, TypeOK
<1>4. Numbered /\ HoldsCopy /\ DeletionInv
  BY <1>2, ProcessKinds DEF SumInit, Init, Numbered, HoldsCopy, DeletionInv, Erasing
<1>5. QED
  BY <1>3, <1>4 DEF TypeInv

LEMMA Deletions == Spec => [](TypeInv /\ DeletionInv)
BY InitDeletions, NextDeletions, PTL DEF Spec

\* Every reachable state of the session tables, the cache, the requests and the
\* summaries is well typed; primary keys and numbers never run ahead of their sequence.
THEOREM SessionTypes == Spec => []SumTypeOK
<1>1. TypeInv => SumTypeOK
  BY DEF TypeInv
<1>2. QED
  BY <1>1, Deletions, PTL

\* The router's mark is never without its consequence: a session marked for deletion
\* has a deletion waiting or being worked on, unless the worker has raised or deleted
\* by the copy of another session; however many requests re-create the name meanwhile.
THEOREM MarksAreQueued == Spec => []MarkedIsQueued
<1>1. DeletionInv => MarkedIsQueued
  BY DEF DeletionInv, MarkedIsQueued
<1>2. QED
  BY <1>1, Deletions, PTL
-----------------------------------------------------------------------------
(* The mark. *)

\* Once is_active is FALSE no step makes it TRUE again, although requests that read
\* the session when it was active go on to merge their configuration into it and
\* savers write back the summaries of their copy.
THEOREM MarksAreFinal == Spec => MarkIsFinal
<1>1. ASSUME TypeInv, [Next]_allVars, row # NoRow, ~row.active
      PROVE  row' = NoRow \/ row'.id # row.id \/ ~row'.active
  <2>1. ASSUME NEW p \in Request, NewRequest(p) \/ RequestStep(p)
        PROVE  row' = row \/ ~row'.active
    <3>1. RowKept(p) \/ RowCreated(p) \/ RowConfigured(p) \/ RowMarked(p)
      BY <1>1, <2>1, RequestRows
    <3>2. QED
      BY <1>1, <3>1 DEF RowKept, RowCreated, RowConfigured, RowMarked
  <2>2. CASE WorkerStep
    BY <1>1, <2>2 DEF WorkerStep, TakeDeletion, Fetch, Lookup, ReadRow, Fill, EraseMessages,
                      DropSession, Invalidate, tables
  <2>3. ASSUME NEW k \in Writer, SaverStep(k) PROVE row' = row \/ row'.active = row.active
    BY <1>1, <2>3, SaverRows
  <2>4. QED
    BY <1>1, <2>1, <2>2, <2>3 DEF Next, SessionNext, Expire, StartTask, SweepLease, allVars, vars, tables
<1>2. TypeInv /\ [Next]_allVars
        => [row # NoRow /\ ~row.active => row' = NoRow \/ row'.id # row.id \/ ~row'.active]_allVars
  BY <1>1
<1>3. QED
  BY <1>2, Deletions, PTL DEF Spec, MarkIsFinal
-----------------------------------------------------------------------------
(* Numbers. *)

Numbering == {"number", "insert"}

\* NumbersAreFree made inductive: who numbers messages holds the lock, and between
\* the read and the insertion the messages can only become fewer.
NumberInv ==
  \A p \in Request : /\ proc[p].pc \in Numbering => lock = p
                     /\ proc[p].pc = "insert" => messages \subseteq proc[p].seen

LEMMA NumbersFollow == TypeInv /\ NumberInv => NumbersAreFree
<1> SUFFICES ASSUME TypeInv, NumberInv, NEW p \in Request, At(p, "insert") PROVE Free(p)
  BY DEF NumbersAreFree
<1>1. messages \subseteq proc[p].seen /\ messages \subseteq Message
  BY DEF NumberInv, At, TypeInv, SumTypeOK, TypeOK
<1>2. /\ LastSeq(p) \in Nat
      /\ \A m \in proc[p].seen : m.seq <= LastSeq(p)
  BY ProcessKinds, LastSeqIsLast
<1>3. QED
  BY <1>1, <1>2, SessionsAssumption DEF Free, Message, Number

\* Only the three steps of create_messages touch the lock or add messages.
Posting(p) == AcquireLock(p) \/ ReadLastSeq(p) \/ InsertMessages(p)

LEMMA RequestNumbers ==
  ASSUME TypeInv, NEW p \in Request, RequestStep(p) \/ NewRequest(p), ~Posting(p)
  PROVE  UNCHANGED <<messages, nextMsg, lock>> /\ proc'[p].pc \notin Numbering
<1> USE ProcessKinds
    DEF TypeInv, SumTypeOK, HoldsCopy, tables, Step, MovesTo, Ends, Numbering
<1>1. p \in Process /\ TypeOK /\ proc[p].snap \in Row \union {NoRow} /\ proc[p].adds \subseteq Key
  BY EntryType
<1>2. CASE Lookup(p) \/ ReadRow(p)
  BY <1>1, <1>2, EntryType, Moves DEF Lookup, ReadRow, TypeOK
<1>3. CASE Fill(p) \/ Invalidate(p) \/ RejectInactive(p)
  <2>1. MovesTo(p, "use", proc[p].snap) \/ Ends(p)
    BY <1>1, <1>3, Moves DEF Fill, Invalidate, RejectInactive
  <2>2. QED
    BY <1>3, <2>1 DEF Fill, Invalidate, RejectInactive
<1>4. CASE Refresh(p)
  BY <1>1, <1>4, Moves, ContinueType DEF Refresh, TypeOK
<1>5. CASE RefreshNew(p) \/ RefreshMerged(p)
  BY <1>1, <1>5, Moves DEF RefreshNew, RefreshMerged, RefreshChanged, TypeOK
<1>6. CASE Store(p)
  <2>1. MovesTo(p, Continue(p), proc[p].snap) \/ (Ends(p) /\ Continue(p) = "idle")
    BY <1>1, <1>6, StoreMoves
  <2>2. QED
    BY <1>6, <2>1, ContinueType DEF Store
<1>7. CASE NewRequest(p)
  <2>1. PICK kind \in Kind, adds \in SUBSET Key : Begin(p, kind, adds)
    BY <1>7 DEF NewRequest, Kind
  <2>2. proc'[p].pc = "lookup"
    BY <1>1, <2>1 DEF Begin, Asked, Resting, TypeOK
  <2>3. QED
    BY <2>1, <2>2 DEF Begin
<1>8. CASE CreateRow(p)
  <2>1. UNCHANGED <<messages, nextMsg, lock>>
    BY <1>8 DEF CreateRow
  <2>2. proc'[p].pc \in {"refreshNew", "idle", "lookup"}
    BY <1>1, <1>8, RestingType DEF CreateRow, GotoWith, Finish, Resting, TypeOK, Local
  <2>3. QED
    BY <2>1, <2>2
<1>9. CASE UseExisting(p) \/ Merge(p)
  <2>1. UNCHANGED <<messages, nextMsg, lock>>
    BY <1>9 DEF UseExisting, Merge
  <2>2. proc'[p].pc \in {"refreshNew", "refreshMerged", "idle", "refresh"}
    BY <1>1, <1>9 DEF UseExisting, Merge, WriteConfig, Goto, Finish, Resting, TypeOK, Local
  <2>3. QED
    BY <2>1, <2>2
<1>10. CASE MarkDeleted(p)
  <2>1. MovesTo(p, "invalidate", proc[p].snap) \/ Ends(p)
    BY <1>1, <1>10, Moves DEF MarkDeleted
  <2>2. QED
    BY <1>10, <2>1 DEF MarkDeleted
<1>11. QED
  BY <1>2, <1>3, <1>4, <1>5, <1>6, <1>7, <1>8, <1>9, <1>10 DEF RequestStep, Fetch, Posting

LEMMA NextNumbers == TypeInv /\ NumberInv /\ [Next]_allVars => NumberInv'
<1> SUFFICES ASSUME TypeInv, NumberInv, [Next]_allVars PROVE NumberInv'
  OBVIOUS
<1> USE ProcessKinds, SessionsAssumption
<1>1. TypeOK
  BY DEF TypeInv, SumTypeOK
<1>2. ASSUME NEW p \in Request, NewRequest(p) \/ RequestStep(p) PROVE NumberInv'
  <2>1. p \in Process /\ p # Nobody /\ \A q \in Request : q # p => proc'[q] = proc[q]
    BY <1>2, RequestRows
  <2>2. CASE ~Posting(p)
    BY <1>2, <2>1, <2>2, RequestNumbers DEF NumberInv, Numbering
  <2>3. CASE AcquireLock(p)
    <3>1. CASE lock = Nobody /\ lock' = p /\ Goto(p, "number")
      <4>1. proc'[p].pc = "number" /\ UNCHANGED messages
        BY <1>1, <2>1, <2>3, <3>1, Moves DEF AcquireLock, MovesTo, Step, tables
      <4>2. \A q \in Request : q # p => proc'[q].pc \notin Numbering
        BY <2>1, <3>1 DEF NumberInv
      <4>3. QED
        BY <3>1, <4>1, <4>2 DEF NumberInv, Numbering
    <3>2. CASE UNCHANGED lock /\ Finish(p)
      <4>1. Ends(p) /\ UNCHANGED messages
        BY <1>1, <2>1, <2>3, <3>2, Finishes DEF AcquireLock, tables
      <4>2. QED
        BY <2>1, <3>2, <4>1 DEF NumberInv, Numbering, Ends
    <3>3. QED
      BY <2>3, <3>1, <3>2 DEF AcquireLock
  <2>4. CASE ReadLastSeq(p)
    <3>1. proc'[p].pc = "insert" /\ proc'[p].seen = messages /\ UNCHANGED <<messages, lock>>
      BY <1>1, <2>1, <2>4 DEF ReadLastSeq, tables, TypeOK, Local
    <3>2. lock = p
      BY <2>4 DEF ReadLastSeq, At, NumberInv, Numbering
    <3>3. QED
      BY <2>1, <3>1, <3>2 DEF NumberInv, Numbering
  <2>5. CASE InsertMessages(p)
    <3>1. lock = p /\ Ends(p)
      BY <1>1, <2>1, <2>5, Finishes DEF InsertMessages, At, NumberInv, Numbering
    <3>2. \A q \in Request : q # p => proc'[q].pc \notin Numbering
      BY <2>1, <3>1 DEF NumberInv
    <3>3. QED
      BY <3>1, <3>2 DEF NumberInv, Numbering, Ends
  <2>6. QED
    BY <2>2, <2>3, <2>4, <2>5 DEF Posting
<1>3. CASE WorkerStep
  <2>1. UNCHANGED lock /\ messages' \subseteq messages
    BY <1>3 DEF WorkerStep, TakeDeletion, Fetch, Lookup, ReadRow, Fill, EraseMessages, DropSession,
                Invalidate, tables
  <2>2. \A q \in Request : proc'[q] = proc[q]
    BY <1>1, <1>3 DEF WorkerStep, TakeDeletion, Fetch, Lookup, ReadRow, Fill, EraseMessages,
                DropSession, Invalidate, Goto, GotoWith, Finish, TypeOK
  <2>3. QED
    BY <2>1, <2>2 DEF NumberInv
<1>4. ASSUME NEW k \in Writer, SaverStep(k) PROVE NumberInv'
  <2>1. UNCHANGED <<lock, messages>> /\ \A q \in Process \ {k} : proc'[q] = proc[q]
    BY <1>4, SaverRows
  <2>2. \A q \in Request : proc'[q] = proc[q]
    BY <1>4, <2>1
  <2>3. QED
    BY <2>1, <2>2 DEF NumberInv
<1>5. CASE StartTask \/ SweepLease
  <2>1. \A q \in Request : proc'[q] = proc[q]
    BY <1>5 DEF StartTask, SweepLease
  <2>2. QED
    BY <1>5, <2>1 DEF StartTask, SweepLease, tables, NumberInv
<1>6. ASSUME NEW c \in Cache, Expire(c) PROVE NumberInv'
  BY <1>6 DEF Expire, tables, NumberInv
<1>7. CASE UNCHANGED allVars
  BY <1>7 DEF allVars, vars, tables, NumberInv
<1>8. QED
  BY <1>2, <1>3, <1>4, <1>5, <1>6, <1>7 DEF Next, SessionNext

\* No create_messages call ever runs into the unique constraint of (session, number),
\* whatever other calls, deletions and new sessions of the name come between.
THEOREM NumbersStayFree == Spec => []NumbersAreFree
<1>1. SumInit => NumberInv
  BY ProcessKinds DEF SumInit, Init, Resting, NumberInv, Numbering
<1>2. QED
  BY <1>1, NextNumbers, NumbersFollow, Deletions, PTL DEF Spec
-----------------------------------------------------------------------------
(* The cache. *)

Owing == {"refreshNew", "store", "refreshMerged", "invalidate"}

\* StaleHasACause made inductive: with Redis nobody uses the memory of the deriver.
CacheInv == StaleHasACause /\ (shared => cache["deriver"] = NoRow)

\* The entry is right, excused, or somebody has it still to change.
Covered == cache["api"] \in {NoRow, row} \/ excused \/ OwesTheCache

LEMMA CoveredSuffices ==
  ASSUME TypeInv, CacheInv, UNCHANGED shared,
         shared => Covered' /\ cache'["deriver"] = NoRow
  PROVE  CacheInv'
BY DEF CacheInv, StaleHasACause, Covered

LEMMA StillCovered ==
  ASSUME TypeInv, CacheInv, shared, UNCHANGED <<row, cache, excused>>,
         \A q \in Process : proc[q].pc \in Owing => proc'[q].pc \in Owing
  PROVE  Covered' /\ cache'["deriver"] = NoRow
BY DEF CacheInv, StaleHasACause, Covered, OwesTheCache, Owing

\* With Redis there is one entry, and Excuse records what it is told.
LEMMA SharedEntry ==
  ASSUME TypeInv, shared, NEW p \in Process
  PROVE  /\ Entry(p) = cache["api"]
         /\ \A copy \in Row \union {NoRow} :
              Enter(p, copy) => cache'["api"] = copy /\ cache'["deriver"] = cache["deriver"]
BY DEF TypeInv, SumTypeOK, TypeOK, Entry, Home, Cache, Enter

\* The steps of the read-through cache and of those who tell it of their change.
LEMMA FetchCovers ==
  ASSUME TypeInv, CacheInv, shared, NEW p \in Process, Fetch(p) \/ Invalidate(p)
  PROVE  Covered' /\ cache'["deriver"] = NoRow
<1> USE DEF Step, MovesTo, Ends, Owing, tables, At
<1>1. TypeOK /\ proc[p].snap \in Row \union {NoRow} /\ Entry(p) \in Row \union {NoRow} /\ shared = TRUE
  BY EntryType DEF TypeInv, SumTypeOK, TypeOK
<1>2. CASE Lookup(p)
  <2>1. proc'[p].pc \in Step /\ \A q \in Process \ {p} : proc'[q] = proc[q]
    BY <1>1, <1>2, Moves DEF Lookup
  <2>2. QED
    BY <1>2, <2>1, StillCovered DEF Lookup
<1>3. CASE ReadRow(p)
  <2>1. \A q \in Process \ {p} : proc'[q] = proc[q]
    BY <1>1, <1>3, Moves DEF ReadRow, TypeOK
  <2>2. QED
    BY <1>3, <2>1, StillCovered DEF ReadRow
<1>4. CASE Fill(p)
  <2>1. MovesTo(p, "use", proc[p].snap) /\ UNCHANGED row
    BY <1>1, <1>4, Moves DEF Fill
  <2>2. CASE UNCHANGED <<cache, excused>>
    BY <1>4, <2>1, <2>2, StillCovered DEF Fill
  <2>3. CASE Enter(p, proc[p].snap) /\ Excuse(proc[p].snap # row)
    <3>1. cache'["api"] = proc[p].snap /\ cache'["deriver"] = cache["deriver"]
      BY <1>1, <2>3, SharedEntry
    <3>2. excused' \/ proc[p].snap = row
      BY <2>3, <1>1 DEF Excuse
    <3>3. QED
      BY <2>1, <3>1, <3>2 DEF Covered, CacheInv
  <2>4. QED
    BY <1>4, <2>2, <2>3 DEF Fill
<1>5. CASE Invalidate(p)
  <2>1. CASE Enter(p, NoRow) /\ Excuse(FALSE)
    BY <2>1, SharedEntry DEF Covered, CacheInv
  <2>2. CASE UNCHANGED cache /\ Excuse(Entry(p) # NoRow)
    <3>1. Entry(p) = cache["api"]
      BY SharedEntry
    <3>2. excused' \/ cache["api"] = NoRow
      BY <1>1, <2>2, <3>1 DEF Excuse
    <3>3. QED
      BY <2>2, <3>2 DEF Covered, CacheInv
  <2>3. QED
    BY <1>5, <2>1, <2>2 DEF Invalidate
<1>6. QED
  BY <1>2, <1>3, <1>4, <1>5 DEF Fetch

\* Whoever changes the row goes on to tell the cache.
LEMMA ChangeCovers ==
  ASSUME TypeInv, CacheInv, shared, UNCHANGED cache,
         NEW p \in Process, proc'[p].pc \in Owing
  PROVE  Covered' /\ cache'["deriver"] = NoRow
BY DEF Covered, OwesTheCache, Owing, CacheInv

LEMMA RequestCovers ==
  ASSUME TypeInv, CacheInv, shared, NEW p \in Request, RequestStep(p) \/ NewRequest(p)
  PROVE  Covered' /\ cache'["deriver"] = NoRow
<1> USE ProcessKinds DEF TypeInv, SumTypeOK, HoldsCopy, tables, Step, MovesTo, Ends, Owing, At
<1>1. /\ p \in Process /\ TypeOK /\ shared = TRUE
      /\ proc[p].snap \in Row \union {NoRow} /\ proc[p].adds \subseteq Key
  BY EntryType DEF TypeOK
<1>2. /\ RowKept(p) \/ RowCreated(p) \/ RowConfigured(p) \/ RowMarked(p)
      /\ \A q \in Process \ {p} : proc'[q] = proc[q]
  BY RequestRows
<1>3. CASE Fetch(p) \/ Invalidate(p)
  BY <1>1, <1>3, FetchCovers
<1>4. CASE RefreshNew(p) \/ RefreshMerged(p)
  <2>1. UNCHANGED <<row, cache>>
    BY <1>4 DEF RefreshNew, RefreshMerged, RefreshChanged
  <2>2. CASE SameRow(p)
    <3>1. proc'[p].pc \in Owing
      BY <1>1, <1>4, <2>2, Moves DEF RefreshNew, RefreshMerged, RefreshChanged, SameRow, TypeOK
    <3>2. QED
      BY <1>1, <2>1, <3>1, ChangeCovers
  <2>3. CASE ~SameRow(p)
    <3>1. excused' \/ cache["api"] = NoRow
      BY <1>1, <1>4, <2>3, SharedEntry DEF RefreshNew, RefreshMerged, RefreshChanged, Excuse
    <3>2. QED
      BY <2>1, <3>1 DEF Covered, CacheInv
  <2>4. QED
    BY <2>2, <2>3
<1>5. CASE Store(p)
  <2>1. CASE Enter(p, proc[p].snap) /\ Excuse(proc[p].snap # row)
    <3>1. cache'["api"] = proc[p].snap /\ cache'["deriver"] = cache["deriver"]
      BY <1>1, <2>1, SharedEntry
    <3>2. (excused' \/ proc[p].snap = row) /\ UNCHANGED row
      BY <1>1, <1>5, <2>1 DEF Store, Excuse
    <3>3. QED
      BY <3>1, <3>2 DEF Covered, CacheInv
  <2>2. CASE UNCHANGED cache /\ Excuse(excused \/ Entry(p) # NoRow)
    <3>1. excused' \/ cache["api"] = NoRow
      BY <1>1, <2>2, SharedEntry DEF Excuse
    <3>2. QED
      BY <2>2, <3>1 DEF Covered, CacheInv
  <2>3. QED
    BY <1>5, <2>1, <2>2 DEF Store
<1>6. CASE \/ RejectInactive(p) \/ Refresh(p) \/ NewRequest(p) \/ CreateRow(p) \/ UseExisting(p)
           \/ Merge(p) \/ MarkDeleted(p) \/ AcquireLock(p) \/ ReadLastSeq(p) \/ InsertMessages(p)
  <2>1. proc[p].pc \notin Owing /\ UNCHANGED <<cache, excused>>
    BY <1>6 DEF RejectInactive, Refresh, NewRequest, Begin, CreateRow, GetsOrCreates, UseExisting,
                Merge, MarkDeleted, AcquireLock, ReadLastSeq, InsertMessages
  <2>2. CASE RowKept(p)
    BY <1>2, <2>1, <2>2, StillCovered DEF RowKept
  <2>3. CASE RowCreated(p) \/ RowConfigured(p) \/ RowMarked(p)
    <3>1. proc'[p].pc \in Owing
      BY <2>3 DEF RowCreated, RowConfigured, RowMarked
    <3>2. QED
      BY <1>1, <2>1, <3>1, ChangeCovers
  <2>4. QED
    BY <1>2, <2>2, <2>3
<1>7. QED
  BY <1>3, <1>4, <1>5, <1>6 DEF RequestStep

\* What a task owes to the cache, the straggler that it becomes owes.
LEMMA SweepCovers ==
  ASSUME TypeInv, CacheInv, shared, SweepLease
  PROVE  Covered' /\ cache'["deriver"] = NoRow
<1>1. UNCHANGED <<row, cache, excused>>
  BY DEF SweepLease, tables
<1>2. ASSUME NEW q \in Process, proc[q].pc \in Owing
      PROVE  \E p \in Process : proc'[p].pc \in Owing
  <2>1. proc[q].pc # "idle"
    BY <1>2 DEF Owing
  <2>2. CASE q \in Saver
    <3>1. PICK j \in Straggler : KindOf[j] = q
      BY <2>1, <2>2 DEF SweepLease, Busy, At
    <3>2. j \in Process /\ proc'[j] = proc[q]
      BY <3>1 DEF SweepLease, Process
    <3>3. QED
      BY <1>2, <3>2
  <2>3. CASE q \notin Saver
    <3>1. q \notin Straggler
      BY <2>1 DEF SweepLease, Busy, At
    <3>2. proc'[q] = proc[q]
      BY <2>3, <3>1 DEF SweepLease
    <3>3. QED
      BY <1>2, <3>2
  <2>4. QED
    BY <2>2, <2>3
<1>3. QED
  BY <1>1, <1>2 DEF CacheInv, StaleHasACause, Covered, OwesTheCache, Owing

LEMMA NextCache == TypeInv /\ CacheInv /\ [Next]_allVars => CacheInv'
<1> SUFFICES ASSUME TypeInv, CacheInv, [Next]_allVars PROVE CacheInv'
  OBVIOUS
<1> USE ProcessKinds
<1>1. UNCHANGED shared
  BY DEF Next, SessionNext, StartTask, SweepLease, SaverStep, Check, Summarise, Save, allVars, vars
<1>2. SUFFICES ASSUME shared PROVE Covered' /\ cache'["deriver"] = NoRow
  BY <1>1, CoveredSuffices
<1>3. ASSUME NEW p \in Request, NewRequest(p) \/ RequestStep(p)
      PROVE  Covered' /\ cache'["deriver"] = NoRow
  BY <1>2, <1>3, RequestCovers
<1>4. CASE WorkerStep
  <2>1. TypeOK
    BY DEF TypeInv, SumTypeOK
  <2>2. CASE Fetch(Worker) \/ Invalidate(Worker)
    BY <1>2, <2>2, FetchCovers
  <2>3. CASE TakeDeletion \/ EraseMessages
    <3>1. /\ UNCHANGED <<row, cache, excused>> /\ proc[Worker].pc \notin Owing
          /\ \A q \in Process \ {Worker} : proc'[q] = proc[q]
      BY <2>1, <2>3 DEF TakeDeletion, EraseMessages, Finish, TypeOK, tables, At, Owing
    <3>2. QED
      BY <1>2, <3>1, StillCovered
  <2>4. CASE DropSession
    <3>1. UNCHANGED <<cache, excused>>
      BY <2>4 DEF DropSession
    <3>2. CASE Finish(Worker) /\ UNCHANGED row
      <4>1. proc[Worker].pc \notin Owing /\ \A q \in Process \ {Worker} : proc'[q] = proc[q]
        BY <2>1, <2>4, <3>2 DEF DropSession, Finish, TypeOK, At, Owing
      <4>2. QED
        BY <1>2, <3>1, <3>2, <4>1, StillCovered
    <3>3. CASE Goto(Worker, "invalidate")
      <4>1. proc'[Worker].pc = "invalidate"
        BY <2>1, <3>3 DEF Goto, TypeOK, Local
      <4>2. QED
        BY <1>2, <3>1, <4>1, ChangeCovers DEF Owing
    <3>4. QED
      BY <2>4, <3>2, <3>3 DEF DropSession
  <2>5. QED
    BY <1>4, <2>2, <2>3, <2>4 DEF WorkerStep
<1>5. ASSUME NEW k \in Writer, SaverStep(k) PROVE Covered' /\ cache'["deriver"] = NoRow
  <2>1. \A q \in Process \ {k} : proc'[q] = proc[q]
    BY <1>5, SaverRows
  <2>2. CASE Fetch(k) \/ Invalidate(k)
    BY <1>2, <2>2, FetchCovers
  <2>3. CASE Check(k) \/ Summarise(k) \/ Save(k)
    <3>1. UNCHANGED <<cache, excused>> /\ proc[k].pc \notin Owing
      BY <2>3 DEF Check, Summarise, Save, Making, At, Owing
    <3>2. CASE UNCHANGED row
      BY <1>2, <2>1, <3>1, <3>2, StillCovered
    <3>3. CASE ~UNCHANGED row
      BY <1>2, <1>5, <3>1, <3>3, SaverRows, ChangeCovers DEF Owing
    <3>4. QED
      BY <3>2, <3>3
  <2>4. QED
    BY <1>5, <2>2, <2>3 DEF SaverStep
<1>6. CASE StartTask
  <2>1. UNCHANGED <<row, cache, excused>> /\ \A q \in Process : proc[q].pc \in Owing => proc'[q] = proc[q]
    BY <1>6 DEF StartTask, tables, Owing, At
  <2>2. QED
    BY <1>2, <2>1, StillCovered
<1>10. CASE SweepLease
  BY <1>2, <1>10, SweepCovers
<1>7. ASSUME NEW c \in Cache, Expire(c) PROVE Covered' /\ cache'["deriver"] = NoRow
  <2>1. c = "api"
    BY <1>2, <1>7 DEF Expire, Cache, CacheInv
  <2>2. cache'["api"] = NoRow /\ cache'["deriver"] = NoRow
    BY <1>2, <1>7, <2>1 DEF Expire, Cache, CacheInv, TypeInv, SumTypeOK, TypeOK
  <2>3. QED
    BY <2>2 DEF Covered
<1>8. CASE UNCHANGED allVars
  BY <1>2, <1>8, StillCovered DEF allVars, vars, tables
<1>9. QED
  BY <1>3, <1>4, <1>5, <1>6, <1>7, <1>8, <1>10 DEF Next, SessionNext

\* The entry in Redis never differs from the database unless someone who changed the
\* row has still to tell it, a reader filled it with what it read before the change,
\* or Redis refused a call: no path of the code forgets it.
THEOREM StalenessIsExplained == Spec => []StaleHasACause
<1>1. SumInit => CacheInv
  BY DEF SumInit, Init, Cache, CacheInv, StaleHasACause
<1>2. CacheInv => StaleHasACause
  BY DEF CacheInv
<1>3. QED
  BY <1>1, <1>2, NextCache, Deletions, PTL DEF Spec
-----------------------------------------------------------------------------
(* The conversation. *)

\* What ReadLastSeq returns is the number of a message, if there are any.
LEMMA LastIsThere ==
  ASSUME NEW S \in SUBSET Message, S # {}, NEW b \in Nat, \A m \in S : m.seq < b
  PROVE  \E m \in S : m.seq = Max({n.seq : n \in S} \union {0})
<1> DEFINE T == {n.seq : n \in S} \union {0}
<1>1. T \in SUBSET Nat /\ T # {} /\ \A x \in T : x <= b
  BY DEF Message, Number
<1>2. Max(T) \in T /\ \A x \in T : x <= Max(T)
  BY <1>1, MaxOfNumbers
<1>3. PICK m \in S : TRUE
  OBVIOUS
<1>4. m.seq > 0 /\ m.seq <= Max(T)
  BY <1>2, <1>3 DEF Message, Number
<1>5. Max(T) # 0
  BY <1>1, <1>2, <1>4 DEF Message, Number
<1>6. \E n \in S : n.seq = Max(T)
  BY <1>2, <1>5
<1>7. QED
  BY <1>6

\* The messages of a session, also when some have just been deleted: their numbers are in
\* the order of their primary keys and without a hole, they have a row, the last of
\* them is the one a request has read before it inserts, and what a deletion is about
\* to take away comes before what it leaves.
Ordered    == \A m, n \in messages : m.seq <= n.seq <=> m.id <= n.id
Contiguous == \A m, n \in messages : \A s \in m.seq..n.seq : \E l \in messages : l.seq = s
Owned      == messages # {} => row # NoRow
LastKnown  == \A p \in Request :
                At(p, "insert") /\ messages # {} => \E m \in messages : m.seq = LastSeq(p)
Cutting    == At(Worker, "drop") =>
                /\ proc[Worker].seen \subseteq messages
                /\ \A m \in messages \ proc[Worker].seen, n \in proc[Worker].seen : m.seq > n.seq
MessageInv == Ordered /\ Contiguous /\ Owned /\ LastKnown /\ Cutting

\* Messages are added by a request that holds the lock, and deleted by the worker.
MessagesKept     == UNCHANGED <<messages, nextMsg>> /\ (row # NoRow => row' # NoRow)
MessagesAdded(p) == /\ At(p, "insert") /\ row # NoRow /\ UNCHANGED row /\ proc'[p].pc = "idle"
                    /\ messages' = messages \union NewMessages(p) /\ nextMsg' = nextMsg + Batch
                    /\ \A q \in Process \ {p} : proc'[q] = proc[q]
MessagesDropped  == /\ At(Worker, "drop") /\ proc'[Worker].pc = "invalidate"
                    /\ messages' = messages \ proc[Worker].seen /\ UNCHANGED nextMsg
                    /\ row' = row \/ messages' = {}
                    /\ \A q \in Process \ {Worker} : proc'[q] = proc[q]
\* Who is about to insert or to delete has just read the messages or stands still.
ReadsMessages == /\ \A p \in Request :
                      proc'[p].pc = "insert" => proc'[p] = proc[p] \/ proc'[p].seen = messages'
                 /\ proc'[Worker].pc = "drop" =>
                      proc'[Worker] = proc[Worker] \/ proc'[Worker].seen = messages'

LEMMA MessageSteps ==
  ASSUME TypeInv, [Next]_allVars
  PROVE  /\ MessagesKept \/ (\E p \in Request : MessagesAdded(p)) \/ MessagesDropped
         /\ ReadsMessages
<1> USE ProcessKinds
<1>1. TypeOK
  BY DEF TypeInv, SumTypeOK
<1>2. ASSUME NEW p \in Request, NewRequest(p) \/ RequestStep(p)
      PROVE  (MessagesKept \/ MessagesAdded(p)) /\ ReadsMessages
  <2>1. /\ p \in Process /\ p # Worker
        /\ RowKept(p) \/ RowCreated(p) \/ RowConfigured(p) \/ RowMarked(p)
        /\ \A q \in Process \ {p} : proc'[q] = proc[q]
    BY <1>2, RequestRows
  <2>2. row # NoRow => row' # NoRow
    BY <2>1, NoRowAssumption DEF RowKept, RowCreated, RowConfigured, RowMarked, SameSession
  <2>3. CASE ~Posting(p)
    BY <1>2, <2>1, <2>2, <2>3, RequestNumbers DEF MessagesKept, ReadsMessages, Numbering
  <2>4. CASE AcquireLock(p)
    <3>1. proc'[p].pc # "insert" /\ UNCHANGED <<messages, nextMsg>>
      BY <1>1, <2>1, <2>4, Moves DEF AcquireLock, MovesTo, Ends, Step, tables
    <3>2. QED
      BY <2>1, <2>2, <3>1 DEF MessagesKept, ReadsMessages
  <2>5. CASE ReadLastSeq(p)
    <3>1. proc'[p].seen = messages /\ UNCHANGED <<messages, nextMsg>>
      BY <1>1, <2>1, <2>5 DEF ReadLastSeq, tables, TypeOK, Local
    <3>2. QED
      BY <2>1, <2>2, <3>1 DEF MessagesKept, ReadsMessages
  <2>6. CASE InsertMessages(p)
    <3>1. proc'[p].pc = "idle"
      BY <1>1, <2>1, <2>6, Finishes DEF InsertMessages, Ends
    <3>2. MessagesKept \/ MessagesAdded(p)
      BY <2>1, <2>6, <3>1 DEF InsertMessages, MessagesKept, MessagesAdded
    <3>3. QED
      BY <2>1, <3>1, <3>2 DEF ReadsMessages
  <2>7. QED
    BY <2>3, <2>4, <2>5, <2>6 DEF Posting
<1>3. CASE WorkerStep
  <2>1. \A q \in Process \ {Worker} : proc'[q] = proc[q]
    BY <1>1, <1>3 DEF WorkerStep, TakeDeletion, Fetch, Lookup, ReadRow, Fill, EraseMessages,
                DropSession, Invalidate, Goto, GotoWith, Finish, TypeOK
  <2>2. CASE TakeDeletion \/ Fetch(Worker) \/ Invalidate(Worker)
    <3>1. UNCHANGED <<row, messages, nextMsg>>
      BY <2>2 DEF TakeDeletion, Fetch, Lookup, ReadRow, Fill, Invalidate, tables
    <3>2. proc'[Worker].pc # "drop"
      <4>1. CASE TakeDeletion
        BY <1>1, <4>1 DEF TakeDeletion, Asked, Resting, TypeOK
      <4>2. CASE Fetch(Worker) \/ Invalidate(Worker)
        BY <1>1, <4>2, EntryType, Moves DEF Fetch, Lookup, ReadRow, Fill, Invalidate, MovesTo, Ends,
                                            Step, TypeOK
      <4>3. QED
        BY <2>2, <4>1, <4>2
    <3>3. QED
      BY <2>1, <3>1, <3>2 DEF MessagesKept, ReadsMessages
  <2>3. CASE EraseMessages
    <3>1. UNCHANGED <<row, messages, nextMsg>>
      BY <2>3 DEF EraseMessages
    <3>2. proc'[Worker].pc = "drop" => proc'[Worker].seen = messages
      BY <1>1, <2>3 DEF EraseMessages, Finish, Resting, TypeOK, Local
    <3>3. QED
      BY <2>1, <3>1, <3>2 DEF MessagesKept, ReadsMessages
  <2>4. CASE DropSession
    <3>1. CASE Finish(Worker) /\ UNCHANGED <<row, messages>>
      <4>1. proc'[Worker].pc = "idle"
        BY <1>1, <3>1, Finishes DEF Ends
      <4>2. QED
        BY <2>1, <2>4, <3>1, <4>1 DEF DropSession, MessagesKept, ReadsMessages
    <3>2. CASE /\ row' = IF SameRow(Worker) THEN NoRow ELSE row
               /\ messages' = messages \ proc[Worker].seen
               /\ ~(SameRow(Worker) /\ ~(messages \subseteq proc[Worker].seen))
               /\ Goto(Worker, "invalidate")
      <4>1. proc'[Worker].pc = "invalidate"
        BY <1>1, <3>2 DEF Goto, TypeOK, Local
      <4>2. QED
        BY <2>1, <2>4, <3>2, <4>1 DEF DropSession, MessagesDropped, ReadsMessages
    <3>3. QED
      BY <2>4, <3>1, <3>2 DEF DropSession
  <2>5. QED
    BY <1>3, <2>2, <2>3, <2>4 DEF WorkerStep
<1>4. ASSUME NEW k \in Writer, SaverStep(k) PROVE MessagesKept /\ ReadsMessages
  <2>1. UNCHANGED <<messages, nextMsg>> /\ \A q \in Process \ {k} : proc'[q] = proc[q]
    BY <1>4, SaverRows
  <2>2. row # NoRow => row' # NoRow
    BY <1>4, SaverRows, NoRowAssumption
  <2>3. k # Worker /\ \A p \in Request : p # k
    BY <1>4
  <2>4. QED
    BY <2>1, <2>2, <2>3 DEF MessagesKept, ReadsMessages
<1>5. CASE StartTask \/ SweepLease
  <2>1. \A q \in Process \ Writer : proc'[q] = proc[q]
    BY <1>5 DEF StartTask, SweepLease
  <2>2. \A p \in Request : p \notin Writer
    OBVIOUS
  <2>3. QED
    BY <1>5, <2>1, <2>2 DEF StartTask, SweepLease, tables, MessagesKept, ReadsMessages
<1>6. ASSUME NEW c \in Cache, Expire(c) PROVE MessagesKept /\ ReadsMessages
  BY <1>6 DEF Expire, tables, MessagesKept, ReadsMessages
<1>7. CASE UNCHANGED allVars
  BY <1>7 DEF allVars, vars, tables, MessagesKept, ReadsMessages
<1>8. QED
  BY <1>2, <1>3, <1>4, <1>5, <1>6, <1>7 DEF Next, SessionNext

LEMMA EveryNewNumber ==
  ASSUME TypeInv, NEW p \in Process, NEW s \in (LastSeq(p) + 1)..(LastSeq(p) + Batch)
  PROVE  \E l \in NewMessages(p) : l.seq = s
<1>1. LastSeq(p) \in Nat /\ Batch \in Nat
  BY LastSeqIsLast, SessionsAssumption
<1>2. s - LastSeq(p) - 1 \in 0..(Batch - 1) /\ LastSeq(p) + 1 + (s - LastSeq(p) - 1) = s
  BY <1>1
<1>3. [id |-> nextMsg + (s - LastSeq(p) - 1), seq |-> LastSeq(p) + 1 + (s - LastSeq(p) - 1)]
        \in NewMessages(p)
  BY <1>2 DEF NewMessages
<1>4. QED
  BY <1>2, <1>3

LEMMA MessagesAreAdded ==
  ASSUME TypeInv, NumberInv, MessageInv, NEW p \in Request, MessagesAdded(p)
  PROVE  MessageInv'
<1> USE ProcessKinds
<1>1. /\ p \in Process /\ messages \subseteq proc[p].seen /\ messages \subseteq Message
      /\ lock = p /\ Batch \in Nat \ {0} /\ nextMsg \in Nat
  BY SessionsAssumption DEF MessagesAdded, At, NumberInv, Numbering, TypeInv, SumTypeOK, TypeOK, Number
<1>2. /\ LastSeq(p) \in Nat
      /\ \A m \in messages : m.seq <= LastSeq(p) /\ m.id < nextMsg
  BY <1>1, LastSeqIsLast DEF TypeInv, Numbered
<1>3. /\ NewMessages(p) \subseteq Message
      /\ \A m \in NewMessages(p) : /\ m.id >= nextMsg
                                   /\ m.seq > LastSeq(p) /\ m.seq <= LastSeq(p) + Batch
                                   /\ m.id - m.seq = nextMsg - (LastSeq(p) + 1)
  BY <1>1, NewMessagesType
<1>4. messages' = messages \union NewMessages(p) /\ row' # NoRow
  BY DEF MessagesAdded
<1>5. Ordered'
  <2> SUFFICES ASSUME NEW m \in messages', NEW n \in messages'
               PROVE  m.seq <= n.seq <=> m.id <= n.id
    BY DEF Ordered
  <2>1. m.seq \in Nat /\ n.seq \in Nat /\ m.id \in Nat /\ n.id \in Nat
    BY <1>1, <1>3, <1>4 DEF Message, Number
  <2>2. CASE m \in messages /\ n \in messages
    BY <2>2 DEF MessageInv, Ordered
  <2>3. CASE m \in messages /\ n \in NewMessages(p)
    BY <1>1, <1>2, <1>3, <2>1, <2>3
  <2>4. CASE m \in NewMessages(p) /\ n \in messages
    BY <1>1, <1>2, <1>3, <2>1, <2>4
  <2>5. CASE m \in NewMessages(p) /\ n \in NewMessages(p)
    BY <1>1, <1>2, <1>3, <2>1, <2>5
  <2>6. QED
    BY <1>4, <2>2, <2>3, <2>4, <2>5
<1>6. Contiguous'
  <2> SUFFICES ASSUME NEW m \in messages', NEW n \in messages', NEW s \in m.seq..n.seq
               PROVE  \E l \in messages' : l.seq = s
    BY DEF Contiguous
  <2>1. m.seq \in Nat /\ n.seq \in Nat /\ n.seq <= LastSeq(p) + Batch
    BY <1>1, <1>2, <1>3, <1>4 DEF Message, Number
  <2>2. CASE s > LastSeq(p)
    <3>1. s \in (LastSeq(p) + 1)..(LastSeq(p) + Batch)
      BY <1>1, <1>2, <2>1, <2>2
    <3>2. QED
      BY <1>1, <1>4, <3>1, EveryNewNumber
  <2>3. CASE s <= LastSeq(p)
    <3>1. m \in messages
      BY <1>2, <1>3, <1>4, <2>1, <2>3
    <3>2. PICK l \in messages : l.seq = LastSeq(p)
      BY <3>1 DEF MessageInv, LastKnown, MessagesAdded
    <3>3. s \in m.seq..l.seq
      BY <1>2, <2>1, <2>3, <3>2
    <3>4. QED
      BY <1>4, <3>1, <3>2, <3>3 DEF MessageInv, Contiguous
  <2>4. QED
    BY <1>2, <2>1, <2>2, <2>3
<1>7. LastKnown'
  <2>1. \A q \in Request : proc'[q].pc # "insert"
    BY <1>1 DEF MessagesAdded, NumberInv, Numbering
  <2>2. QED
    BY <2>1 DEF LastKnown, At
<1>8. Cutting'
  <2>1. proc'[Worker] = proc[Worker]
    BY DEF MessagesAdded
  <2>2. ASSUME At(Worker, "drop"),
               NEW m \in messages' \ proc[Worker].seen, NEW n \in proc[Worker].seen
        PROVE  m.seq > n.seq
    <3>1. n \in messages /\ (m \in messages => m.seq > n.seq)
      BY <2>2 DEF MessageInv, Cutting
    <3>2. CASE m \in NewMessages(p)
      BY <1>1, <1>2, <1>3, <3>1, <3>2 DEF Message, Number
    <3>3. QED
      BY <1>4, <3>1, <3>2
  <2>3. QED
    BY <1>4, <2>1, <2>2 DEF MessageInv, Cutting, At
<1>9. Owned'
  BY <1>4 DEF Owned
<1>10. QED
  BY <1>5, <1>6, <1>7, <1>8, <1>9 DEF MessageInv

LEMMA MessagesAreDropped ==
  ASSUME TypeInv, NumberInv, MessageInv, MessagesDropped
  PROVE  MessageInv'
<1> USE ProcessKinds
<1>1. /\ messages \subseteq Message /\ messages' = messages \ proc[Worker].seen
      /\ proc[Worker].seen \subseteq messages
      /\ \A m \in messages', n \in proc[Worker].seen : m.seq > n.seq
  BY DEF MessagesDropped, TypeInv, SumTypeOK, TypeOK, MessageInv, Cutting
<1>2. Ordered' /\ Owned' /\ Cutting'
  BY <1>1 DEF MessageInv, Ordered, Owned, Cutting, At, MessagesDropped
<1>3. Contiguous'
  <2> SUFFICES ASSUME NEW m \in messages', NEW n \in messages', NEW s \in m.seq..n.seq
               PROVE  \E l \in messages' : l.seq = s
    BY DEF Contiguous
  <2>1. PICK l \in messages : l.seq = s
    BY <1>1 DEF MessageInv, Contiguous
  <2>2. l \notin proc[Worker].seen
    BY <1>1, <2>1 DEF Message, Number
  <2>3. QED
    BY <1>1, <2>1, <2>2
<1>4. LastKnown'
  <2> SUFFICES ASSUME NEW p \in Request, At(p, "insert")', messages' # {}
               PROVE  \E m \in messages' : m.seq = LastSeq(p)
    <3>1. \A p \in Request : proc'[p] = proc[p]
      BY DEF MessagesDropped
    <3>2. \A p \in Request : LastSeq(p)' = LastSeq(p)
      BY <3>1 DEF LastSeq
    <3>3. QED
      BY <3>1, <3>2 DEF LastKnown
  <2>1. proc'[p] = proc[p] /\ At(p, "insert") /\ p \in Process /\ messages # {}
    BY <1>1 DEF MessagesDropped, At
  <2>2. PICK m \in messages : m.seq = LastSeq(p)
    BY <2>1 DEF MessageInv, LastKnown
  <2>3. PICK n \in messages' : TRUE
    OBVIOUS
  <2>4. n.seq <= m.seq
    BY <1>1, <2>1, <2>2, LastSeqIsLast DEF NumberInv, At
  <2>5. m \notin proc[Worker].seen
    BY <1>1, <2>2, <2>3, <2>4 DEF Message, Number
  <2>6. QED
    BY <1>1, <2>2, <2>5
<1>5. QED
  BY <1>2, <1>3, <1>4 DEF MessageInv

LEMMA NextMessages ==
  ASSUME TypeInv, NumberInv, MessageInv, [Next]_allVars
  PROVE  MessageInv'
<1> USE ProcessKinds
<1>1. ReadsMessages
  BY MessageSteps
<1>2. CASE MessagesKept
  <2>1. Ordered' /\ Contiguous'
    BY <1>2 DEF MessagesKept, MessageInv, Ordered, Contiguous
  <2>2. Owned'
    BY <1>2 DEF MessagesKept, MessageInv, Owned
  <2>3. Cutting'
    BY <1>1, <1>2 DEF MessagesKept, MessageInv, Cutting, At, ReadsMessages
  <2>4. LastKnown'
    <3> SUFFICES ASSUME NEW p \in Request, At(p, "insert")', messages' # {}
                 PROVE  \E m \in messages : m.seq = LastSeq(p)'
      BY <1>2 DEF LastKnown, MessagesKept
    <3>1. messages \in SUBSET Message /\ nextMsg \in Nat /\ \A m \in messages : m.seq < nextMsg
      BY DEF TypeInv, SumTypeOK, TypeOK, Numbered, Number
    <3>2. CASE proc'[p] = proc[p]
      <4>1. LastSeq(p)' = LastSeq(p) /\ At(p, "insert") /\ messages # {}
        BY <1>2, <3>2 DEF LastSeq, At, MessagesKept
      <4>2. QED
        BY <4>1 DEF MessageInv, LastKnown
    <3>3. CASE proc'[p].seen = messages
      <4>1. LastSeq(p)' = Max({m.seq : m \in messages} \union {0}) /\ messages # {}
        BY <1>2, <3>3 DEF LastSeq, MessagesKept
      <4>2. QED
        BY <3>1, <4>1, LastIsThere
    <3>4. QED
      BY <1>1, <1>2, <3>2, <3>3 DEF ReadsMessages, MessagesKept, At
  <2>5. QED
    BY <2>1, <2>2, <2>3, <2>4 DEF MessageInv
<1>3. QED
  BY <1>2, MessageSteps, MessagesAreAdded, MessagesAreDropped

LEMMA Conversations == Spec => [](TypeInv /\ NumberInv /\ MessageInv)
<1>1. SumInit => NumberInv /\ MessageInv
  BY ProcessKinds DEF SumInit, Init, Resting, NumberInv, Numbering, MessageInv, Ordered, Contiguous,
                      Owned, LastKnown, Cutting, At
<1>2. TypeInv /\ NumberInv /\ MessageInv /\ [Next]_allVars => NumberInv' /\ MessageInv'
  BY NextNumbers, NextMessages
<1>3. QED
  BY <1>1, <1>2, Deletions, PTL DEF Spec
-----------------------------------------------------------------------------
(* The task and the summaries made for it. *)

Fetching == {"lookup", "miss", "fill", "use"}
\* k has a summary in hand that it goes on to save; or it is busy with the task at all.
Drafting(k) == At(k, "llm") \/ (proc[k].kind = "save" /\ proc[k].pc \in Fetching)
Pending(k)  == Drafting(k) \/ (proc[k].kind = "summarise" /\ proc[k].pc \in Fetching)

\* The message of the task may be deleted meanwhile, and its number be given again: the
\* messages that have it, or a smaller one, are then younger.
TaskKnown == task.of.id < nextMsg /\ \A k \in Saver : \A n \in served[k] : n.id < nextMsg
TaskGone  == task.of \notin messages => \A m \in messages : m.seq <= task.of.seq => task.of.id < m.id
TaskDue ==
  \A k \in Saver :
    /\ Busy(k) => \A j \in Saver : (Due(j, task) => task.of \in served[j])
    /\ Pending(k) => Due(k, task)
DraftsReach == \A k \in Saver : Drafting(k) => draft[k].upTo >= task.of.id /\ draft[k].upTo < nextMsg
TaskInv == TaskKnown /\ TaskGone /\ TaskDue /\ DraftsReach

\* A summary in hand is no shorter than the one it is to replace.
AdvanceInv == ~outdated /\ row # NoRow =>
                \A k \in Saver : Drafting(k) => draft[k].upTo >= row.summaries[k].upTo

LEMMA PendingIsServed ==
  ASSUME TaskDue, NEW k \in Saver, Pending(k)
  PROVE  task.of \in served[k] /\ Due(k, task)
<1>1. Busy(k)
  BY DEF Pending, Drafting, Busy, At, Fetching
<1>2. QED
  BY <1>1 DEF TaskDue

LEMMA TasksStay ==
  ASSUME TypeInv, NumberInv, MessageInv, TaskKnown, TaskGone, [Next]_allVars,
         UNCHANGED <<task, served>>
  PROVE  TaskKnown' /\ TaskGone' /\ nextMsg' >= nextMsg
<1> USE ProcessKinds
<1>1. /\ nextMsg \in Nat /\ messages \subseteq Message /\ Batch \in Nat
      /\ task.of.id \in Nat /\ task.of.seq \in Nat /\ \A k \in Saver : \A n \in served[k] : n.id \in Nat
  BY SessionsAssumption DEF TypeInv, SumTypeOK, TypeOK, Message, Task, NoTask, Number
<1>2. CASE MessagesKept
  BY <1>1, <1>2 DEF MessagesKept, TaskKnown, TaskGone
<1>3. ASSUME NEW p \in Request, MessagesAdded(p) PROVE TaskKnown' /\ TaskGone' /\ nextMsg' >= nextMsg
  <2>1. nextMsg' >= nextMsg /\ messages' = messages \union NewMessages(p)
    BY <1>1, <1>3 DEF MessagesAdded
  <2>2. \A m \in NewMessages(p) : m \in Message /\ m.id >= nextMsg
    BY NewMessagesType
  <2>3. TaskKnown'
    BY <1>1, <1>3, <2>1 DEF TaskKnown, MessagesAdded
  <2>4. \A m \in NewMessages(p) : task.of.id < m.id
    BY <1>1, <2>2 DEF TaskKnown, Message, Number
  <2>5. TaskGone'
    BY <2>1, <2>4 DEF TaskGone
  <2>6. QED
    BY <2>1, <2>3, <2>5
<1>4. CASE MessagesDropped
  <2>1. /\ messages' = messages \ proc[Worker].seen /\ UNCHANGED nextMsg
        /\ \A m \in messages', n \in proc[Worker].seen : m.seq > n.seq
    BY <1>4 DEF MessagesDropped, MessageInv, Cutting
  <2>2. ASSUME task.of \notin messages', NEW m \in messages', m.seq <= task.of.seq PROVE task.of.id < m.id
    <3>1. task.of \notin messages
      BY <1>1, <2>1, <2>2 DEF Message, Number
    <3>2. QED
      BY <2>1, <2>2, <3>1 DEF TaskGone
  <2>3. QED
    BY <1>1, <2>1, <2>2 DEF TaskKnown, TaskGone
<1>5. QED
  BY <1>2, <1>3, <1>4, MessageSteps

\* The window ends with a message that is no older than that of the task.
LEMMA WindowReaches ==
  ASSUME TypeInv, MessageInv, TaskKnown, TaskGone, NEW k \in Saver, task.of \in Message,
         LastMessages(k) # {}
  PROVE  \E m \in LastMessages(k) : /\ LastOf(LastMessages(k)) = m.id
                                    /\ m.id >= task.of.id /\ m.id < nextMsg
                                    /\ task.of \in messages => m.id = task.of.id
<1>1. /\ task.of.seq \in Nat /\ task.of.id \in Nat /\ task.per[k] \in Nat \ {0}
      /\ messages \subseteq Message /\ nextMsg \in Nat
  BY DEF TypeInv, SumTypeOK, TypeOK, Message, Task, Number
<1>2. LastMessages(k) \in SUBSET messages /\ \A m \in LastMessages(k) : m.seq <= task.of.seq
  BY <1>1, WriterKinds DEF LastMessages, Window, Message, Number
<1>3. PICK m \in LastMessages(k) :
        LastOf(LastMessages(k)) = m.id /\ \A n \in LastMessages(k) : n.seq <= m.seq
  BY <1>2, LastOfType
<1>4. m \in messages /\ m.id \in Nat /\ m.seq \in Nat /\ m.id < nextMsg
  BY <1>1, <1>2, <1>3 DEF TypeInv, Numbered, Message, Number
<1>5. CASE task.of \in messages
  <2>1. task.of \in LastMessages(k)
    BY <1>1, <1>5, WriterKinds DEF LastMessages, Window
  <2>2. task.of.seq <= m.seq /\ m.seq <= task.of.seq
    BY <1>2, <1>3, <2>1
  <2>3. m.id >= task.of.id /\ m.id <= task.of.id
    BY <1>4, <1>5, <2>2 DEF MessageInv, Ordered
  <2>4. QED
    BY <1>1, <1>3, <1>4, <2>3
<1>6. CASE task.of \notin messages
  BY <1>1, <1>2, <1>3, <1>4, <1>6 DEF TaskGone
<1>7. QED
  BY <1>5, <1>6

\* Reading the session, or telling the cache, starts no draft.
LEMMA FetchKeepsTask ==
  ASSUME TypeInv, NEW k \in Saver, Fetch(k) \/ Invalidate(k)
  PROVE  (Drafting(k)' => Drafting(k)) /\ (Pending(k)' => Pending(k))
<1> USE ProcessKinds DEF Step, MovesTo, Ends, Fetching
<1>1. k \in Process /\ TypeOK /\ proc[k].snap \in Row \union {NoRow}
  BY EntryType DEF TypeInv, SumTypeOK
<1>2. CASE Invalidate(k)
  <2>1. Ends(k)
    BY <1>1, <1>2, Moves DEF Invalidate
  <2>2. QED
    BY <2>1 DEF Drafting, Pending, At
<1>3. CASE Fetch(k)
  <2>1. /\ proc'[k].kind = proc[k].kind /\ proc[k].pc \in Fetching
        /\ proc'[k].pc # "llm"
    BY <1>1, <1>3, EntryType, Moves DEF Fetch, Lookup, ReadRow, Fill, At, TypeOK
  <2>2. QED
    BY <2>1 DEF Drafting, Pending, At
<1>4. QED
  BY <1>2, <1>3

\* What the steps of a saver do to its draft.
LEMMA SaverTasks ==
  ASSUME TypeInv, MessageInv, TaskInv, NEW k \in Saver, SaverStep(k)
  PROVE  /\ UNCHANGED <<task, served>>
         /\ \A j \in Writer \ {k} : draft'[j] = draft[j]
         /\ Pending(k)' => Pending(k)
         /\ Drafting(k)' => \/ Drafting(k) /\ draft'[k] = draft[k]
                            \/ /\ Check(k) /\ ~AlreadyCovered(k)
                               /\ draft'[k].upTo >= task.of.id /\ draft'[k].upTo < nextMsg
<1> USE ProcessKinds
<1>1. k \in Process /\ TypeOK /\ draft \in [Writer -> Summary] /\ proc[k].snap \in Row \union {NoRow}
  BY EntryType DEF TypeInv, SumTypeOK
<1>2. CASE (Fetch(k) \/ Invalidate(k)) /\ UNCHANGED <<shared, sumVars>>
  BY <1>2, FetchKeepsTask DEF sumVars
<1>3. CASE Check(k)
  <2>1. CASE Finish(k) /\ UNCHANGED <<draft, outdated, gap>>
    <3>1. Ends(k)
      BY <1>1, <2>1, Finishes
    <3>2. QED
      BY <1>3, <2>1, <3>1 DEF Check, Ends, Drafting, Pending, At, Fetching
  <2>2. CASE ~AlreadyCovered(k)
    <3>1. Pending(k) /\ task.of \in Message
      <4>1. Pending(k)
        BY <1>3 DEF Check, Making, Pending, At, Fetching
      <4>2. QED
        BY <4>1, PendingIsServed DEF TaskInv, TypeInv, SumTypeOK
    <3>2. LastMessages(k) # {}
      BY <2>2 DEF AlreadyCovered
    <3>3. LastOf(LastMessages(k)) >= task.of.id /\ LastOf(LastMessages(k)) < nextMsg
      BY <3>1, <3>2, WindowReaches DEF TaskInv
    <3>4. draft' = [draft EXCEPT ![k] = [upTo |-> LastOf(LastMessages(k)),
                      covers |-> Latest(k).covers \union {m.id : m \in LastMessages(k)}]]
      BY <1>3, <2>2 DEF Check
    <3>5. draft'[k].upTo = LastOf(LastMessages(k)) /\ \A j \in Writer \ {k} : draft'[j] = draft[j]
      BY <1>1, <3>4
    <3>6. QED
      BY <1>3, <2>2, <3>1, <3>3, <3>5 DEF Check
  <2>3. QED
    BY <1>3, <2>1, <2>2 DEF Check
<1>4. CASE Summarise(k)
  <2>1. Drafting(k) /\ Pending(k) /\ \A j \in Writer \ {k} : draft'[j] = draft[j]
    BY <1>1, <1>4 DEF Summarise, Drafting, Pending
  <2>2. CASE UNCHANGED draft
    BY <1>4, <2>1, <2>2 DEF Summarise
  <2>3. CASE Finish(k)
    <3>1. Ends(k)
      BY <1>1, <2>3, Finishes
    <3>2. ~Drafting(k)'
      BY <3>1 DEF Ends, Drafting, At, Fetching
    <3>3. QED
      BY <1>4, <2>1, <3>2 DEF Summarise
  <2>4. QED
    BY <1>4, <2>2, <2>3 DEF Summarise
<1>5. CASE Save(k)
  <2>1. Drafting(k) /\ Pending(k) /\ \A j \in Writer \ {k} : draft'[j] = draft[j]
    BY <1>1, <1>5 DEF Save, Making, Drafting, Pending, At, Fetching
  <2>2. Ends(k) \/ MovesTo(k, "invalidate", proc[k].snap)
    BY <1>1, <1>5, Moves DEF Save, Step
  <2>3. ~Drafting(k)'
    BY <2>2 DEF Ends, MovesTo, Drafting, At, Fetching
  <2>4. QED
    BY <1>5, <2>1, <2>3 DEF Save
<1>6. QED
  BY <1>2, <1>3, <1>4, <1>5 DEF SaverStep

\* Everything but the steps of a saver, the start of a task and its restart leaves the
\* savers alone; so does a straggler.
LEMMA OthersLeaveSavers ==
  ASSUME TypeInv, [Next]_allVars
  PROVE  \/ /\ \A k \in Saver : proc'[k] = proc[k] /\ draft'[k] = draft[k]
            /\ UNCHANGED <<task, served>>
         \/ StartTask
         \/ SweepLease
         \/ \E k \in Saver : SaverStep(k)
<1> USE ProcessKinds
<1>1. ASSUME NEW p \in Request, NewRequest(p) \/ RequestStep(p) PROVE \A k \in Saver : proc'[k] = proc[k]
  BY <1>1, RequestRows
<1>2. ASSUME WorkerStep PROVE \A k \in Saver : proc'[k] = proc[k]
  BY <1>2 DEF WorkerStep, TakeDeletion, Fetch, Lookup, ReadRow, Fill, EraseMessages, DropSession,
              Invalidate, Goto, GotoWith, Finish, TypeInv, SumTypeOK, TypeOK
<1>3. ASSUME NEW j \in Straggler, SaverStep(j)
      PROVE  (\A k \in Saver : proc'[k] = proc[k] /\ draft'[k] = draft[k]) /\ UNCHANGED <<task, served>>
  <2>1. j \in Writer /\ \A k \in Saver : k \in Process /\ k # j /\ k \in Writer
    BY <1>3
  <2>2. \A k \in Saver : proc'[k] = proc[k]
    BY <1>3, <2>1, SaverRows
  <2>3. draft \in [Writer -> Summary]
    BY DEF TypeInv, SumTypeOK
  <2>4. UNCHANGED <<task, served>> /\ \A k \in Saver : draft'[k] = draft[k]
    BY <1>3, <2>1, <2>3 DEF SaverStep, Check, Summarise, Save, sumVars
  <2>5. QED
    BY <2>2, <2>4
<1>4. QED
  BY <1>1, <1>2, <1>3 DEF Next, SessionNext, Expire, allVars, vars, sumVars

LEMMA StartsPending ==
  ASSUME TypeInv, TaskInv, StartTask
  PROVE  /\ UNCHANGED <<row, draft, outdated, messages, nextMsg>>
         /\ \A k \in Saver : ~Pending(k) /\ ~Drafting(k)' /\ (Pending(k)' <=> Due(k, task'))
         /\ task'.of \in messages /\ \E k \in Saver : Due(k, task')
         /\ \A k \in Saver :
              /\ task'.of \notin served[k]
              /\ Due(k, task') => served'[k] = served[k] \union {task'.of}
              /\ ~Due(k, task') => served'[k] = served[k]
         /\ \A k \in Saver, n \in messages :
              ~gap' /\ Due(k, task') /\ n.seq = task'.of.seq - task'.per[k] => n \in served[k]
<1> USE ProcessKinds
<1>1. UNCHANGED <<row, draft, outdated, messages, nextMsg>>
  BY DEF StartTask, tables
<1>2. \A k \in Saver : proc[k].pc = "idle"
  BY DEF StartTask, At
<1>3. PICK m \in messages, per \in Intervals :
        LET t == [of |-> m, per |-> per]
            due == {k \in Saver : Due(k, t)} IN
        /\ due # {} /\ \A k \in Saver : m \notin served[k]
        /\ task' = t
        /\ served' = [k \in Saver |-> IF k \in due THEN served[k] \union {m} ELSE served[k]]
        /\ gap' = (gap \/ \E k \in due : \E n \in messages \ served[k] : n.seq = m.seq - per[k])
        /\ proc' = [p \in Process |-> IF p \in due THEN Asked("summarise", {}) ELSE proc[p]]
  BY DEF StartTask
<1>4. task' = [of |-> m, per |-> per] /\ task'.of = m /\ task'.per = per
  BY <1>3
<1> DEFINE due == {k \in Saver : Due(k, [of |-> m, per |-> per])}
<1>5. \A k \in Saver : k \in due <=> Due(k, task')
  BY <1>4
<1>6. /\ due # {} /\ due \subseteq Saver
      /\ served' = [k \in Saver |-> IF k \in due THEN served[k] \union {m} ELSE served[k]]
      /\ proc' = [p \in Process |-> IF p \in due THEN Asked("summarise", {}) ELSE proc[p]]
  BY <1>3
<1>7. ~gap' => (\A k \in due : \A n \in messages \ served[k] : n.seq # m.seq - per[k])
  BY <1>3
<1>8. \A k \in Saver : m \notin served[k]
  BY <1>3
<1> HIDE DEF due
<1>9. \A k \in Saver : ~Pending(k) /\ ~Drafting(k)' /\ (Pending(k)' <=> Due(k, task'))
  <2>1. ASSUME NEW k \in Saver PROVE proc'[k] = IF k \in due THEN Asked("summarise", {}) ELSE proc[k]
    BY <1>6
  <2>2. /\ Asked("summarise", {}).pc = "lookup" /\ Asked("summarise", {}).kind = "summarise"
    BY DEF Asked, Resting
  <2>3. QED
    BY <1>2, <1>5, <2>1, <2>2 DEF Pending, Drafting, At, Fetching
<1>10. \A k \in Saver :
         /\ Due(k, task') => served'[k] = served[k] \union {m}
         /\ ~Due(k, task') => served'[k] = served[k]
  BY <1>5, <1>6
<1>11. \E k \in Saver : Due(k, task')
  BY <1>5, <1>6
<1>12. \A k \in Saver, n \in messages :
         ~gap' /\ Due(k, task') /\ n.seq = m.seq - per[k] => n \in served[k]
  BY <1>5, <1>7
<1>13. QED
  BY <1>1, <1>4, <1>8, <1>9, <1>10, <1>11, <1>12

\* The row of a swept task is taken again: who was due is due, and starts anew.
LEMMA SweepsRestart ==
  ASSUME TypeInv, TaskInv, SweepLease
  PROVE  /\ UNCHANGED <<row, task, served, outdated, gap, messages, nextMsg>>
         /\ \A k \in Saver : ~Drafting(k)' /\ (Pending(k)' <=> Due(k, task))
         /\ \A j \in Saver : Due(j, task) => task.of \in served[j]
<1>1. UNCHANGED <<row, task, served, outdated, gap, messages, nextMsg>>
  BY DEF SweepLease, tables
<1>2. \A k \in Saver : k \in Process /\ k \notin Straggler
  BY ProcessKinds
<1>3. ASSUME NEW k \in Saver, Due(k, task) PROVE ~Drafting(k)' /\ Pending(k)'
  <2>1. proc'[k] = Asked("summarise", {})
    BY <1>2, <1>3 DEF SweepLease
  <2>2. QED
    BY <2>1 DEF Pending, Drafting, At, Asked, Resting, Fetching
<1>4. ASSUME NEW k \in Saver, ~Due(k, task) PROVE ~Drafting(k)' /\ ~Pending(k)'
  <2>1. proc'[k] = proc[k]
    BY <1>2, <1>4 DEF SweepLease
  <2>2. ~Pending(k)
    BY <1>4 DEF TaskInv, TaskDue
  <2>3. ~Drafting(k)
    BY <2>2 DEF Pending
  <2>4. QED
    BY <2>1, <2>2, <2>3 DEF Pending, Drafting, At
<1>5. \A j \in Saver : Due(j, task) => task.of \in served[j]
  <2>1. PICK k \in Saver : Busy(k)
    BY DEF SweepLease
  <2>2. QED
    BY <2>1 DEF TaskInv, TaskDue
<1>6. QED
  BY <1>1, <1>3, <1>4, <1>5

LEMMA SaversWereBusy ==
  ASSUME NEW k \in Saver, SaverStep(k)
  PROVE  Busy(k)
BY DEF SaverStep, Fetch, Lookup, ReadRow, Fill, Invalidate, Check, Summarise, Save, Making, Busy, At

LEMMA NextTasks ==
  ASSUME TypeInv, NumberInv, MessageInv, TaskInv, [Next]_allVars
  PROVE  TaskInv'
<1>1. CASE UNCHANGED <<task, served>>
  <2>1. TaskKnown' /\ TaskGone' /\ nextMsg' >= nextMsg /\ nextMsg \in Nat /\ nextMsg' \in Nat
    <3>1. nextMsg \in Nat /\ Batch \in Nat
      BY SessionsAssumption DEF TypeInv, SumTypeOK, TypeOK, Number
    <3>2. nextMsg' = nextMsg \/ nextMsg' = nextMsg + Batch
      BY MessageSteps DEF MessagesKept, MessagesAdded, MessagesDropped
    <3>3. QED
      BY <1>1, <3>1, <3>2, TasksStay DEF TaskInv
  <2>2. TaskDue'
    <3> SUFFICES ASSUME NEW k \in Saver
                 PROVE  /\ Busy(k)' => \A j \in Saver : Due(j, task) => task.of \in served[j]
                        /\ Pending(k)' => Due(k, task)
      BY <1>1 DEF TaskDue, Due
    <3>1. CASE proc'[k] = proc[k]
      BY <3>1 DEF TaskInv, TaskDue, Pending, Drafting, Busy, At
    <3>2. ASSUME NEW j \in Saver, SaverStep(j), j # k PROVE proc'[k] = proc[k]
      <4>1. j \in Writer /\ k \in Process
        BY <3>2, ProcessKinds
      <4>2. QED
        BY <3>2, <4>1, SaverRows
    <3>3. CASE SaverStep(k)
      <4>1. Busy(k) /\ (Pending(k)' => Pending(k))
        BY <3>3, SaversWereBusy, SaverTasks
      <4>2. QED
        BY <4>1 DEF TaskInv, TaskDue
    <3>4. CASE SweepLease
      BY <3>4, SweepsRestart
    <3>5. CASE StartTask
      <4>1. PICK j \in Saver : Due(j, task')
        BY <3>5, StartsPending
      <4>2. task'.of \notin served[j] /\ task'.of \in served'[j]
        BY <3>5, <4>1, StartsPending
      <4>3. QED
        BY <1>1, <4>2
    <3>6. QED
      BY <3>1, <3>2, <3>3, <3>4, <3>5, OthersLeaveSavers
  <2>3. ASSUME NEW k \in Saver, Drafting(k)'
        PROVE  draft'[k].upTo >= task.of.id /\ draft'[k].upTo < nextMsg'
    <3>1. draft[k].upTo \in Nat
      <4>1. k \in Writer /\ draft \in [Writer -> Summary]
        BY ProcessKinds DEF TypeInv, SumTypeOK
      <4>2. QED
        BY <4>1 DEF Summary
    <3>2. CASE proc'[k] = proc[k] /\ draft'[k] = draft[k]
      BY <2>1, <2>3, <3>1, <3>2 DEF TaskInv, DraftsReach, Drafting, At
    <3>3. ASSUME NEW j \in Saver, SaverStep(j)
          PROVE  draft'[k].upTo >= task.of.id /\ draft'[k].upTo < nextMsg'
      <4>1. k # j => proc'[k] = proc[k] /\ draft'[k] = draft[k]
        BY <3>3, ProcessKinds, SaverRows, SaverTasks
      <4>2. CASE k = j
        <5>1. UNCHANGED nextMsg
          BY <3>3, ProcessKinds, SaverRows
        <5>2. QED
          BY <2>3, <3>3, <4>2, <5>1, SaverTasks DEF TaskInv, DraftsReach
      <4>3. QED
        BY <3>2, <4>1, <4>2
    <3>4. CASE StartTask \/ SweepLease
      <4>1. ~Drafting(k)'
        BY <3>4, StartsPending, SweepsRestart
      <4>2. QED
        BY <2>3, <4>1
    <3>5. QED
      BY <3>2, <3>3, <3>4, OthersLeaveSavers
  <2>4. QED
    BY <1>1, <2>1, <2>2, <2>3 DEF TaskInv, DraftsReach
<1>2. CASE StartTask
  <2>1. /\ task'.of \in messages /\ UNCHANGED <<messages, nextMsg>>
        /\ \A m \in messages : m.id < nextMsg
    BY <1>2, StartsPending DEF TypeInv, Numbered
  <2>2. \A k \in Saver : /\ served'[k] \in {served[k], served[k] \union {task'.of}}
                         /\ Due(k, task') => task'.of \in served'[k]
    BY <1>2, StartsPending
  <2>3. TaskKnown' /\ TaskGone'
    BY <2>1, <2>2 DEF TaskInv, TaskKnown, TaskGone
  <2>4. TaskDue'
    <3>1. \A k \in Saver : Due(k, task)' <=> Due(k, task')
      BY DEF Due
    <3>2. \A k \in Saver : Pending(k)' => Due(k, task')
      BY <1>2, StartsPending
    <3>3. QED
      BY <2>2, <3>1, <3>2 DEF TaskDue
  <2>5. DraftsReach'
    BY <1>2, StartsPending DEF DraftsReach
  <2>6. QED
    BY <2>3, <2>4, <2>5 DEF TaskInv
<1>3. QED
  <2>1. ASSUME NEW k \in Saver, SaverStep(k) PROVE UNCHANGED <<task, served>>
    BY <2>1, SaverTasks
  <2>2. SweepLease => UNCHANGED <<task, served>>
    BY SweepsRestart
  <2>3. QED
    BY <1>1, <1>2, <2>1, <2>2, OthersLeaveSavers

\* The row after a step: gone, new, or with the summaries it had, one of which a saver
\* may have replaced.
LEMMA SummariesOfTheRow ==
  ASSUME TypeInv, [Next]_allVars, row' # NoRow, ~outdated'
  PROVE  /\ row' \in Row
         /\ \/ row = NoRow /\ row'.summaries = [k \in Saver |-> NoSummary]
            \/ row \in Row /\ row'.id = row.id /\ row'.summaries = row.summaries
            \/ /\ row \in Row /\ row'.id = row.id
               /\ \E k \in Saver : Save(k) /\ row'.summaries = [row.summaries EXCEPT ![k] = draft[k]]
<1> USE ProcessKinds
<1>1. row \in Row \union {NoRow}
  BY DEF TypeInv, SumTypeOK, TypeOK
<1>2. CASE UNCHANGED row
  BY <1>1, <1>2
<1>3. ASSUME NEW p \in Request, NewRequest(p) \/ RequestStep(p)
      PROVE  \/ UNCHANGED row \/ SameSession
             \/ row = NoRow /\ row' \in Row /\ row'.summaries = [k \in Saver |-> NoSummary]
  BY <1>3, RequestRows DEF RowKept, RowCreated, RowConfigured, RowMarked
<1>4. ASSUME WorkerStep PROVE UNCHANGED row
  BY <1>4 DEF WorkerStep, TakeDeletion, Fetch, Lookup, ReadRow, Fill, EraseMessages, DropSession,
              Invalidate, tables
<1>5. ASSUME NEW k \in Writer, SaverStep(k), ~UNCHANGED row
      PROVE  /\ row \in Row /\ row' \in Row /\ row'.id = row.id /\ k \in Saver /\ Save(k)
             /\ row'.summaries = [row.summaries EXCEPT ![k] = draft[k]]
  <2>1. /\ Save(k) /\ row \in Row /\ row' \in Row /\ row'.id = row.id
        /\ row'.summaries = [Copy(k).summaries EXCEPT ![Kd(k)] = draft[k]]
    BY <1>5, SaverRows
  <2>2. Copy(k).summaries = row.summaries /\ k \notin Straggler
    BY <1>5, <2>1, NoRowAssumption DEF Save
  <2>3. k \in Saver /\ Kd(k) = k
    BY <1>5, <2>2, WriterKinds
  <2>4. QED
    BY <2>1, <2>2, <2>3
<1>6. QED
  BY <1>2, <1>3, <1>4, <1>5 DEF Next, SessionNext, Expire, StartTask, SweepLease, allVars, vars, tables, SameSession

\* A draft is made in one step, of a window that has more than what is there.
LEMMA DraftSteps ==
  ASSUME TypeInv, MessageInv, TaskInv, [Next]_allVars, NEW k \in Saver, Drafting(k)'
  PROVE  \/ Drafting(k) /\ draft'[k] = draft[k]
         \/ /\ Check(k) /\ ~AlreadyCovered(k)
            /\ draft'[k].upTo >= task.of.id /\ draft'[k].upTo < nextMsg
<1>1. CASE proc'[k] = proc[k] /\ draft'[k] = draft[k]
  BY <1>1 DEF Drafting, At
<1>2. ASSUME NEW j \in Saver, SaverStep(j), j # k PROVE proc'[k] = proc[k] /\ draft'[k] = draft[k]
  <2>1. k \in Process \ {j} /\ k \in Writer \ {j} /\ j \in Writer
    BY <1>2, ProcessKinds
  <2>2. proc'[k] = proc[k]
    BY <1>2, <2>1, SaverRows
  <2>3. draft'[k] = draft[k]
    BY <1>2, <2>1, SaverTasks
  <2>4. QED
    BY <2>2, <2>3
<1>3. CASE StartTask \/ SweepLease
  BY <1>3, StartsPending, SweepsRestart
<1>4. ASSUME SaverStep(k) PROVE \/ Drafting(k) /\ draft'[k] = draft[k]
                              \/ /\ Check(k) /\ ~AlreadyCovered(k)
                                 /\ draft'[k].upTo >= task.of.id /\ draft'[k].upTo < nextMsg
  BY <1>4, SaverTasks
<1>5. QED
  BY <1>1, <1>2, <1>3, <1>4, OthersLeaveSavers

LEMMA HistoryStays ==
  ASSUME TypeInv, [Next]_allVars
  PROVE  (outdated => outdated') /\ (gap => gap')
<1>1. ASSUME NEW k \in Writer, SaverStep(k) PROVE (outdated => outdated') /\ (gap => gap')
  <2>1. CASE UNCHANGED sumVars
    BY <2>1, Zenon DEF sumVars
  <2>2. CASE Check(k)
    BY <2>2, Zenon DEF Check
  <2>3. CASE Summarise(k)
    <3>1. outdated => outdated'
      BY <2>3, Zenon DEF Summarise
    <3>2. gap => gap'
      <4>1. gap' = gap \/ gap' = (gap \/ k \in Saver)
        BY <2>3, Zenon DEF Summarise
      <4>2. QED
        BY <4>1, Zenon
    <3>3. QED
      BY <3>1, <3>2
  <2>4. CASE Save(k)
    BY <2>4, Zenon DEF Save
  <2>5. QED
    BY <1>1, <2>1, <2>2, <2>3, <2>4, Zenon DEF SaverStep
<1>2. CASE StartTask
  <2>1. outdated' = outdated /\ \E x : gap' = (gap \/ x)
    BY <1>2, Zenon DEF StartTask
  <2>2. QED
    BY <2>1, Zenon
<1>3. CASE SweepLease
  BY <1>3, Zenon DEF SweepLease
<1>4. CASE UNCHANGED sumVars
  BY <1>4, Zenon DEF sumVars
<1>5. QED
  BY <1>1, <1>2, <1>3, <1>4, Zenon DEF Next, allVars

LEMMA NextAdvance ==
  ASSUME TypeInv, TypeInv', MessageInv, TaskInv, AdvanceInv, [Next]_allVars
  PROVE  AdvanceInv'
<1> SUFFICES ASSUME ~outdated', row' # NoRow, NEW k \in Saver, Drafting(k)'
             PROVE  draft'[k].upTo >= row'.summaries[k].upTo
  BY DEF AdvanceInv
<1>1. ~outdated
  BY HistoryStays
<1>2. draft'[k].upTo \in Nat /\ draft[k].upTo \in Nat
  <2>1. k \in Writer /\ draft \in [Writer -> Summary] /\ draft' \in [Writer -> Summary]
    BY ProcessKinds DEF TypeInv, SumTypeOK
  <2>2. QED
    BY <2>1 DEF Summary
<1>3. CASE Drafting(k) /\ draft'[k] = draft[k]
  <2>1. CASE row = NoRow /\ row'.summaries = [j \in Saver |-> NoSummary]
    BY <1>2, <2>1 DEF NoSummary
  <2>2. CASE row \in Row /\ row'.summaries = row.summaries
    BY <1>1, <1>3, <2>2, NoRowAssumption DEF AdvanceInv
  <2>3. ASSUME row \in Row, NEW j \in Saver, row'.summaries = [row.summaries EXCEPT ![j] = draft[j]]
        PROVE  draft'[k].upTo >= row'.summaries[k].upTo
    <3>1. row.summaries \in [Saver -> Summary] /\ row # NoRow
      BY <2>3, NoRowAssumption DEF Row
    <3>2. CASE j = k
      BY <1>2, <1>3, <2>3, <3>1, <3>2
    <3>3. CASE j # k
      BY <1>1, <1>3, <2>3, <3>1, <3>3 DEF AdvanceInv
    <3>4. QED
      BY <3>2, <3>3
  <2>4. QED
    BY <2>1, <2>2, <2>3, SummariesOfTheRow
<1>4. CASE Check(k) /\ ~AlreadyCovered(k) /\ draft'[k].upTo >= task.of.id
  <2>1. UNCHANGED row /\ Latest(k) = Current(k)
    BY <1>4, ProcessKinds DEF Check, tables
  <2>2. Latest(k).upTo < task.of.id /\ Latest(k).upTo \in Nat /\ task.of.id \in Nat
    <3>1. Copy(k) \in Row \union {NoRow} /\ task.of.id \in Nat
      BY ProcessKinds, EntryType DEF Copy, TypeInv, SumTypeOK, Task, Message, NoTask, Number
    <3>2. Latest(k).upTo \in Nat
      BY <3>1, ProcessKinds, WriterKinds DEF Latest, Row, NoSummary, Summary
    <3>3. QED
      BY <1>4, <3>1, <3>2, WriterKinds DEF AlreadyCovered
  <2>3. row'.summaries[k] = Latest(k)
    BY <2>1, WriterKinds DEF Current
  <2>4. QED
    BY <1>2, <1>4, <2>2, <2>3
<1>5. QED
  BY <1>3, <1>4, DraftSteps

LEMMA Tasks == Spec => [](TypeInv /\ NumberInv /\ MessageInv /\ TaskInv /\ AdvanceInv)
<1>1. SumInit => TaskInv /\ AdvanceInv
  BY ProcessKinds DEF SumInit, Init, Resting, AnyTask, NoTask, TaskInv, TaskKnown, TaskGone, TaskDue,
                      DraftsReach, AdvanceInv, Pending, Drafting, Busy, At, Fetching
<1>2. TypeInv /\ NumberInv /\ MessageInv /\ TaskInv /\ [Next]_allVars => TaskInv'
  BY NextTasks
<1>3. TypeInv /\ TypeInv' /\ MessageInv /\ TaskInv /\ AdvanceInv /\ [Next]_allVars => AdvanceInv'
  BY NextAdvance
<1>4. QED
  BY <1>1, <1>2, <1>3, Conversations, PTL DEF Spec

LEMMA RowAdvances ==
  ASSUME TypeInv, TypeInv', TaskInv, AdvanceInv, [Next]_allVars, NEW k \in Saver,
         row # NoRow, row' # NoRow, row'.id = row.id, ~outdated'
  PROVE  row'.summaries[k].upTo >= row.summaries[k].upTo
<1>1. row \in Row /\ row.summaries \in [Saver -> Summary] /\ row.summaries[k].upTo \in Nat
  BY DEF TypeInv, SumTypeOK, TypeOK, Row, Summary
<1>2. ASSUME NEW j \in Saver, Save(j), row'.summaries = [row.summaries EXCEPT ![j] = draft[j]]
      PROVE  row'.summaries[k].upTo >= row.summaries[k].upTo
  <2>1. Drafting(j) /\ ~outdated
    BY <1>2, HistoryStays DEF Save, Making, Drafting, At, Fetching
  <2>2. CASE j = k
    BY <1>1, <1>2, <2>1, <2>2 DEF AdvanceInv
  <2>3. CASE j # k
    BY <1>1, <1>2, <2>3
  <2>4. QED
    BY <2>2, <2>3
<1>3. CASE row'.summaries = row.summaries
  BY <1>1, <1>3
<1>4. QED
  BY <1>2, <1>3, SummariesOfTheRow

\* No saved summary goes back to fewer messages, and that of one kind does not undo that
\* of the other, unless a saver worked with a copy of the session that had other
\* summaries than its row, or a task saved after its lease was swept: what is saved was
\* made for a later message than what it replaces, whatever the intervals were, whatever
\* tasks were taken twice, and also when their messages were deleted and numbered anew.
THEOREM SummariesGrow == Spec => SummariesAdvance
<1>1. TypeInv /\ TypeInv' /\ TaskInv /\ AdvanceInv /\ [Next]_allVars
        => [\A k \in Saver : row # NoRow /\ row' # NoRow /\ row'.id = row.id /\ ~outdated'
               => row'.summaries[k].upTo >= row.summaries[k].upTo]_allVars
  BY RowAdvances
<1>2. QED
  BY <1>1, Tasks, PTL DEF Spec, SummariesAdvance
-----------------------------------------------------------------------------
(* Copies of the row, of any age. *)

\* Where the copies of the next state come from.
Source(c) == \/ c \in {NoRow, row, row'}
             \/ \E q \in Process : c = proc[q].snap
             \/ \E x \in Cache : c = cache[x]

LEMMA Entering ==
  ASSUME TypeInv, NEW p \in Process
  PROVE  /\ \A copy \in Row \union {NoRow} :
              Enter(p, copy) => \A x \in Cache : cache'[x] \in {copy, cache[x]}
         /\ \E x \in Cache : Entry(p) = cache[x]
BY DEF TypeInv, SumTypeOK, TypeOK, Enter, Entry, Home, Cache

LEMMA FetchCopies ==
  ASSUME TypeInv, NEW p \in Process, Fetch(p) \/ Invalidate(p)
  PROVE  Source(proc'[p].snap) /\ \A x \in Cache : Source(cache'[x])
<1> USE DEF MovesTo, Ends, Step
<1>1. /\ TypeOK /\ proc[p].snap \in Row \union {NoRow} /\ Source(proc[p].snap) /\ Source(NoRow)
      /\ Source(row) /\ \A x \in Cache : Source(cache[x])
  BY EntryType DEF TypeInv, SumTypeOK, Source
<1>2. CASE Lookup(p)
  BY <1>1, <1>2, EntryType, Entering, Moves DEF Lookup
<1>3. CASE ReadRow(p)
  BY <1>1, <1>3, Moves DEF ReadRow, TypeOK
<1>4. CASE Fill(p)
  <2>1. MovesTo(p, "use", proc[p].snap)
    BY <1>1, <1>4, Moves DEF Fill
  <2>2. Enter(p, proc[p].snap) \/ UNCHANGED cache
    BY <1>4 DEF Fill
  <2>3. QED
    BY <1>1, <2>1, <2>2, Entering
<1>5. CASE Invalidate(p)
  <2>1. Ends(p) /\ (Enter(p, NoRow) \/ UNCHANGED cache)
    BY <1>1, <1>5, Moves DEF Invalidate
  <2>2. QED
    BY <1>1, <2>1, Entering
<1>6. QED
  BY <1>2, <1>3, <1>4, <1>5 DEF Fetch

LEMMA RequestCopies ==
  ASSUME TypeInv, NEW p \in Request, RequestStep(p) \/ NewRequest(p)
  PROVE  Source(proc'[p].snap) /\ \A x \in Cache : Source(cache'[x])
<1> USE ProcessKinds DEF MovesTo, Ends, Step
<1>1. /\ p \in Process /\ TypeOK /\ proc[p].snap \in Row \union {NoRow} /\ proc[p].adds \subseteq Key
      /\ Source(proc[p].snap) /\ Source(NoRow)
      /\ Source(row) /\ Source(row') /\ \A x \in Cache : Source(cache[x])
  BY EntryType DEF TypeInv, SumTypeOK, Source
<1>2. CASE Fetch(p) \/ Invalidate(p)
  BY <1>1, <1>2, FetchCopies
<1>3. CASE Store(p)
  <2>1. MovesTo(p, Continue(p), proc[p].snap) \/ Ends(p)
    BY <1>1, <1>3, StoreMoves
  <2>2. Enter(p, proc[p].snap) \/ UNCHANGED cache
    BY <1>3 DEF Store
  <2>3. QED
    BY <1>1, <2>1, <2>2, Entering
<1>4. CASE RejectInactive(p) \/ Refresh(p) \/ RefreshNew(p) \/ RefreshMerged(p)
  <2>1. UNCHANGED cache
    BY <1>4 DEF RejectInactive, Refresh, RefreshNew, RefreshMerged, RefreshChanged
  <2>2. proc'[p].snap \in {NoRow, row}
    BY <1>1, <1>4, Moves, ContinueType DEF RejectInactive, Refresh, RefreshNew, RefreshMerged,
                                           RefreshChanged, TypeOK
  <2>3. QED
    BY <1>1, <2>1, <2>2
<1>5. CASE NewRequest(p)
  <2>1. PICK kind \in Kind, adds \in SUBSET Key : Begin(p, kind, adds)
    BY <1>5 DEF NewRequest, Kind
  <2>2. proc'[p].snap = NoRow /\ UNCHANGED cache
    BY <1>1, <2>1 DEF Begin, Asked, Resting, TypeOK
  <2>3. QED
    BY <1>1, <2>2
<1>6. CASE CreateRow(p)
  <2>1. UNCHANGED cache
    BY <1>6 DEF CreateRow
  <2>2. proc'[p].snap \in {NoRow, row', proc[p].snap}
    BY <1>1, <1>6 DEF CreateRow, GotoWith, Finish, Resting, TypeOK, Local
  <2>3. QED
    BY <1>1, <2>1, <2>2
<1>7. CASE UseExisting(p) \/ Merge(p) \/ MarkDeleted(p)
  <2>1. UNCHANGED cache
    BY <1>7 DEF UseExisting, Merge, MarkDeleted
  <2>2. proc'[p].snap \in {NoRow, proc[p].snap}
    BY <1>1, <1>7 DEF UseExisting, Merge, MarkDeleted, WriteConfig, Goto, Finish, Resting, TypeOK, Local
  <2>3. QED
    BY <1>1, <2>1, <2>2
<1>8. CASE AcquireLock(p) \/ ReadLastSeq(p) \/ InsertMessages(p)
  <2>1. UNCHANGED cache
    BY <1>8 DEF AcquireLock, ReadLastSeq, InsertMessages
  <2>2. proc'[p].snap \in {NoRow, proc[p].snap}
    BY <1>1, <1>8 DEF AcquireLock, ReadLastSeq, InsertMessages, Goto, Finish, Resting, TypeOK, Local
  <2>3. QED
    BY <1>1, <2>1, <2>2
<1>9. QED
  BY <1>2, <1>3, <1>4, <1>5, <1>6, <1>7, <1>8 DEF RequestStep

LEMMA CopiesAreCopied ==
  ASSUME TypeInv, [Next]_allVars
  PROVE  (\A q \in Process : Source(proc'[q].snap)) /\ \A x \in Cache : Source(cache'[x])
<1> USE ProcessKinds
<1>1. /\ TypeOK /\ Source(NoRow)
      /\ \A q \in Process : Source(proc[q].snap) /\ \A x \in Cache : Source(cache[x])
  BY DEF TypeInv, SumTypeOK, Source
<1>2. ASSUME NEW p \in Request, NewRequest(p) \/ RequestStep(p)
      PROVE  (\A q \in Process : Source(proc'[q].snap)) /\ \A x \in Cache : Source(cache'[x])
  <2>1. \A q \in Process \ {p} : proc'[q] = proc[q]
    BY <1>2, RequestRows
  <2>2. Source(proc'[p].snap) /\ \A x \in Cache : Source(cache'[x])
    BY <1>2, RequestCopies
  <2>3. QED
    BY <1>1, <2>1, <2>2
<1>3. CASE WorkerStep
  <2>1. \A q \in Process \ {Worker} : proc'[q] = proc[q]
    BY <1>1, <1>3 DEF WorkerStep, TakeDeletion, Fetch, Lookup, ReadRow, Fill, EraseMessages,
                DropSession, Invalidate, Goto, GotoWith, Finish, TypeOK
  <2>2. CASE Fetch(Worker) \/ Invalidate(Worker)
    <3>1. Source(proc'[Worker].snap) /\ \A x \in Cache : Source(cache'[x])
      BY <2>2, FetchCopies
    <3>2. QED
      BY <1>1, <2>1, <3>1
  <2>3. CASE TakeDeletion \/ EraseMessages \/ DropSession
    <3>1. UNCHANGED cache
      BY <2>3 DEF TakeDeletion, EraseMessages, DropSession
    <3>2. proc'[Worker].snap \in {NoRow, proc[Worker].snap}
      <4>1. CASE TakeDeletion
        BY <1>1, <4>1 DEF TakeDeletion, Asked, Resting, TypeOK
      <4>2. CASE EraseMessages
        BY <1>1, <4>2 DEF EraseMessages, Finish, Resting, TypeOK, Local
      <4>3. CASE DropSession
        BY <1>1, <4>3, Moves DEF DropSession, MovesTo, Ends, Step
      <4>4. QED
        BY <2>3, <4>1, <4>2, <4>3
    <3>3. QED
      BY <1>1, <2>1, <3>1, <3>2
  <2>4. QED
    BY <1>3, <2>2, <2>3 DEF WorkerStep
<1>4. ASSUME NEW k \in Writer, SaverStep(k)
      PROVE  (\A q \in Process : Source(proc'[q].snap)) /\ \A x \in Cache : Source(cache'[x])
  <2>1. \A q \in Process \ {k} : proc'[q] = proc[q]
    BY <1>4, SaverRows
  <2>2. CASE Fetch(k) \/ Invalidate(k)
    <3>1. Source(proc'[k].snap) /\ \A x \in Cache : Source(cache'[x])
      BY <2>2, FetchCopies
    <3>2. QED
      BY <1>1, <2>1, <3>1
  <2>3. CASE Check(k) \/ Summarise(k) \/ Save(k)
    <3>1. UNCHANGED cache
      BY <2>3 DEF Check, Summarise, Save
    <3>2. proc'[k].snap \in {NoRow, proc[k].snap}
      <4>1. CASE Check(k)
        BY <1>1, <4>1, Moves DEF Check, MovesTo, Ends, Step
      <4>2. CASE Summarise(k)
        <5>1. Asked("save", {}).snap = NoRow
          BY DEF Asked, Resting
        <5>2. proc' = [proc EXCEPT ![k] = Asked("save", {})] \/ Finish(k)
          BY <4>2 DEF Summarise
        <5>3. QED
          BY <1>1, <5>1, <5>2, Finishes DEF Ends, TypeOK
      <4>3. CASE Save(k)
        BY <1>1, <4>3, Moves DEF Save, MovesTo, Ends, Step
      <4>4. QED
        BY <2>3, <4>1, <4>2, <4>3
    <3>3. QED
      BY <1>1, <2>1, <3>1, <3>2
  <2>4. QED
    BY <1>4, <2>2, <2>3 DEF SaverStep
<1>5. CASE StartTask
  <2>1. UNCHANGED cache /\ \A q \in Process : proc'[q] = proc[q] \/ proc'[q].snap = NoRow
    BY <1>5 DEF StartTask, Asked, Resting
  <2>2. QED
    BY <1>1, <2>1
<1>9. CASE SweepLease
  <2>1. UNCHANGED cache /\ \A j \in Straggler : KindOf[j] \in Process
    BY <1>9, SummariesAssumption DEF SweepLease
  <2>2. \A q \in Process : proc'[q].snap = NoRow \/ \E o \in Process : proc'[q] = proc[o]
    BY <1>9, <2>1 DEF SweepLease, Asked, Resting
  <2>3. QED
    BY <1>1, <2>1, <2>2
<1>6. ASSUME NEW c \in Cache, Expire(c)
      PROVE  (\A q \in Process : Source(proc'[q].snap)) /\ \A x \in Cache : Source(cache'[x])
  <2>1. UNCHANGED proc /\ \A x \in Cache : cache'[x] \in {NoRow, cache[x]}
    BY <1>1, <1>6 DEF Expire, TypeOK
  <2>2. QED
    BY <1>1, <2>1
<1>7. CASE UNCHANGED allVars
  BY <1>1, <1>7 DEF allVars, vars
<1>8. QED
  BY <1>2, <1>3, <1>4, <1>5, <1>6, <1>7, <1>9 DEF Next, SessionNext

\* Primary keys of sessions are used once.
LEMMA NewIds ==
  ASSUME TypeInv, [Next]_allVars
  PROVE  /\ nextId' >= nextId /\ (row # NoRow /\ row' # NoRow => row'.id = row.id)
         /\ row = NoRow /\ row' # NoRow => row'.id = nextId /\ nextId' = nextId + 1
<1>1. nextId \in Nat /\ nextId + 1 > nextId
  BY DEF TypeInv, SumTypeOK, TypeOK, Number
<1>2. ASSUME NEW p \in Request, CreateRow(p), row = NoRow PROVE row'.id = nextId /\ nextId' = nextId + 1
  BY <1>2 DEF CreateRow
<1>3. ASSUME NEW p \in Request, RequestStep(p) \/ NewRequest(p), ~(CreateRow(p) /\ row = NoRow)
      PROVE  UNCHANGED nextId /\ (row = NoRow => row' = NoRow)
  BY <1>3 DEF RequestStep, NewRequest, Begin, Fetch, Lookup, ReadRow, Fill, CreateRow, RejectInactive,
     UseExisting, WriteConfig, SameRow, Refresh, RefreshNew, RefreshMerged, RefreshChanged, Store, Merge,
     AcquireLock, ReadLastSeq, InsertMessages, MarkDeleted, Invalidate, tables
<1>4. ASSUME NEW p \in Request, RequestStep(p) \/ NewRequest(p), row # NoRow, row' # NoRow
      PROVE  row'.id = row.id
  BY <1>4, RequestRows DEF RowKept, RowCreated, RowConfigured, RowMarked, SameSession
<1>5. ASSUME WorkerStep PROVE UNCHANGED nextId /\ (row' # NoRow => row' = row)
  BY <1>5 DEF WorkerStep, TakeDeletion, Fetch, Lookup, ReadRow, Fill, EraseMessages, DropSession,
     Invalidate, tables
<1>6. ASSUME NEW k \in Writer, SaverStep(k)
      PROVE  UNCHANGED nextId /\ (row' # NoRow => row # NoRow /\ row'.id = row.id)
  <2>1. UNCHANGED nextId
    BY <1>6 DEF SaverStep, Fetch, Lookup, ReadRow, Fill, Invalidate, Check, Summarise, Save, tables
  <2>2. QED
    BY <1>6, <2>1, SaverRows, NoRowAssumption
<1>7. ASSUME StartTask \/ SweepLease \/ (\E c \in Cache : Expire(c)) \/ UNCHANGED allVars
      PROVE  UNCHANGED <<row, nextId>>
  BY <1>7 DEF StartTask, SweepLease, Expire, allVars, vars, tables
<1>8. QED
  BY <1>1, <1>2, <1>3, <1>4, <1>5, <1>6, <1>7 DEF Next, SessionNext

\* A message that was not there before has a new key, and a number after all others.
LEMMA NewIsNew ==
  ASSUME TypeInv, NumberInv, [Next]_allVars
  PROVE  /\ nextMsg' >= nextMsg
         /\ \A m \in messages' \ messages :
              m.id >= nextMsg /\ \A n \in messages : n.seq < m.seq
<1>1. nextMsg \in Nat /\ Batch \in Nat /\ messages \subseteq Message
  BY SessionsAssumption DEF TypeInv, SumTypeOK, TypeOK, Number
<1>2. ASSUME NEW p \in Request, MessagesAdded(p)
      PROVE  /\ nextMsg' >= nextMsg
             /\ \A m \in messages' \ messages :
                  m.id >= nextMsg /\ \A n \in messages : n.seq < m.seq
  <2>1. p \in Process /\ messages \subseteq proc[p].seen
    BY <1>2, ProcessKinds DEF MessagesAdded, At, NumberInv
  <2>2. /\ LastSeq(p) \in Nat /\ \A n \in messages : n.seq <= LastSeq(p)
        /\ NewMessages(p) \subseteq Message
        /\ \A m \in NewMessages(p) : m.id >= nextMsg /\ m.seq > LastSeq(p)
    BY <2>1, LastSeqIsLast, NewMessagesType
  <2>3. QED
    BY <1>1, <1>2, <2>2 DEF MessagesAdded, Message, Number
<1>3. QED
  BY <1>1, <1>2, MessageSteps DEF MessagesKept, MessagesDropped

\* A copy has no summary that its session does not have any more; and that of an earlier
\* session none of a message that is there.
CopyOK(c) ==
  c # NoRow => /\ c.id < nextId
               /\ \A k \in Saver :
                    /\ c.summaries[k].upTo < nextMsg
                    /\ row # NoRow /\ c.id = row.id => c.summaries[k].upTo <= row.summaries[k].upTo
                    /\ ~(row # NoRow /\ c.id = row.id) =>
                         \A m \in messages : c.summaries[k].upTo < m.id
CopyInv ==
  ~outdated => /\ CopyOK(row)
               /\ \A q \in Process : CopyOK(proc[q].snap)
               /\ \A x \in Cache : CopyOK(cache[x])

LEMMA OldCopies ==
  ASSUME TypeInv, TypeInv', NumberInv, MessageInv', TaskInv, AdvanceInv, [Next]_allVars,
         ~outdated', NEW c \in Row, CopyOK(c)
  PROVE  CopyOK(c)'
<1>1. /\ nextId \in Nat /\ nextId' \in Nat /\ nextMsg \in Nat /\ nextMsg' \in Nat
      /\ c.id \in Nat /\ c # NoRow /\ row \in Row \union {NoRow} /\ row' \in Row \union {NoRow}
      /\ \A m \in messages' : m.id \in Nat
  BY NoRowAssumption DEF TypeInv, SumTypeOK, TypeOK, Row, Number, Message
<1>2. c.id < nextId'
  BY <1>1, NewIds DEF CopyOK
<1>3. ASSUME NEW k \in Saver
      PROVE  /\ c.summaries[k].upTo < nextMsg'
             /\ row' # NoRow /\ c.id = row'.id => c.summaries[k].upTo <= row'.summaries[k].upTo
             /\ ~(row' # NoRow /\ c.id = row'.id) => \A m \in messages' : c.summaries[k].upTo < m.id
  <2>1. c.summaries[k].upTo \in Nat
    BY <1>3 DEF Row, Summary
  <2>2. c.summaries[k].upTo < nextMsg'
    BY <1>1, <1>3, <2>1, NewIsNew DEF CopyOK
  <2>3. CASE row' # NoRow /\ c.id = row'.id
    <3>1. row # NoRow /\ row'.id = row.id
      BY <1>1, <2>3, NewIds DEF CopyOK
    <3>2. row \in Row /\ row' \in Row
      BY <1>1, <2>3, <3>1
    <3>3. row.summaries[k].upTo \in Nat /\ row'.summaries[k].upTo \in Nat
      BY <3>2 DEF Row, Summary
    <3>4. row'.summaries[k].upTo >= row.summaries[k].upTo
      BY <2>3, <3>1, RowAdvances
    <3>5. c.summaries[k].upTo <= row.summaries[k].upTo
      BY <1>1, <2>3, <3>1 DEF CopyOK
    <3>6. QED
      BY <2>1, <2>2, <2>3, <3>3, <3>4, <3>5
  <2>4. CASE ~(row' # NoRow /\ c.id = row'.id)
    <3>1. ASSUME NEW m \in messages', m \notin messages PROVE c.summaries[k].upTo < m.id
      BY <1>1, <2>1, <3>1, NewIsNew DEF CopyOK
    <3>2. ASSUME NEW m \in messages', m \in messages PROVE c.summaries[k].upTo < m.id
      <4>1. row' # NoRow
        BY <3>2 DEF MessageInv, Owned
      <4>2. ~(row # NoRow /\ c.id = row.id)
        BY <2>4, <4>1, NewIds
      <4>3. QED
        BY <1>1, <3>2, <4>2 DEF CopyOK
    <3>3. QED
      BY <2>2, <2>4, <3>1, <3>2
  <2>5. QED
    BY <2>3, <2>4
<1>4. QED
  BY <1>2, <1>3 DEF CopyOK

LEMMA RowIsACopy ==
  ASSUME TypeInv, TypeInv', TaskInv, [Next]_allVars, ~outdated', CopyOK(row), NumberInv
  PROVE  CopyOK(row)'
<1> SUFFICES ASSUME row' # NoRow
             PROVE  row'.id < nextId' /\ \A k \in Saver : row'.summaries[k].upTo < nextMsg'
  <2>1. row' # NoRow => \A k \in Saver : row'.summaries[k].upTo \in Nat
    BY DEF TypeInv, SumTypeOK, TypeOK, Row, Summary
  <2>2. QED
    BY <2>1 DEF CopyOK
<1>1. /\ nextId \in Nat /\ nextId' \in Nat /\ nextMsg \in Nat /\ nextMsg' \in Nat /\ nextMsg' > 0
      /\ row \in Row \union {NoRow}
  BY DEF TypeInv, SumTypeOK, TypeOK, Number
<1>2. row'.id < nextId'
  <2>1. CASE row = NoRow
    BY <1>1, <2>1, NewIds
  <2>2. CASE row # NoRow
    <3>1. row.id \in Nat /\ row.id < nextId
      BY <1>1, <2>2 DEF CopyOK, Row, Number
    <3>2. QED
      BY <1>1, <2>2, <3>1, NewIds
  <2>3. QED
    BY <2>1, <2>2
<1>3. ASSUME NEW k \in Saver PROVE row'.summaries[k].upTo < nextMsg'
  <2>1. CASE row'.summaries = [j \in Saver |-> NoSummary]
    BY <1>1, <2>1 DEF NoSummary
  <2>2. ASSUME row \in Row PROVE row.summaries[k].upTo < nextMsg'
    <3>1. row.summaries[k].upTo \in Nat /\ row.summaries[k].upTo < nextMsg
      BY <2>2, NoRowAssumption DEF CopyOK, Row, Summary
    <3>2. QED
      BY <1>1, <3>1, NewIsNew
  <2>3. ASSUME NEW j \in Saver, Save(j) PROVE draft[j].upTo < nextMsg'
    <3>1. Drafting(j) /\ draft[j].upTo \in Nat
      BY <2>3 DEF Save, Making, Drafting, At, Fetching, TypeInv, SumTypeOK, Summary
    <3>2. QED
      BY <1>1, <3>1, NewIsNew DEF TaskInv, DraftsReach
  <2>4. ASSUME NEW j \in Saver, Save(j), row \in Row, row'.summaries = [row.summaries EXCEPT ![j] = draft[j]]
        PROVE  row'.summaries[k].upTo < nextMsg'
    <3>1. row.summaries \in [Saver -> Summary]
      BY <2>4 DEF Row
    <3>2. row'.summaries[k] = IF k = j THEN draft[j] ELSE row.summaries[k]
      BY <2>4, <3>1
    <3>3. QED
      BY <2>2, <2>3, <2>4, <3>2
  <2>5. QED
    BY <2>1, <2>2, <2>4, SummariesOfTheRow
<1>4. QED
  BY <1>2, <1>3

LEMMA NextCopies ==
  ASSUME TypeInv, TypeInv', NumberInv, MessageInv', TaskInv, AdvanceInv, CopyInv, [Next]_allVars
  PROVE  CopyInv'
<1> SUFFICES ASSUME ~outdated'
             PROVE  /\ CopyOK(row)'
                    /\ \A q \in Process : CopyOK(proc[q].snap)'
                    /\ \A x \in Cache : CopyOK(cache[x])'
  BY DEF CopyInv
<1>1. ~outdated
  BY HistoryStays
<1>2. CopyOK(row)'
  BY <1>1, RowIsACopy DEF CopyInv
<1>3. ASSUME NEW c, c \in Row \union {NoRow}, Source(c)
      PROVE  c # NoRow => /\ c.id < nextId'
               /\ \A k \in Saver :
                    /\ c.summaries[k].upTo < nextMsg'
                    /\ row' # NoRow /\ c.id = row'.id => c.summaries[k].upTo <= row'.summaries[k].upTo
                    /\ ~(row' # NoRow /\ c.id = row'.id) =>
                         \A m \in messages' : c.summaries[k].upTo < m.id
  <2>1. CASE c = NoRow
    BY <2>1
  <2>2. CASE c # NoRow /\ c = row'
    BY <1>2, <2>2 DEF CopyOK
  <2>3. CASE c # NoRow /\ c # row'
    <3>1. c \in Row /\ CopyOK(c)
      BY <1>1, <1>3, <2>3 DEF CopyInv, Source
    <3>2. CopyOK(c)'
      BY <3>1, OldCopies
    <3>3. QED
      BY <3>2 DEF CopyOK
  <2>4. QED
    BY <2>1, <2>2, <2>3
<1>4. ASSUME NEW q \in Process PROVE CopyOK(proc[q].snap)'
  <2>1. proc'[q].snap \in Row \union {NoRow}
    BY DEF TypeInv, SumTypeOK, TypeOK, Local
  <2>2. Source(proc'[q].snap)
    BY CopiesAreCopied
  <2>3. QED
    BY <1>3, <2>1, <2>2 DEF CopyOK
<1>5. ASSUME NEW x \in Cache PROVE CopyOK(cache[x])'
  <2>1. cache'[x] \in Row \union {NoRow}
    BY DEF TypeInv, SumTypeOK, TypeOK
  <2>2. Source(cache'[x])
    BY CopiesAreCopied
  <2>3. QED
    BY <1>3, <2>1, <2>2 DEF CopyOK
<1>6. QED
  BY <1>2, <1>4, <1>5
-----------------------------------------------------------------------------
(* The windows join. *)

\* Nothing up to the last message of a summary is missing from it.
Covers(s) == \A m \in messages : m.id <= s.upTo => m.id \in s.covers

\* WindowsJoin made inductive: drafts and stored summaries are without a hole, every message
\* whose row has been taken is summarised or being summarised, and rows are taken in order.
DraftsCover    == \A k \in Saver : Drafting(k) => Covers(draft[k])
RowCovers      == row # NoRow => \A k \in Saver : Covers(row.summaries[k])
ServedAreIn    == \A k \in Saver : \A n \in messages \intersect served[k] :
                    (n = task.of /\ Pending(k)) \/ row.summaries[k].upTo >= n.id
ServedInOrder  == task.of \in messages =>
                    \A k \in Saver : Due(k, task) =>
                      \A n \in messages : n.seq = task.of.seq - task.per[k] => n \in served[k]
JoinInv == ~outdated /\ ~gap => DraftsCover /\ RowCovers /\ ServedAreIn /\ ServedInOrder

LEMMA StillCovers ==
  ASSUME TypeInv, NumberInv, [Next]_allVars, NEW s \in Summary, Covers(s), s.upTo < nextMsg
  PROVE  Covers(s)'
<1>1. nextMsg \in Nat /\ s.upTo \in Nat
  BY DEF TypeInv, SumTypeOK, TypeOK, Summary, Number
<1>2. ASSUME NEW m \in messages', m \notin messages PROVE ~(m.id <= s.upTo)
  <2>1. m.id >= nextMsg
    BY <1>2, NewIsNew
  <2>2. m.id \in Nat
    <3>1. \A p \in Request : NewMessages(p) \subseteq Message
      BY ProcessKinds, NewMessagesType
    <3>2. m \in Message
      BY <1>2, <3>1, MessageSteps DEF MessagesKept, MessagesAdded, MessagesDropped
    <3>3. QED
      BY <3>2 DEF Message, Number
  <2>3. QED
    BY <1>1, <2>1, <2>2
<1>3. QED
  BY <1>2 DEF Covers

\* The summary made of a window, and of the one before it, has no hole.
LEMMA WindowCovers ==
  ASSUME TypeInv, MessageInv, TaskInv, JoinInv, NEW k \in Saver,
         Check(k), ~AlreadyCovered(k), ~outdated', ~gap'
  PROVE  \A m \in messages : m.id <= draft'[k].upTo => m.id \in draft'[k].covers
<1>1. ~outdated /\ ~gap /\ task.of \in messages /\ Latest(k) = Current(k)
      /\ draft' = [draft EXCEPT ![k] = [upTo |-> LastOf(LastMessages(k)),
                     covers |-> Latest(k).covers \union {m.id : m \in LastMessages(k)}]]
  BY ProcessKinds DEF Check
<1>2. Pending(k) /\ Due(k, task) /\ row # NoRow
  <2>1. Pending(k)
    BY DEF Check, Making, Pending, At, Fetching
  <2>2. row # NoRow
    BY <1>1 DEF MessageInv, Owned
  <2>3. QED
    BY <2>1, <2>2, PendingIsServed DEF TaskInv
<1>3. /\ messages \subseteq Message /\ task.of.seq \in Nat /\ task.of.id \in Nat /\ task.per[k] \in Nat \ {0}
      /\ draft \in [Writer -> Summary] /\ row \in Row
  BY <1>1, <1>2 DEF TypeInv, SumTypeOK, TypeOK, Task, Message, Number
<1>4. LastOf(LastMessages(k)) = task.of.id
  BY <1>1, <1>3, WindowReaches DEF AlreadyCovered, TaskInv
<1>5. /\ draft'[k].upTo = task.of.id
      /\ draft'[k].covers = row.summaries[k].covers \union {m.id : m \in LastMessages(k)}
  BY <1>1, <1>2, <1>3, <1>4, ProcessKinds, WriterKinds DEF Current
<1>6. SUFFICES ASSUME NEW m \in messages, m.id <= task.of.id, m \notin LastMessages(k)
               PROVE  m.id \in row.summaries[k].covers
  BY <1>5
<1>7. m.id \in Nat /\ m.seq \in Nat /\ m.seq >= 1 /\ m.seq <= task.of.seq
  BY <1>1, <1>3, <1>6 DEF Message, Number, MessageInv, Ordered
<1>8. m.seq <= task.of.seq - task.per[k]
  BY <1>3, <1>6, <1>7, WriterKinds DEF LastMessages, Window
<1>9. PICK n \in messages : n.seq = task.of.seq - task.per[k]
  <2>1. task.of.seq - task.per[k] \in m.seq..task.of.seq
    BY <1>3, <1>7, <1>8
  <2>2. QED
    BY <1>1, <2>1 DEF MessageInv, Contiguous
<1>10. m.id <= n.id /\ n.id \in Nat /\ n # task.of
  <2>1. m.seq <= n.seq /\ n.seq # task.of.seq
    BY <1>3, <1>7, <1>8, <1>9
  <2>2. QED
    BY <1>3, <2>1 DEF MessageInv, Ordered, Message, Number
<1>11. n \in served[k]
  BY <1>1, <1>2, <1>9 DEF JoinInv, ServedInOrder
<1>12. row.summaries[k].upTo >= n.id
  BY <1>1, <1>10, <1>11 DEF JoinInv, ServedAreIn
<1>13. m.id <= row.summaries[k].upTo
  <2>1. row.summaries[k].upTo \in Nat
    BY <1>3 DEF Row, Summary
  <2>2. QED
    BY <1>7, <1>10, <1>12, <2>1
<1>14. QED
  BY <1>1, <1>2, <1>13 DEF JoinInv, RowCovers, Covers

\* A saver is done with a task when the summary was there already, or is now saved.
LEMMA PendingEnds ==
  ASSUME TypeInv, TaskInv, [Next]_allVars, UNCHANGED task, ~gap',
         NEW k \in Saver, Pending(k), ~Pending(k)'
  PROVE  (Check(k) /\ AlreadyCovered(k)) \/ (Save(k) /\ Copy(k) # NoRow /\ Copy(k).active)
<1> USE ProcessKinds
<1>1. proc'[k] # proc[k]
  BY DEF Pending, Drafting, At
<1>2. ~StartTask /\ ~SweepLease
  <2>1. ~StartTask
    BY StartsPending
  <2>2. Due(k, task)
    BY PendingIsServed DEF TaskInv
  <2>3. QED
    BY <2>1, <2>2, SweepsRestart
<1>3. SaverStep(k)
  <2>1. ASSUME NEW j \in Saver, SaverStep(j), j # k PROVE proc'[k] = proc[k]
    <3>1. j \in Writer /\ k \in Process
      BY ProcessKinds
    <3>2. QED
      BY <2>1, <3>1, SaverRows
  <2>2. QED
    BY <1>1, <1>2, <2>1, OthersLeaveSavers
<1>4. TypeOK /\ k \in Process /\ proc[k].snap \in Row \union {NoRow}
  BY EntryType DEF TypeInv, SumTypeOK
<1>5. CASE Fetch(k)
  <2>1. proc[k].pc \in Fetching /\ proc'[k].pc \in Fetching /\ proc'[k].kind = proc[k].kind
    BY <1>4, <1>5, EntryType, Moves DEF Fetch, Lookup, ReadRow, Fill, At, TypeOK, Fetching, MovesTo, Step
  <2>2. QED
    BY <2>1 DEF Pending, Drafting, At, Fetching
<1>6. CASE Invalidate(k)
  BY <1>6 DEF Invalidate, Pending, Drafting, At, Fetching
<1>7. CASE Check(k)
  <2>1. CASE Goto(k, "llm")
    <3>1. proc'[k].pc = "llm"
      BY <1>4, <2>1, Moves DEF MovesTo, Step
    <3>2. QED
      BY <3>1 DEF Pending, Drafting, At
  <2>2. QED
    BY <1>7, <2>1 DEF Check
<1>8. CASE Summarise(k)
  <2>1. proc' = [proc EXCEPT ![k] = Asked("save", {})]
    BY <1>8 DEF Summarise
  <2>2. proc'[k].pc = "lookup" /\ proc'[k].kind = "save"
    BY <1>4, <2>1 DEF Asked, Resting, TypeOK
  <2>3. QED
    BY <2>2 DEF Pending, Drafting, At, Fetching
<1>9. CASE Save(k)
  BY <1>9 DEF Save
<1>10. QED
  BY <1>3, <1>5, <1>6, <1>7, <1>8, <1>9 DEF SaverStep

\* What was taken and is there is covered, now that the saver is done with it.
LEMMA DoneIsCovered ==
  ASSUME TypeInv, MessageInv, TaskInv, CopyInv, [Next]_allVars, UNCHANGED task,
         ~outdated', ~gap', task.of \in messages,
         NEW k \in Saver, Pending(k), ~Pending(k)', row' # NoRow
  PROVE  row'.summaries[k].upTo >= task.of.id
<1> USE ProcessKinds
<1>1. /\ ~outdated /\ row \in Row /\ row # NoRow /\ task.of.id \in Nat /\ task.of.id > 0 /\ task.of.seq \in Nat
      /\ messages \subseteq Message /\ task.per[k] \in Nat \ {0}
  BY HistoryStays DEF MessageInv, Owned, TypeInv, SumTypeOK, TypeOK, Task, Message, Number
<1>2. CASE Check(k) /\ AlreadyCovered(k)
  <2>1. task.of \in LastMessages(k)
    BY <1>1, WriterKinds DEF LastMessages, Window
  <2>2. Latest(k).upTo >= task.of.id /\ UNCHANGED row
    BY <1>2, <2>1, WriterKinds DEF AlreadyCovered, Check, tables
  <2>3. Copy(k) \in Row /\ Copy(k) # NoRow /\ Latest(k) = Copy(k).summaries[k]
    <3>1. Copy(k) \in Row \union {NoRow}
      BY EntryType DEF Copy, TypeInv, SumTypeOK
    <3>2. Latest(k) # NoSummary
      BY <1>1, <2>2 DEF NoSummary
    <3>3. QED
      BY <3>1, <3>2, WriterKinds DEF Latest
  <2>4. CopyOK(Copy(k)) /\ Copy(k).summaries[k].upTo \in Nat /\ row.summaries[k].upTo \in Nat
    BY <1>1, <2>3 DEF CopyInv, Copy, Row, Summary
  <2>5. Copy(k).id = row.id
    <3>1. ~(Copy(k).summaries[k].upTo < task.of.id)
      BY <1>1, <2>2, <2>3, <2>4
    <3>2. QED
      BY <2>3, <2>4, <3>1 DEF CopyOK
  <2>6. Copy(k).summaries[k].upTo <= row.summaries[k].upTo
    BY <1>1, <2>3, <2>4, <2>5 DEF CopyOK
  <2>7. QED
    BY <1>1, <2>2, <2>3, <2>4, <2>6
<1>3. CASE Save(k) /\ Copy(k) # NoRow /\ Copy(k).active
  <2>1. row' = [row EXCEPT !.summaries = [Copy(k).summaries EXCEPT ![k] = draft[k]]]
    BY <1>1, <1>3, WriterKinds DEF Save
  <2>2. Copy(k).summaries \in [Saver -> Summary]
    BY <1>3, EntryType DEF Copy, TypeInv, SumTypeOK, Row
  <2>3. row'.summaries[k] = draft[k]
    BY <1>1, <2>1, <2>2 DEF Row
  <2>4. Drafting(k)
    BY <1>3 DEF Save, Making, Drafting, At, Fetching
  <2>5. QED
    BY <2>3, <2>4 DEF TaskInv, DraftsReach
<1>4. QED
  BY <1>2, <1>3, PendingEnds

LEMMA NextServed ==
  ASSUME TypeInv, TypeInv', NumberInv, MessageInv, MessageInv', TaskInv, AdvanceInv, CopyInv, JoinInv,
         [Next]_allVars, ~outdated', ~gap'
  PROVE  ServedAreIn' /\ ServedInOrder'
<1>1. ~outdated /\ ~gap /\ ServedAreIn /\ ServedInOrder
  BY HistoryStays DEF JoinInv
<1>2. CASE StartTask
  <2>1. UNCHANGED <<messages, row>> /\ task'.of \in messages
    BY <1>2, StartsPending
  <2>2. ServedAreIn'
    <3> SUFFICES ASSUME NEW k \in Saver, NEW n \in messages \intersect served'[k]
                 PROVE  (n = task'.of /\ Pending(k)') \/ row.summaries[k].upTo >= n.id
      BY <2>1 DEF ServedAreIn
    <3>1. CASE n \in served[k]
      BY <1>1, <1>2, <3>1, StartsPending DEF ServedAreIn
    <3>2. CASE n \notin served[k]
      BY <1>2, <3>2, StartsPending
    <3>3. QED
      BY <3>1, <3>2
  <2>3. ServedInOrder'
    <3> SUFFICES ASSUME NEW k \in Saver, Due(k, task'), NEW n \in messages,
                        n.seq = task'.of.seq - task'.per[k]
                 PROVE  n \in served'[k]
      BY <2>1 DEF ServedInOrder, Due
    <3>1. n \in served[k]
      BY <1>2, StartsPending
    <3>2. QED
      BY <1>2, <3>1, StartsPending
  <2>4. QED
    BY <2>2, <2>3
<1>3. CASE UNCHANGED <<task, served>>
  <2>1. \A n \in messages' : n.id < nextMsg => n \in messages
    <3>1. nextMsg \in Nat /\ messages' \subseteq Message
      BY DEF TypeInv, SumTypeOK, TypeOK, Number
    <3>2. QED
      BY <3>1, NewIsNew DEF Message, Number
  <2>2. ASSUME task.of \in messages', NEW k \in Saver, Due(k, task), NEW n \in messages',
               n.seq = task.of.seq - task.per[k]
        PROVE  n \in served[k]
    <3>1. task.of \in messages
      BY <2>1, <2>2 DEF TaskInv, TaskKnown
    <3>2. task.of.seq \in Nat /\ n.seq \in Nat /\ n.seq < task.of.seq
      BY <2>2, <3>1 DEF TypeInv, SumTypeOK, TypeOK, Task, Message, Number
    <3>3. n \in messages
      BY <2>2, <3>1, <3>2, NewIsNew
    <3>4. QED
      BY <1>1, <2>2, <3>1, <3>3 DEF ServedInOrder
  <2>3. ASSUME NEW k \in Saver, NEW n \in messages' \intersect served[k]
        PROVE  (n = task.of /\ Pending(k)') \/ row'.summaries[k].upTo >= n.id
    <3>1. n \in messages
      BY <2>1, <2>3 DEF TaskInv, TaskKnown
    <3>2. row # NoRow /\ row' # NoRow /\ row \in Row /\ row' \in Row
      BY <2>3, <3>1 DEF MessageInv, Owned, TypeInv, SumTypeOK, TypeOK
    <3>3. CASE row.summaries[k].upTo >= n.id
      <4>1. row'.summaries[k].upTo >= row.summaries[k].upTo
        BY <3>2, NewIds, RowAdvances
      <4>2. row.summaries[k].upTo \in Nat /\ row'.summaries[k].upTo \in Nat /\ n.id \in Nat
        BY <3>1, <3>2 DEF Row, Summary, TypeInv, SumTypeOK, TypeOK, Message, Number
      <4>3. QED
        BY <3>3, <4>1, <4>2
    <3>4. CASE n = task.of /\ Pending(k)
      BY <1>3, <3>1, <3>2, <3>4, DoneIsCovered
    <3>5. QED
      BY <1>1, <2>3, <3>1, <3>3, <3>4 DEF ServedAreIn
  <2>4. ServedInOrder'
    BY <1>3, <2>2 DEF ServedInOrder, Due
  <2>5. ServedAreIn'
    BY <1>3, <2>3 DEF ServedAreIn
  <2>6. QED
    BY <2>4, <2>5
<1>4. QED
  <2>1. ASSUME NEW k \in Saver, SaverStep(k) PROVE UNCHANGED <<task, served>>
    BY <2>1, SaverTasks
  <2>2. SweepLease => UNCHANGED <<task, served>>
    BY SweepsRestart
  <2>3. QED
    BY <1>2, <1>3, <2>1, <2>2, OthersLeaveSavers

LEMMA NextJoin ==
  ASSUME TypeInv, TypeInv', NumberInv, MessageInv, MessageInv', TaskInv, AdvanceInv, CopyInv, JoinInv,
         [Next]_allVars
  PROVE  JoinInv'
<1> SUFFICES ASSUME ~outdated', ~gap' PROVE DraftsCover' /\ RowCovers'
  BY NextServed DEF JoinInv
<1>1. ~outdated /\ ~gap /\ DraftsCover /\ RowCovers /\ CopyOK(row)
  BY HistoryStays DEF JoinInv, CopyInv
<1>2. (\A k \in Saver : draft[k] \in Summary) /\ row \in Row \union {NoRow}
  BY ProcessKinds DEF TypeInv, SumTypeOK, TypeOK
<1>3. ASSUME NEW k \in Saver, Drafting(k) PROVE Covers(draft[k]) /\ draft[k].upTo < nextMsg
  BY <1>1, <1>3 DEF DraftsCover, TaskInv, DraftsReach
<1>4. ASSUME NEW s \in Summary, Covers(s), s.upTo < nextMsg
      PROVE  \A m \in messages' : m.id <= s.upTo => m.id \in s.covers
  BY <1>4, StillCovers DEF Covers
<1>5. DraftsCover'
  <2> SUFFICES ASSUME NEW k \in Saver, Drafting(k)'
               PROVE  \A m \in messages' : m.id <= draft'[k].upTo => m.id \in draft'[k].covers
    BY DEF DraftsCover, Covers
  <2>1. CASE Drafting(k) /\ draft'[k] = draft[k]
    BY <1>2, <1>3, <1>4, <2>1
  <2>2. CASE Check(k) /\ ~AlreadyCovered(k)
    <3>1. UNCHANGED messages
      BY <2>2 DEF Check, tables
    <3>2. QED
      BY <2>2, <3>1, WindowCovers
  <2>3. QED
    BY <2>1, <2>2, DraftSteps
<1>6. RowCovers'
  <2> SUFFICES ASSUME row' # NoRow, NEW k \in Saver
               PROVE  \A m \in messages' : m.id <= row'.summaries[k].upTo => m.id \in row'.summaries[k].covers
    BY DEF RowCovers, Covers
  <2>1. CASE row'.summaries = [j \in Saver |-> NoSummary]
    <3>1. \A m \in messages' : m.id > 0 /\ m.id \in Nat
      BY DEF TypeInv, SumTypeOK, TypeOK, Message, Number
    <3>2. row'.summaries[k].upTo = 0
      BY <2>1 DEF NoSummary
    <3>3. QED
      BY <3>1, <3>2
  <2>2. ASSUME row \in Row
        PROVE  \A m \in messages' : m.id <= row.summaries[k].upTo => m.id \in row.summaries[k].covers
    <3>1. row.summaries[k] \in Summary /\ row # NoRow
      BY <2>2, NoRowAssumption DEF Row
    <3>2. Covers(row.summaries[k]) /\ row.summaries[k].upTo < nextMsg
      BY <1>1, <3>1 DEF RowCovers, CopyOK
    <3>3. QED
      BY <1>4, <3>1, <3>2
  <2>3. ASSUME NEW j \in Saver, Save(j), row \in Row, row'.summaries = [row.summaries EXCEPT ![j] = draft[j]]
        PROVE  \A m \in messages' : m.id <= row'.summaries[k].upTo => m.id \in row'.summaries[k].covers
    <3>1. row.summaries \in [Saver -> Summary]
      BY <2>3 DEF Row
    <3>2. row'.summaries[k] = IF k = j THEN draft[j] ELSE row.summaries[k]
      BY <2>3, <3>1
    <3>3. Drafting(j)
      BY <2>3 DEF Save, Making, Drafting, At, Fetching
    <3>4. CASE k = j
      BY <1>2, <1>3, <1>4, <3>2, <3>3, <3>4
    <3>5. CASE k # j
      BY <2>2, <2>3, <3>2, <3>5
    <3>6. QED
      BY <3>4, <3>5
  <2>4. QED
    BY <2>1, <2>2, <2>3, SummariesOfTheRow
<1>7. QED
  BY <1>5, <1>6

\* As long as every summary is written by the task that holds the lease, for a message that
\* is there, from a copy with the summaries of the row, and after that of the message one
\* interval before, then whatever the intervals were and became, the sizes of the calls,
\* the tasks taken twice and the deletions between: a stored summary leaves out no
\* message before its last.
THEOREM WindowsMeet == Spec => []WindowsJoin
<1>1. SumInit => CopyInv /\ JoinInv
  BY ProcessKinds DEF SumInit, Init, Resting, CopyInv, CopyOK, JoinInv, DraftsCover, RowCovers,
                      ServedAreIn, ServedInOrder, Drafting, At, Fetching, Covers
<1>2. TypeInv /\ TypeInv' /\ NumberInv /\ MessageInv' /\ TaskInv /\ AdvanceInv /\ CopyInv /\ [Next]_allVars
        => CopyInv'
  BY NextCopies
<1>3. TypeInv /\ TypeInv' /\ NumberInv /\ MessageInv /\ MessageInv' /\ TaskInv /\ AdvanceInv /\ CopyInv
        /\ JoinInv /\ [Next]_allVars => JoinInv'
  BY NextJoin
<1>4. TypeInv /\ JoinInv => WindowsJoin
  <2> SUFFICES ASSUME TypeInv, JoinInv, ~gap, ~outdated, row # NoRow, NEW k \in Saver, NEW m \in messages,
                      m.id < row.summaries[k].upTo
               PROVE  m.id \in row.summaries[k].covers
    BY DEF WindowsJoin, ContextIsExhaustive
  <2>1. m.id \in Nat /\ row.summaries[k].upTo \in Nat
    BY DEF TypeInv, SumTypeOK, TypeOK, Message, Number, Row, Summary
  <2>2. QED
    BY <2>1 DEF JoinInv, RowCovers, Covers
<1>5. QED
  BY <1>1, <1>2, <1>3, <1>4, Tasks, PTL DEF Spec
-----------------------------------------------------------------------------
(* The members of a session (SessionPeers). *)

\* The set operators that Members brings along are the library's.
LEMMA MembersCount ==
  /\ \A S : Members!Cardinality(S) = Cardinality(S)
  /\ \A S : Members!IsFiniteSet(S) = IsFiniteSet(S)
BY DEF Members!Cardinality, Cardinality, Members!IsFiniteSet, IsFiniteSet

\* What a counted request may still write: the observers it leaves alone and those it
\* adds are within the limit, or it adds none.
MayAdd(p) ==
  proc[p].observers # {} =>
    Cardinality(Members!Remaining(p)) + Cardinality(proc[p].observers) <= Limit

\* What set_peer_config may still write: it has read the row as it is, and the limit
\* has room for its peer unless that observes already.
MayConfigure(p) ==
  /\ proc[p].saw = member
  /\ proc[p].observers # {} =>
       \/ member[Members!Asks(p)].others
       \/ Cardinality(Members!Observers(member) \ proc[p].peers) + 1 <= Limit

\* What a request that nobody has raced goes by is still so when it writes.
CountHolds(p) ==
  /\ Members!At(p, "write") /\ proc[p].kind # "configure" => MayAdd(p)
  /\ Members!At(p, "write") /\ proc[p].kind = "configure" => MayConfigure(p)
  /\ Members!At(p, "count") /\ proc[p].kind = "configure" => proc[p].saw = member

ClearsAreNoConfigures == \A p \in Request : Members!At(p, "clear") => proc[p].kind # "configure"
CountsHold            == \A p \in Request \ raced : CountHolds(p)
AbsentAreNoObservers  == \A x \in Peer : member[x].row = "none" => ~member[x].others
\* Rows are never deleted.
SeenAreThere == \A p \in Request : \A x \in Peer :
                  proc[p].saw[x].row # "none" => member[x].row # "none"

LimitInvariant ==
  Members!TypeOK /\ AbsentAreNoObservers /\ SeenAreThere /\ ClearsAreNoConfigures /\ CountsHold

\* The observers that a write by p leaves, apart from those that it overlooked.
KeepsLimit(p) ==
  Members!Observers(member') \ Members!Observers(member) # {} =>
    Cardinality(Members!Observers(member') \ Members!Overlooked(p)) <= Limit

(* Observers and their number. *)

LEMMA FewerObservers ==
  ASSUME IsFiniteSet(Peer), Limit \in Nat, NEW S \in SUBSET Peer, NEW T \in SUBSET S,
         Cardinality(S) <= Limit
  PROVE  Cardinality(T) <= Limit
<1>1. IsFiniteSet(S)
  BY FS_Subset
<1>2. Cardinality(T) <= Cardinality(S) /\ IsFiniteSet(T)
  BY <1>1, FS_Subset
<1>3. Cardinality(S) \in Nat /\ Cardinality(T) \in Nat
  BY <1>1, <1>2, FS_CardinalityType
<1> QED BY <1>2, <1>3

LEMMA AddedObservers ==
  ASSUME IsFiniteSet(Peer), Limit \in Nat, NEW S \in SUBSET Peer, NEW T \in SUBSET Peer,
         NEW U \in SUBSET (S \union T), Cardinality(S) + Cardinality(T) <= Limit
  PROVE  Cardinality(U) <= Limit
<1>1. IsFiniteSet(S) /\ IsFiniteSet(T)
  BY FS_Subset
<1>2. /\ IsFiniteSet(S \union T)
      /\ Cardinality(S \union T) = Cardinality(S) + Cardinality(T) - Cardinality(S \cap T)
  BY <1>1, FS_Union
<1>3. IsFiniteSet(S \cap T)
  BY <1>1, FS_Subset, S \cap T \subseteq S
<1>4. /\ Cardinality(S) \in Nat /\ Cardinality(T) \in Nat
      /\ Cardinality(S \cap T) \in Nat /\ Cardinality(S \union T) \in Nat
  BY <1>1, <1>2, <1>3, FS_CardinalityType
<1>5. Cardinality(S \union T) <= Limit
  BY <1>2, <1>4
<1> QED BY <1>5, FewerObservers, S \union T \subseteq Peer

LEMMA AsksIsNamed ==
  ASSUME Members!TypeOK, NEW p \in Request, proc[p].kind = "configure"
  PROVE  Members!Asks(p) \in Peer /\ proc[p].peers = {Members!Asks(p)}
<1>1. \E x \in Peer : proc[p].peers = {x}
  BY DEF Members!TypeOK
<1> QED BY <1>1 DEF Members!Asks

(* Types. *)

TableTypes ==
  /\ member \in [Peer -> Members!Member] /\ clone \in [Peer -> Members!Member]
  /\ written \in BOOLEAN /\ raced \subseteq Request /\ ops \in 0..MaxOps

\* The rows that the code reads back keep their shape.
WellFormed(r) ==
  /\ r \in Members!Doing
  /\ r.observers \subseteq r.peers
  /\ r.kind = "configure" => \E x \in Peer : r.peers = {x}

LEMMA TypeParts ==
  Members!TypeOK <=> TableTypes /\ proc \in [Request -> Members!Doing] /\ \A p \in Request : WellFormed(proc[p])
BY DEF Members!TypeOK, TableTypes, WellFormed

LEMMA RestingWellFormed == WellFormed(Members!Resting)
BY DEF WellFormed, Members!Doing, Members!Resting, Members!Absent, Members!Member,
       Members!Step, Members!Kind

\* One request moves on to a well-formed state.
LEMMA MovesWellFormed ==
  ASSUME Members!TypeOK, NEW p \in Request, NEW r, WellFormed(r), proc' = [proc EXCEPT ![p] = r],
         TableTypes'
  PROVE  Members!TypeOK'
<1>1. proc \in [Request -> Members!Doing] /\ \A q \in Request : WellFormed(proc[q])
  BY TypeParts
<1>2. r \in Members!Doing
  BY DEF WellFormed
<1>3. proc' \in [Request -> Members!Doing]
  BY <1>1, <1>2
<1>4. \A q \in Request : WellFormed(proc'[q])
  BY <1>1
<1>5. Members!TypeOK' <=> TableTypes' /\ proc' \in [Request -> Members!Doing]
                  /\ \A q \in Request : WellFormed(proc'[q])
  BY DEF Members!TypeOK, TableTypes, WellFormed
<1> QED BY <1>3, <1>4, <1>5

LEMMA StepWellFormed ==
  ASSUME Members!TypeOK, NEW p \in Request, NEW l \in Members!Step
  PROVE  WellFormed([proc[p] EXCEPT !.pc = l])
<1>1. WellFormed(proc[p])
  BY TypeParts
<1> QED BY <1>1 DEF WellFormed, Members!Doing

LEMMA TypeInitially == Members!Init /\ MaxOps \in Nat => Members!TypeOK
<1> SUFFICES ASSUME Members!Init, MaxOps \in Nat
             PROVE  Members!TypeOK
  OBVIOUS
<1>1. TableTypes
  <2>1. [x \in Peer |-> Members!Absent] \in [Peer -> Members!Member]
    BY DEF Members!Absent, Members!Member
  <2>2. member = [x \in Peer |-> Members!Absent] /\ clone = [x \in Peer |-> Members!Absent]
    BY DEF Members!Init
  <2>3. written = FALSE /\ raced = {} /\ ops = 0
    BY DEF Members!Init
  <2>4. ops \in 0..MaxOps /\ raced \subseteq Request
    BY <2>3
  <2>5. written \in BOOLEAN
    BY <2>3, Zenon
  <2> QED BY <2>1, <2>2, <2>4, <2>5, Zenon DEF TableTypes
<1>2. WellFormed(Members!Resting) /\ Members!Resting \in Members!Doing
  BY RestingWellFormed DEF WellFormed
<1>3. proc \in [Request -> Members!Doing] /\ \A p \in Request : proc[p] = Members!Resting
  BY <1>2 DEF Members!Init
<1> QED BY <1>1, <1>2, <1>3, TypeParts

LEMMA BeginType ==
  ASSUME Members!TypeOK, MaxOps \in Nat, NEW p \in Request, NEW kind \in Members!Kind,
         NEW peers \in SUBSET Peer, NEW observers \in SUBSET peers, NEW step \in Members!Step,
         Members!Begin(p, kind, peers, observers, step),
         kind = "configure" => \E x \in Peer : peers = {x}
  PROVE  Members!TypeOK'
<1> DEFINE new == [Members!Resting EXCEPT !.pc = step, !.kind = kind,
                                  !.peers = peers, !.observers = observers]
<1>1. WellFormed(new)
  BY RestingWellFormed DEF WellFormed, Members!Doing
<1>2. proc' = [proc EXCEPT ![p] = new]
  BY DEF Members!Begin
<1>3. TableTypes'
  BY TypeParts DEF TableTypes, Members!Begin
<1> HIDE DEF new
<1> QED BY <1>1, <1>2, <1>3, MovesWellFormed

LEMMA FinishType ==
  ASSUME Members!TypeOK, NEW p \in Request, Members!Finish(p), TableTypes'
  PROVE  Members!TypeOK'
BY RestingWellFormed, MovesWellFormed DEF Members!Finish

LEMMA GotoType ==
  ASSUME Members!TypeOK, NEW p \in Request, NEW l \in Members!Step, Members!Goto(p, l), TableTypes'
  PROVE  Members!TypeOK'
<1>1. proc' = [proc EXCEPT ![p] = [proc[p] EXCEPT !.pc = l]]
  BY DEF Members!Goto
<1> QED BY <1>1, StepWellFormed, MovesWellFormed

LEMMA TypePreserved ==
  ASSUME Members!TypeOK, [Members!Next]_Members!vars, MaxOps \in Nat
  PROVE  Members!TypeOK'
<1>1. CASE UNCHANGED Members!vars
  BY <1>1 DEF Members!vars, Members!TypeOK
<1>2. CASE Members!Next
  <2> PICK p \in Request :
        \/ \E peers \in SUBSET Peer :
             \/ Members!BeginPost(p, peers) \/ Members!Remove(p, peers)
             \/ \E observers \in SUBSET peers :
                  Members!BeginAdd(p, peers, observers) \/ Members!BeginSet(p, peers, observers)
        \/ \E x \in Peer, observers \in SUBSET Peer :
             observers \subseteq {x} /\ Members!BeginConfigure(p, x, observers)
        \/ Members!SelectActive(p) \/ Members!Clear(p) \/ Members!Count(p) \/ Members!Upsert(p)
        \/ Members!ReadMember(p) \/ Members!CountOne(p) \/ \E others \in BOOLEAN : Members!WriteMember(p, others)
        \/ Members!Abort(p) \/ Members!Clone(p)
    BY <1>2 DEF Members!Next
  <2>0. TableTypes /\ WellFormed(proc[p])
    BY TypeParts
  <2> USE DEF Members!Kind, Members!Step
  <2>2. ASSUME NEW peers \in SUBSET Peer, Members!BeginPost(p, peers)
        PROVE  Members!TypeOK'
    BY <2>2, BeginType DEF Members!BeginPost
  <2>3. ASSUME NEW peers \in SUBSET Peer, NEW observers \in SUBSET peers,
               Members!BeginAdd(p, peers, observers) \/ Members!BeginSet(p, peers, observers)
        PROVE  Members!TypeOK'
    BY <2>3, BeginType DEF Members!BeginAdd, Members!BeginSet
  <2>4. ASSUME NEW x \in Peer, NEW observers \in SUBSET {x}, Members!BeginConfigure(p, x, observers)
        PROVE  Members!TypeOK'
    BY <2>4, BeginType DEF Members!BeginConfigure
  <2>5. ASSUME NEW peers \in SUBSET Peer, Members!Remove(p, peers) PROVE Members!TypeOK'
    <3>1. TableTypes'
      BY <2>0, <2>5 DEF Members!Remove, Members!Writes, TableTypes, Members!Member
    <3> QED BY <2>5, <3>1 DEF Members!Remove, Members!TypeOK, TableTypes
  <2>6. CASE Members!SelectActive(p) \/ Members!ReadMember(p)
    <3> PICK l \in Members!Step : proc' = [proc EXCEPT ![p].saw = member, ![p].pc = l]
      BY <2>6 DEF Members!SelectActive, Members!ReadMember
    <3>1. proc' = [proc EXCEPT ![p] = [proc[p] EXCEPT !.saw = member, !.pc = l]]
      BY DEF Members!TypeOK
    <3>2. WellFormed([proc[p] EXCEPT !.saw = member, !.pc = l])
      BY <2>0 DEF WellFormed, Members!Doing, TableTypes
    <3>3. TableTypes'
      BY <2>0, <2>6 DEF Members!SelectActive, Members!ReadMember, TableTypes
    <3> QED BY <3>1, <3>2, <3>3, MovesWellFormed
  <2>7. CASE Members!Clear(p)
    <3> DEFINE ended == Members!ActiveIn(proc[p].saw) \cap Members!ActiveIn(member)
    <3>1. proc' = [proc EXCEPT ![p] = [proc[p] EXCEPT !.pc = "count", !.cleared = ended]]
      BY <2>7 DEF Members!Clear, Members!TypeOK
    <3>2. ended \subseteq Peer
      BY DEF Members!ActiveIn
    <3> HIDE DEF ended
    <3>3. WellFormed([proc[p] EXCEPT !.pc = "count", !.cleared = ended])
      BY <2>0, <3>2 DEF WellFormed, Members!Doing
    <3>4. TableTypes'
      BY <2>0, <2>7 DEF Members!Clear, TableTypes
    <3> QED BY <3>1, <3>3, <3>4, MovesWellFormed
  <2>8. CASE Members!Count(p) \/ Members!CountOne(p)
    <3>1. TableTypes'
      BY <2>0, <2>8 DEF Members!Count, Members!CountOne, TableTypes
    <3>2. Members!Finish(p) \/ Members!Goto(p, "write")
      BY <2>8 DEF Members!Count, Members!CountOne
    <3> QED BY <3>1, <3>2, FinishType, GotoType
  <2>9. CASE Members!Upsert(p)
    <3>1. member' \in [Peer -> Members!Member]
      <4>1. \A x \in Peer : member[x] \in Members!Member /\ [member[x] EXCEPT !.row = "left"] \in Members!Member
        BY <2>0 DEF TableTypes, Members!Member
      <4>2. \A x \in Peer : member[x].others \in BOOLEAN
        BY <4>1 DEF Members!Member
      <4>3. \A x \in Peer : (IF Members!Keeps(p, x) THEN member[x].others
                                           ELSE x \in proc[p].observers) \in BOOLEAN
        <5> TAKE x \in Peer
        <5>1. CASE Members!Keeps(p, x)
          BY <4>2, <5>1, Zenon
        <5>2. CASE ~Members!Keeps(p, x)
          <6>1. (x \in proc[p].observers) \in BOOLEAN
            OBVIOUS
          <6> QED BY <5>2, <6>1, Zenon
        <5> QED BY <5>1, <5>2
      <4>4. \A o \in BOOLEAN : [row |-> "active", others |-> o] \in Members!Member
        BY SMT DEF Members!Member
      <4>5. \A x \in Peer : Members!Upserted(p)[x] \in Members!Member
        BY <4>1, <4>3, <4>4 DEF Members!Upserted
      <4> QED BY <2>9, <4>5 DEF Members!Upsert, Members!Upserted
    <3>2. TableTypes' /\ Members!Finish(p)
      BY <2>0, <2>9, <3>1 DEF Members!Upsert, Members!Writes, TableTypes
    <3> QED BY <3>2, FinishType
  <2>10. ASSUME NEW others \in BOOLEAN, Members!WriteMember(p, others) PROVE Members!TypeOK'
    <3>1. member' \in [Peer -> Members!Member]
      BY <2>0, <2>10 DEF Members!WriteMember, TableTypes, Members!Member
    <3>2. TableTypes' /\ Members!Finish(p)
      BY <2>0, <2>10, <3>1 DEF Members!WriteMember, Members!Writes, TableTypes
    <3> QED BY <3>2, FinishType
  <2>11. CASE Members!Abort(p)
    <3>1. TableTypes' /\ Members!Finish(p)
      BY <2>0, <2>11 DEF Members!Abort, TableTypes
    <3> QED BY <3>1, FinishType
  <2>12. CASE Members!Clone(p)
    <3>1. TableTypes'
      BY <2>0, <2>12 DEF Members!Clone, TableTypes, Members!Member, Members!Absent
    <3> QED BY <2>12, <3>1 DEF Members!Clone, Members!TypeOK, TableTypes
  <2> QED BY <2>2, <2>3, <2>4, <2>5, <2>6, <2>7, <2>8, <2>9, <2>10, <2>11, <2>12
<1> QED BY <1>1, <1>2

(* The limit. *)

LEMMA LimitInitially ==
  ASSUME Members!Init
  PROVE  AbsentAreNoObservers /\ SeenAreThere /\ ClearsAreNoConfigures /\ CountsHold
<1>1. \A x \in Peer : member[x].row = "none" /\ ~member[x].others
  BY DEF Members!Init, Members!Absent
<1>2. \A p \in Request : proc[p].pc = "idle" /\ \A x \in Peer : proc[p].saw[x].row = "none"
  <2>1. \A p \in Request : proc[p] = Members!Resting
    BY DEF Members!Init
  <2> QED BY <2>1 DEF Members!Resting, Members!Absent
<1> QED
  BY <1>1, <1>2 DEF AbsentAreNoObservers, SeenAreThere, ClearsAreNoConfigures, CountsHold,
                    CountHolds, Members!At

\* A step of p; every action of Members is one.
MemberStep(p) ==
  \/ \E peers \in SUBSET Peer :
       \/ Members!BeginPost(p, peers) \/ Members!Remove(p, peers)
       \/ \E observers \in SUBSET peers :
            Members!BeginAdd(p, peers, observers) \/ Members!BeginSet(p, peers, observers)
  \/ \E x \in Peer, observers \in SUBSET Peer :
       observers \subseteq {x} /\ Members!BeginConfigure(p, x, observers)
  \/ Members!SelectActive(p) \/ Members!Clear(p) \/ Members!Count(p) \/ Members!Upsert(p)
  \/ Members!ReadMember(p) \/ Members!CountOne(p)
  \/ \E others \in BOOLEAN : Members!WriteMember(p, others)
  \/ Members!Abort(p) \/ Members!Clone(p)

\* What a step of p does to the others: nothing, or it races them.
Considers(p) ==
  /\ \A q \in Request \ {p} : proc'[q] = proc[q]
  /\ \/ UNCHANGED member /\ raced \subseteq raced' \union {p}
     \/ Request \ {p} \subseteq raced'

\* Nothing is forgotten of what there was, and nothing invented.
Remembers(p) ==
  \A x \in Peer :
    /\ member[x].row # "none" => member'[x].row # "none"
    /\ proc'[p].saw[x].row = "none" \/ proc'[p].saw[x] \in {proc[p].saw[x], member[x]}

LEMMA SeenStay ==
  ASSUME SeenAreThere, NEW p \in Request, Considers(p), Remembers(p)
  PROVE  SeenAreThere'
BY DEF SeenAreThere, Considers, Remembers

LEMMA CountsStay ==
  ASSUME ClearsAreNoConfigures, CountsHold, NEW p \in Request, Considers(p),
         Members!At(p, "clear")' => proc'[p].kind # "configure",
         p \notin raced' => CountHolds(p)'
  PROVE  ClearsAreNoConfigures' /\ CountsHold'
<1>1. ClearsAreNoConfigures'
  BY DEF ClearsAreNoConfigures, Considers, Members!At
<1>2. ASSUME NEW q \in Request \ raced', q # p PROVE CountHolds(q)'
  <2>1. proc'[q] = proc[q] /\ member' = member /\ q \notin raced
    BY <1>2 DEF Considers
  <2>2. CountHolds(q)
    BY <2>1 DEF CountsHold
  <2>3. MayAdd(q)' = MayAdd(q) /\ MayConfigure(q)' = MayConfigure(q)
    BY <2>1 DEF MayAdd, MayConfigure, Members!Remaining, Members!Observers, Members!ActiveIn,
                Members!Asks
  <2> QED BY <2>1, <2>2, <2>3 DEF CountHolds, Members!At
<1> QED BY <1>1, <1>2 DEF CountsHold

\* A request that rests, or has only begun, has nothing to write.
LEMMA NothingToWrite ==
  ASSUME ClearsAreNoConfigures, CountsHold, NEW p \in Request, Considers(p),
         proc'[p].pc \in {"idle", "select"}
  PROVE  ClearsAreNoConfigures' /\ CountsHold'
BY CountsStay DEF CountHolds, Members!At

LEMMA SameMembers ==
  ASSUME AbsentAreNoObservers, UNCHANGED member
  PROVE  AbsentAreNoObservers' /\ \A p \in Request : KeepsLimit(p)
BY DEF KeepsLimit, Members!Observers, Members!ActiveIn, AbsentAreNoObservers

LEMMA FinishRests ==
  ASSUME Members!TypeOK, NEW p \in Request, Members!Finish(p)
  PROVE  proc'[p].pc = "idle" /\ \A q \in Request \ {p} : proc'[q] = proc[q]
BY DEF Members!TypeOK, Members!Finish, Members!Resting

\* The upsert makes observers of those it was asked for, and of nobody else unless it
\* overlooks them.
LEMMA UpsertKeepsLimit ==
  ASSUME LimitInvariant, IsFiniteSet(Peer), Limit \in Nat, NEW p \in Request, Members!Upsert(p)
  PROVE  (p \notin raced => KeepsLimit(p)) /\ AbsentAreNoObservers'
<1>1. ASSUME NEW x \in Peer
      PROVE  /\ x \in proc[p].peers =>
                  /\ member'[x].row = "active"
                  /\ member'[x].others <=> IF Members!Keeps(p, x) THEN member[x].others
                                                         ELSE x \in proc[p].observers
             /\ x \notin proc[p].peers /\ x \in proc[p].cleared => member'[x].row = "left"
             /\ x \notin proc[p].peers /\ x \notin proc[p].cleared => member'[x] = member[x]
  <2>1. member'[x] = Members!Upserted(p)[x] /\ member[x] \in Members!Member
    BY DEF Members!Upsert, LimitInvariant, Members!TypeOK
  <2>2. CASE x \in proc[p].peers
    <3> DEFINE o == IF Members!Keeps(p, x) THEN member[x].others ELSE x \in proc[p].observers
    <3>1. member'[x] = [row |-> "active", others |-> o]
      BY <2>1, <2>2, Zenon DEF Members!Upserted
    <3> HIDE DEF o
    <3>2. member'[x].row = "active" /\ member'[x].others = o
      BY <3>1
    <3> USE DEF o
    <3> QED BY <2>2, <3>2, Zenon
  <2>3. CASE x \notin proc[p].peers /\ x \in proc[p].cleared
    <3>1. member'[x] = [member[x] EXCEPT !.row = "left"]
      BY <2>1, <2>3, Zenon DEF Members!Upserted
    <3> QED BY <2>1, <2>3, <3>1 DEF Members!Member
  <2>4. CASE x \notin proc[p].peers /\ x \notin proc[p].cleared
    BY <2>1, <2>4, Zenon DEF Members!Upserted
  <2> QED BY <2>2, <2>3, <2>4
<1>2. AbsentAreNoObservers'
  <2> SUFFICES ASSUME NEW x \in Peer, member'[x].row = "none" PROVE ~member'[x].others
    BY DEF AbsentAreNoObservers
  <2>2. member'[x] = member[x]
    BY <1>1
  <2> QED BY <2>2 DEF LimitInvariant, AbsentAreNoObservers
<1>3. ASSUME p \notin raced PROVE KeepsLimit(p)
  <2> SUFFICES ASSUME Members!Observers(member') \ Members!Observers(member) # {}
               PROVE  Cardinality(Members!Observers(member') \ Members!Overlooked(p)) <= Limit
    BY DEF KeepsLimit
  <2>1. Members!Observers(member') \ Members!Overlooked(p)
          \subseteq Members!Remaining(p) \union proc[p].observers
    <3> SUFFICES ASSUME NEW x \in Peer, member'[x].row = "active", member'[x].others,
                        x \notin proc[p].observers, x \notin Members!Overlooked(p)
                 PROVE  x \in Members!Remaining(p)
      BY DEF Members!Observers, Members!ActiveIn
    <3>1. x \notin proc[p].peers
      <4>1. SUFFICES ASSUME x \in proc[p].peers PROVE FALSE
        OBVIOUS
      <4>2. Members!Keeps(p, x) /\ member[x].others
        BY <1>1, <4>1
      <4> QED BY <4>1, <4>2 DEF Members!Overlooked
    <3>2. x \notin proc[p].cleared
      BY <1>1, <3>1
    <3>3. member'[x] = member[x]
      BY <1>1, <3>1, <3>2
    <3> QED BY <3>1, <3>2, <3>3 DEF Members!Remaining, Members!Observers, Members!ActiveIn
  <2>2. Members!Remaining(p) \subseteq Members!Observers(member) /\ Members!Observers(member) \subseteq Peer
    BY DEF Members!Remaining, Members!Observers, Members!ActiveIn
  <2>3. PICK x \in Members!Observers(member') : x \notin Members!Observers(member)
    OBVIOUS
  <2>4. proc[p].observers # {}
    <3>1. x \in Peer /\ member'[x].row = "active" /\ member'[x].others
      BY <2>3 DEF Members!Observers, Members!ActiveIn
    <3>2. x \in proc[p].peers
      BY <1>1, <2>3, <3>1 DEF Members!Observers, Members!ActiveIn
    <3>3. ~Members!Keeps(p, x)
      BY <1>1, <2>3, <3>1, <3>2 DEF Members!Keeps, Members!Observers, Members!ActiveIn
    <3>4. x \in proc[p].observers
      BY <1>1, <3>1, <3>2, <3>3
    <3> QED BY <3>4
  <2>5. Cardinality(Members!Remaining(p)) + Cardinality(proc[p].observers) <= Limit
    BY <1>3, <2>4 DEF LimitInvariant, CountsHold, CountHolds, MayAdd, Members!Upsert
  <2>6. proc[p].observers \subseteq Peer
    BY DEF LimitInvariant, Members!TypeOK, Members!Doing
  <2> QED BY <2>1, <2>2, <2>5, <2>6, AddedObservers
<1> QED BY <1>2, <1>3

\* So does the change of one configuration.
LEMMA WriteMemberKeepsLimit ==
  ASSUME LimitInvariant, IsFiniteSet(Peer), Limit \in Nat, NEW p \in Request,
         NEW others \in BOOLEAN, Members!WriteMember(p, others)
  PROVE  (p \notin raced => KeepsLimit(p)) /\ AbsentAreNoObservers'
<1> DEFINE x == Members!Asks(p)
<1>1. x \in Peer /\ proc[p].peers = {x}
  BY AsksIsNamed DEF LimitInvariant, Members!WriteMember
<1>2. proc[p].saw[x] \in Members!Member /\ member[x] \in Members!Member
  BY <1>1 DEF LimitInvariant, Members!TypeOK, Members!Doing
<1>3. \A y \in Peer \ {x} : member'[y] = member[y]
  BY <1>1 DEF Members!WriteMember, LimitInvariant, Members!TypeOK
<1>4. \/ member'[x] = [member[x] EXCEPT !.others = others] /\ proc[p].saw[x].row # "none"
      \/ /\ member'[x] = [row |-> "active", others |-> others]
         /\ proc[p].saw[x].row = "none" /\ member[x].row = "none"
      \/ member'[x] = member[x]
  BY <1>1 DEF Members!WriteMember, LimitInvariant, Members!TypeOK
<1>5. others \in {proc[p].saw[x].others, proc[p].observers # {}}
  BY DEF Members!WriteMember
<1>6. AbsentAreNoObservers'
  <2> SUFFICES ASSUME NEW y \in Peer, member'[y].row = "none" PROVE ~member'[y].others
    BY DEF AbsentAreNoObservers
  <2>1. CASE member'[y] = member[y]
    BY <2>1 DEF LimitInvariant, AbsentAreNoObservers
  <2>2. CASE member'[y] # member[y]
    <3>1. y = x /\ member'[x] = [member[x] EXCEPT !.others = others] /\ proc[p].saw[x].row # "none"
      BY <1>3, <1>4, <2>2
    <3>2. member[x].row # "none"
      BY <1>1, <3>1 DEF LimitInvariant, SeenAreThere
    <3> QED BY <1>2, <3>1, <3>2 DEF Members!Member
  <2> QED BY <2>1, <2>2
<1>7. ASSUME p \notin raced PROVE KeepsLimit(p)
  <2> SUFFICES ASSUME Members!Observers(member') \ Members!Observers(member) # {}
               PROVE  Cardinality(Members!Observers(member') \ Members!Overlooked(p)) <= Limit
    BY DEF KeepsLimit
  <2>1. MayConfigure(p)
    BY <1>7 DEF LimitInvariant, CountsHold, CountHolds, Members!WriteMember
  <2>2. /\ x \in Members!Observers(member') /\ x \notin Members!Observers(member)
        /\ member'[x] # member[x]
    BY <1>3 DEF Members!Observers, Members!ActiveIn
  <2>3. others /\ ~member[x].others
    <3>1. member'[x].others /\ member'[x].row = "active"
      BY <2>2 DEF Members!Observers, Members!ActiveIn
    <3>2. others
      BY <1>2, <1>4, <2>2, <3>1 DEF Members!Member
    <3>3. CASE member'[x] = [member[x] EXCEPT !.others = others]
      BY <1>1, <1>2, <2>2, <3>1, <3>3 DEF Members!Member, Members!Observers, Members!ActiveIn
    <3>4. CASE member[x].row = "none"
      BY <1>1, <3>2, <3>4 DEF LimitInvariant, AbsentAreNoObservers
    <3> QED BY <1>4, <2>2, <3>2, <3>3, <3>4
  <2>4. proc[p].observers # {}
    BY <1>5, <2>1, <2>3 DEF MayConfigure
  <2>5. Cardinality(Members!Observers(member) \ {x}) + 1 <= Limit
    BY <1>1, <2>1, <2>3, <2>4 DEF MayConfigure
  <2>6. Cardinality({x}) = 1
    BY FS_Singleton
  <2>7. /\ Members!Observers(member') \ Members!Overlooked(p)
             \subseteq (Members!Observers(member) \ {x}) \union {x}
        /\ Members!Observers(member) \subseteq Peer
    BY <1>3 DEF Members!Observers, Members!ActiveIn
  <2> HIDE DEF x
  <2> QED BY <1>1, <2>5, <2>6, <2>7, AddedObservers
<1> QED BY <1>6, <1>7

LEMMA LimitPreserved ==
  ASSUME LimitInvariant, NEW p \in Request, MemberStep(p), IsFiniteSet(Peer), Limit \in Nat
  PROVE  /\ AbsentAreNoObservers' /\ SeenAreThere' /\ ClearsAreNoConfigures' /\ CountsHold'
         /\ Considers(p) /\ (p \notin raced => KeepsLimit(p))
<1> DEFINE Kept == /\ AbsentAreNoObservers' /\ SeenAreThere' /\ ClearsAreNoConfigures' /\ CountsHold'
                   /\ Considers(p) /\ (p \notin raced => KeepsLimit(p))
<1> USE DEF LimitInvariant
<1>1. ASSUME NEW kind, NEW peers, NEW observers, NEW step \in {"select", "count"},
             Members!Begin(p, kind, peers, observers, step), step = "count" => kind # "configure"
      PROVE  Kept
  <2>1. /\ proc'[p].pc = step /\ proc'[p].kind = kind /\ \A x \in Peer : proc'[p].saw[x].row = "none"
        /\ \A q \in Request \ {p} : proc'[q] = proc[q]
    BY <1>1 DEF Members!Begin, Members!TypeOK, Members!Resting, Members!Absent
  <2>2. Considers(p) /\ Remembers(p)
    BY <1>1, <2>1 DEF Members!Begin, Considers, Remembers
  <2>3. ClearsAreNoConfigures' /\ CountsHold'
    BY <1>1, <2>1, <2>2, CountsStay DEF CountHolds, Members!At
  <2> QED BY <1>1, <2>2, <2>3, SameMembers, SeenStay DEF Members!Begin
<1>2. ASSUME NEW peers \in SUBSET Peer, Members!BeginPost(p, peers) PROVE Kept
  BY <1>1, <1>2 DEF Members!BeginPost
<1>3. ASSUME NEW peers \in SUBSET Peer, NEW observers \in SUBSET peers,
             Members!BeginAdd(p, peers, observers) \/ Members!BeginSet(p, peers, observers)
      PROVE  Kept
  BY <1>1, <1>3 DEF Members!BeginAdd, Members!BeginSet
<1>4. ASSUME NEW x \in Peer, NEW observers \in SUBSET {x}, Members!BeginConfigure(p, x, observers)
      PROVE  Kept
  BY <1>1, <1>4 DEF Members!BeginConfigure
<1>5. ASSUME NEW peers \in SUBSET Peer, Members!Remove(p, peers) PROVE Kept
  <2>1. \A x \in Peer : /\ member'[x].others = member[x].others
                        /\ member'[x].row = "active" => member[x].row = "active"
                        /\ member'[x].row = "none" <=> member[x].row = "none"
    BY <1>5 DEF Members!Remove, Members!TypeOK, Members!Member, Members!ActiveIn
  <2>2. Considers(p) /\ Remembers(p)
    BY <1>5, <2>1 DEF Members!Remove, Members!Writes, Considers, Remembers
  <2>3. KeepsLimit(p)
    BY <2>1 DEF KeepsLimit, Members!Observers, Members!ActiveIn
  <2>4. ClearsAreNoConfigures' /\ CountsHold'
    BY <1>5, <2>2, NothingToWrite DEF Members!Remove, Members!At
  <2> QED BY <2>1, <2>2, <2>3, <2>4, SeenStay DEF AbsentAreNoObservers
<1>6. CASE Members!SelectActive(p)
  <2>1. /\ proc'[p].pc = "clear" /\ proc'[p].kind = "set" /\ proc'[p].saw = member
        /\ \A q \in Request \ {p} : proc'[q] = proc[q]
    BY <1>6 DEF Members!SelectActive, Members!TypeOK, Members!Doing
  <2>2. Considers(p) /\ Remembers(p)
    BY <1>6, <2>1 DEF Members!SelectActive, Considers, Remembers
  <2>3. ClearsAreNoConfigures' /\ CountsHold'
    BY <2>1, <2>2, CountsStay DEF CountHolds, Members!At
  <2> QED BY <1>6, <2>2, <2>3, SameMembers, SeenStay DEF Members!SelectActive
<1>7. CASE Members!Clear(p)
  <2>1. /\ proc'[p].pc = "count" /\ proc'[p].kind # "configure" /\ proc'[p].saw = proc[p].saw
        /\ \A q \in Request \ {p} : proc'[q] = proc[q]
    BY <1>7 DEF Members!Clear, Members!TypeOK, Members!Doing, ClearsAreNoConfigures
  <2>2. Considers(p) /\ Remembers(p)
    BY <1>7, <2>1 DEF Members!Clear, Considers, Remembers
  <2>3. ClearsAreNoConfigures' /\ CountsHold'
    BY <2>1, <2>2, CountsStay DEF CountHolds, Members!At
  <2> QED BY <1>7, <2>2, <2>3, SameMembers, SeenStay DEF Members!Clear
<1>8. ASSUME Members!Finish(p), UNCHANGED member, raced \subseteq raced' \union {p} PROVE Kept
  <2>1. proc'[p].pc = "idle" /\ \A q \in Request \ {p} : proc'[q] = proc[q]
    BY <1>8, FinishRests
  <2>2. proc'[p] = Members!Resting
    BY <1>8 DEF Members!Finish, Members!TypeOK
  <2>3. Considers(p) /\ Remembers(p)
    BY <1>8, <2>1, <2>2 DEF Considers, Remembers, Members!Resting, Members!Absent
  <2> QED BY <1>8, <2>1, <2>3, NothingToWrite, SameMembers, SeenStay
<1>9. CASE Members!Count(p)
  <2>1. CASE Members!Finish(p)
    BY <1>8, <1>9, <2>1 DEF Members!Count
  <2>2. CASE ~Members!Finish(p)
    <3>1. /\ proc[p].observers # {} =>
                ~(Cardinality(Members!Remaining(p)) + Cardinality(proc[p].observers) > Limit)
          /\ proc' = [proc EXCEPT ![p].pc = "write"] /\ member' = member /\ raced' = raced \ {p}
      BY <1>9, <2>2, MembersCount DEF Members!Count, Members!Goto
    <3>2. /\ proc'[p].pc = "write" /\ proc'[p].kind = proc[p].kind
          /\ proc'[p].observers = proc[p].observers /\ proc'[p].peers = proc[p].peers
          /\ proc'[p].cleared = proc[p].cleared /\ proc'[p].saw = proc[p].saw
          /\ \A q \in Request \ {p} : proc'[q] = proc[q]
      BY <3>1 DEF Members!TypeOK, Members!Doing
    <3>3. Members!Remaining(p)' = Members!Remaining(p)
      BY <3>1, <3>2 DEF Members!Remaining, Members!Observers, Members!ActiveIn
    <3>4. proc[p].observers \subseteq Peer /\ Members!Remaining(p) \subseteq Peer
      BY DEF Members!TypeOK, Members!Doing, Members!Remaining, Members!Observers, Members!ActiveIn
    <3>5. Cardinality(Members!Remaining(p)) \in Nat /\ Cardinality(proc[p].observers) \in Nat
      BY <3>4, FS_Subset, FS_CardinalityType
    <3>6. MayAdd(p)'
      BY <3>1, <3>2, <3>3, <3>5 DEF MayAdd
    <3>7. Considers(p) /\ Remembers(p)
      BY <3>1, <3>2 DEF Considers, Remembers
    <3>8. proc'[p].kind # "configure"
      BY <1>9, <3>2 DEF Members!Count
    <3>9. ClearsAreNoConfigures' /\ CountsHold'
      BY <3>2, <3>6, <3>7, <3>8, CountsStay DEF CountHolds, Members!At
    <3> QED BY <3>1, <3>7, <3>9, SameMembers, SeenStay
  <2> QED BY <2>1, <2>2
<1>10. CASE Members!Upsert(p)
  <2>1. proc'[p] = Members!Resting /\ proc'[p].pc = "idle" /\ \A q \in Request \ {p} : proc'[q] = proc[q]
    BY <1>10, FinishRests DEF Members!Upsert, Members!Finish, Members!TypeOK
  <2>2. \A x \in Peer : member[x].row # "none" => member'[x].row # "none"
    <3> TAKE x \in Peer
    <3>1. member'[x] = Members!Upserted(p)[x] /\ member[x] \in Members!Member
      BY <1>10 DEF Members!Upsert, Members!TypeOK
    <3>2. \/ member'[x] = member[x] \/ member'[x].row = "left" \/ member'[x].row = "active"
      BY <3>1 DEF Members!Upserted, Members!Member
    <3> QED BY <3>2
  <2>3. Considers(p) /\ Remembers(p)
    BY <1>10, <2>1, <2>2 DEF Members!Upsert, Members!Writes, Considers, Remembers, Members!Resting,
                             Members!Absent
  <2> QED BY <1>10, <2>1, <2>3, NothingToWrite, UpsertKeepsLimit, SeenStay
<1>11. ASSUME NEW others \in BOOLEAN, Members!WriteMember(p, others) PROVE Kept
  <2>1. proc'[p] = Members!Resting /\ proc'[p].pc = "idle" /\ \A q \in Request \ {p} : proc'[q] = proc[q]
    BY <1>11, FinishRests DEF Members!WriteMember, Members!Finish, Members!TypeOK
  <2>2. \A x \in Peer : member[x].row # "none" => member'[x].row # "none"
    BY <1>11 DEF Members!WriteMember, Members!TypeOK, Members!Member
  <2>3. Considers(p) /\ Remembers(p)
    BY <1>11, <2>1, <2>2 DEF Members!WriteMember, Members!Writes, Considers, Remembers,
                             Members!Resting, Members!Absent
  <2> QED BY <1>11, <2>1, <2>3, NothingToWrite, WriteMemberKeepsLimit, SeenStay
<1>12. CASE Members!ReadMember(p)
  <2>1. /\ proc'[p].saw = member /\ member' = member /\ raced' = raced \ {p}
        /\ proc'[p].observers = proc[p].observers /\ proc'[p].peers = proc[p].peers
        /\ proc'[p].kind = "configure" /\ proc'[p].pc \in {"count", "write"}
        /\ proc'[p].pc = "write" => proc[p].observers = {} \/ member[Members!Asks(p)].others
        /\ \A q \in Request \ {p} : proc'[q] = proc[q]
    BY <1>12 DEF Members!ReadMember, Members!TypeOK, Members!Doing
  <2>2. Members!Asks(p)' = Members!Asks(p)
    BY <2>1 DEF Members!Asks
  <2>3. proc'[p].pc = "write" => MayConfigure(p)'
    BY <2>1, <2>2 DEF MayConfigure
  <2>4. Considers(p) /\ Remembers(p)
    BY <2>1 DEF Considers, Remembers
  <2>5. ClearsAreNoConfigures' /\ CountsHold'
    BY <2>1, <2>3, <2>4, CountsStay DEF CountHolds, Members!At
  <2> QED BY <2>1, <2>4, <2>5, SameMembers, SeenStay
<1>13. CASE Members!CountOne(p)
  <2>1. CASE Members!Finish(p)
    BY <1>8, <1>13, <2>1 DEF Members!CountOne
  <2>2. CASE ~Members!Finish(p)
    <3>1. /\ ~(Cardinality(Members!Observers(member) \ proc[p].peers) + 1 > Limit)
          /\ proc' = [proc EXCEPT ![p].pc = "write"] /\ member' = member /\ raced' = raced
      BY <1>13, <2>2, MembersCount DEF Members!CountOne, Members!Goto
    <3>2. /\ proc'[p].pc = "write" /\ proc'[p].kind = proc[p].kind
          /\ proc'[p].observers = proc[p].observers /\ proc'[p].peers = proc[p].peers
          /\ proc'[p].saw = proc[p].saw /\ \A q \in Request \ {p} : proc'[q] = proc[q]
      BY <3>1 DEF Members!TypeOK, Members!Doing
    <3>3. Cardinality(Members!Observers(member) \ proc[p].peers) \in Nat
      BY FS_Subset, FS_CardinalityType, Members!Observers(member) \ proc[p].peers \subseteq Peer
      DEF Members!Observers, Members!ActiveIn
    <3>4. proc[p].kind = "configure" /\ (p \notin raced => proc[p].saw = member)
      BY <1>13 DEF Members!CountOne, CountsHold, CountHolds
    <3>5. Members!Observers(member)' = Members!Observers(member)
      BY <3>1 DEF Members!Observers, Members!ActiveIn
    <3>6. p \notin raced => MayConfigure(p)'
      BY <3>1, <3>2, <3>3, <3>4, <3>5 DEF MayConfigure
    <3>7. Considers(p) /\ Remembers(p)
      BY <3>1, <3>2 DEF Considers, Remembers
    <3>8. ClearsAreNoConfigures' /\ CountsHold'
      BY <3>1, <3>2, <3>4, <3>6, <3>7, CountsStay DEF CountHolds, Members!At
    <3> QED BY <3>1, <3>7, <3>8, SameMembers, SeenStay
  <2> QED BY <2>1, <2>2
<1>14. CASE Members!Abort(p)
  BY <1>8, <1>14 DEF Members!Abort
<1>15. CASE Members!Clone(p)
  <2>1. Considers(p) /\ Remembers(p) /\ proc'[p].pc = "idle" /\ UNCHANGED member
    BY <1>15 DEF Members!Clone, Considers, Remembers, Members!At
  <2> QED BY <2>1, NothingToWrite, SameMembers, SeenStay
<1> QED
  BY <1>2, <1>3, <1>4, <1>5, <1>6, <1>7, <1>9, <1>10, <1>11, <1>12, <1>13, <1>14, <1>15 DEF MemberStep

\* Of any requests, however they interleave: one that adds observers, and since whose count
\* nobody else has written, leaves the session within the limit but for the active observers
\* that it names as non-observers (_get_or_add_peers_to_session keeps their flag and does not
\* count them).  What takes the members over the limit is such a name, or a race; a
\* clone (clone_session) is not spoken of.
THEOREM LimitIsKept ==
  ASSUME IsFiniteSet(Peer), Limit \in Nat, MaxOps \in Nat
  PROVE  Members!Spec => Members!CountedLimit
<1>1. Members!Init => LimitInvariant
  BY TypeInitially, LimitInitially DEF LimitInvariant
<1>2. ASSUME LimitInvariant, [Members!Next]_Members!vars
      PROVE  /\ LimitInvariant'
             /\ \A p \in Request \ raced :
                  proc'[p] # proc[p] /\ Members!Observers(member') \ Members!Observers(member) # {}
                    => Members!Cardinality(Members!Observers(member') \ Members!Overlooked(p)) <= Limit
  <2>1. CASE UNCHANGED Members!vars
    <3>1. CountsHold' /\ ClearsAreNoConfigures'
      BY <1>2, <2>1 DEF LimitInvariant, Members!vars, CountsHold, CountHolds, ClearsAreNoConfigures,
             Members!At, MayAdd, Members!Remaining, Members!Observers, Members!ActiveIn,
             MayConfigure, Members!Asks
    <3>2. AbsentAreNoObservers' /\ SeenAreThere'
      BY <1>2, <2>1 DEF LimitInvariant, Members!vars, AbsentAreNoObservers, SeenAreThere
    <3>3. Members!TypeOK'
      BY <1>2, TypePreserved DEF LimitInvariant
    <3> QED BY <2>1, <3>1, <3>2, <3>3 DEF LimitInvariant, Members!vars
  <2>2. CASE Members!Next
    <3>1. PICK q \in Request : MemberStep(q)
      BY <2>2 DEF Members!Next, MemberStep
    <3>2. LimitInvariant'
      BY <1>2, <3>1, LimitPreserved, TypePreserved DEF LimitInvariant
    <3>3. Considers(q) /\ (q \notin raced => KeepsLimit(q))
      BY <1>2, <3>1, LimitPreserved
    <3> QED BY <3>2, <3>3, MembersCount DEF Considers, KeepsLimit
  <2> QED BY <1>2, <2>1, <2>2
<1> QED BY <1>1, <1>2, PTL DEF Members!Spec, Members!CountedLimit
=============================================================================
