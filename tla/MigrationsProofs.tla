-------------------------- MODULE MigrationsProofs --------------------------
(***************************************************************************)
(* What is proved of the migrations, for any workspaces, peers, databases  *)
(* of the first revision, sizes of pages and numbers of writes: messages,  *)
(* documents and queued work stay what they were when they were written.   *)
(***************************************************************************)
EXTENDS Migrations, FiniteSetTheorems, SequenceTheorems, TLAPS

USE DEF Base, AppColumns, Peers, SessionRequired, WorkUnits, DocumentSession, Observers,
        Sequence, Aligned, QueueColumns, Levels, AnyLevel, OneDream, SoftDelete, Latest

-----------------------------------------------------------------------------
(* Which tables a migration leaves alone. *)

Tables == {"peers", "sessions", "members", "messages", "collections", "documents", "queue",
           "leases"}
Keeps(d, e, tables) == DOMAIN e = Tables /\ \A t \in tables : e[t] = d[t]

LEMMA UpgradesKeep ==
  ASSUME NEW d, DOMAIN d = Tables
  PROVE  /\ Keeps(d, AddAppColumns(d), {"peers", "members", "queue", "leases"})
         /\ \A counted : Keeps(d, AdoptPeers(d, counted), {"queue", "leases"})
         /\ Keeps(d, RequireSession(d), {"peers", "collections", "documents", "queue", "leases"})
         /\ Keeps(d, KeyRows(d), Tables \ {"queue", "leases"})
         /\ Keeps(d, SplitNames(d), {"peers", "members", "messages", "queue", "leases"})
         /\ Keeps(d, Numbered(d), Tables \ {"messages"})
         /\ Keeps(d, MoveOut(d), Tables \ {"queue"})
         /\ Keeps(d, ReadLevels(d), Tables \ {"documents"})
<1> USE DEF Tables, Keeps
<1>1. Keeps(d, AddAppColumns(d), {"peers", "members", "queue", "leases"})
  BY DEF AddAppColumns, DocumentsOfApps, CollectionsOfApps, MessagesOfApps, SessionsOfApps
<1>2. ASSUME NEW counted PROVE Keeps(d, AdoptPeers(d, counted), {"queue", "leases"})
  BY DEF AdoptPeers, UpdateSessions, PopulateSessionPeers, UpdateMessages, UpdateDocuments,
         UpdateCollections
<1>3. Keeps(d, RequireSession(d), {"peers", "collections", "documents", "queue", "leases"})
  BY DEF RequireSession
<1>4. Keeps(d, KeyRows(d), Tables \ {"queue", "leases"})
  BY DEF KeyRows
<1>5. Keeps(d, SplitNames(d), {"peers", "members", "messages", "queue", "leases"})
  BY DEF SplitNames, SplitCollections, SplitDocuments, DropUserCollections, PlaceObservations
<1>6. Keeps(d, Numbered(d), Tables \ {"messages"})
  BY DEF Numbered
<1>7. Keeps(d, MoveOut(d), Tables \ {"queue"})
  BY DEF MoveOut
<1>8. Keeps(d, ReadLevels(d), Tables \ {"documents"})
  BY DEF ReadLevels
<1> QED
  BY <1>1, <1>2, <1>3, <1>4, <1>5, <1>6, <1>7, <1>8

LEMMA DowngradesKeep ==
  ASSUME NEW d, DOMAIN d = Tables
  PROVE  /\ Keeps(d, PlaceDocuments(d), Tables \ {"sessions", "documents"})
         /\ Keeps(d, DropSystemRows(d), Tables \ {"queue", "leases", "documents"})
         /\ Keeps(d, OldLevels(d), Tables \ {"documents"})
         /\ Keeps(d, MoveIn(d), Tables \ {"queue"})
         /\ Keeps(d, WithoutNumbers(d), Tables \ {"messages"})
         /\ Keeps(d, JoinNames(d), Tables \ {"collections", "documents"})
         /\ Keeps(d, DropKeys(d), Tables \ {"queue"})
         /\ \A userOf : Keeps(d, AbandonPeers(d, userOf), {"peers", "queue", "leases"})
<1> USE DEF Tables, Keeps
<1>1. Keeps(d, PlaceDocuments(d), Tables \ {"sessions", "documents"})
  BY DEF PlaceDocuments
<1>2. Keeps(d, DropSystemRows(d), Tables \ {"queue", "leases", "documents"})
  BY DEF DropSystemRows
<1>3. Keeps(d, OldLevels(d), Tables \ {"documents"})
  BY DEF OldLevels
<1>4. Keeps(d, MoveIn(d), Tables \ {"queue"})
  BY DEF MoveIn
<1>5. Keeps(d, WithoutNumbers(d), Tables \ {"messages"})
  BY DEF WithoutNumbers
<1>6. Keeps(d, JoinNames(d), Tables \ {"collections", "documents"})
  BY DEF JoinNames, JoinDocuments, JoinCollections
<1>7. Keeps(d, DropKeys(d), Tables \ {"queue"})
  BY DEF DropKeys
<1>8. ASSUME NEW userOf PROVE Keeps(d, AbandonPeers(d, userOf), {"peers", "queue", "leases"})
  BY DEF AbandonPeers, RestoreSessions, RestoreMessages, RestoreCollections, RestoreDocuments,
         RestoreAppUserColumns
<1> QED
  BY <1>1, <1>2, <1>3, <1>4, <1>5, <1>6, <1>7, <1>8

LEMMA ApplicationKeeps ==
  ASSUME DOMAIN db = Tables
  PROVE  /\ \A w, p, n : PostMessage(w, p, n) =>
                Keeps(db, db', Tables \ {"sessions", "members", "messages"})
         /\ \A w, p, q, name, n, level : Observe(w, p, q, name, n, level) =>
                Keeps(db, db', Tables \ {"collections", "documents"})
         /\ \A task, w, message : Enqueue(task, w, message) => Keeps(db, db', Tables \ {"queue"})
         /\ Lease => Keeps(db, db', Tables \ {"leases"})
         /\ MarkDeleted => Keeps(db, db', Tables \ {"documents"})
<1> USE DEF Tables, Keeps, Write
<1>1. \A w, p, n : PostMessage(w, p, n) => Keeps(db, db', Tables \ {"sessions", "members", "messages"})
  BY DEF PostMessage
<1>2. ASSUME NEW w, NEW p, NEW q, NEW name, NEW n, NEW level, Observe(w, p, q, name, n, level)
      PROVE  Keeps(db, db', Tables \ {"collections", "documents"})
  <2>1. PICK collections, documents :
          db' = [db EXCEPT !.collections = collections, !.documents = documents]
    BY <1>2, Zenon DEF Observe
  <2> QED
    BY <2>1
<1>3. \A task, w, message : Enqueue(task, w, message) => Keeps(db, db', Tables \ {"queue"})
  BY DEF Enqueue
<1>4. (Lease => Keeps(db, db', Tables \ {"leases"})) /\ (MarkDeleted => Keeps(db, db', Tables \ {"documents"}))
  BY DEF Lease, MarkDeleted
<1> QED
  BY <1>1, <1>2, <1>3, <1>4
-----------------------------------------------------------------------------
(* Queued work. *)

RowColumns == {"id", "task", "key", "ws", "message", "payload"}
Promise == [ws : Workspace \union {NoValue}, message : Nat \union {NoValue}]

\* WorkIsKept made inductive: what is promised of a row are the columns it was written with.
WorkInv ==
  /\ DOMAIN db = Tables /\ \A q \in db.queue : DOMAIN q = RowColumns
  /\ rev \in Nat /\ promised \in Seq(Promise)
  /\ WorkIsKept

\* What a row says of its place, before and after the columns.
Payload(q) == q.payload
Columns(q) == [ws |-> q.ws, message |-> q.message]

\* A migration of the queue: every row that was promised has a successor that says the same.
LEMMA QueueMigrates ==
  ASSUME WorkInv, DOMAIN db' = Tables, rev' \in Nat, UNCHANGED promised,
         \A q \in db'.queue : DOMAIN q = RowColumns,
         \A q \in db.queue :
           LET said_ == IF rev >= QueueColumns THEN Columns(q) ELSE Payload(q) IN
           said_ \in Promise /\ said_.ws # NoValue =>
             \E r \in db'.queue :
               r.id = q.id /\ said_ = IF rev' >= QueueColumns THEN Columns(r) ELSE Payload(r)
  PROVE  WorkInv'
<1>1. ASSUME NEW i \in DOMAIN promised, promised[i].ws # NoValue
      PROVE  \E r \in db'.queue :
               r.id = i /\ promised[i] = IF rev' >= QueueColumns THEN Columns(r) ELSE Payload(r)
  <2>1. PICK q \in db.queue :
          q.id = i /\ promised[i] = IF rev >= QueueColumns THEN Columns(q) ELSE Payload(q)
    BY <1>1 DEF WorkInv, WorkIsKept, Columns, Payload
  <2>2. promised[i] \in Promise
    BY DEF WorkInv
  <2> QED
    BY <1>1, <2>1, <2>2
<1>2. WorkIsKept'
  BY <1>1 DEF WorkIsKept, Columns, Payload
<1> QED
  BY <1>2 DEF WorkInv

LEMMA QueueStays ==
  ASSUME WorkInv, DOMAIN db' = Tables, db'.queue = db.queue, UNCHANGED promised, rev' \in Nat,
         rev' >= QueueColumns <=> rev >= QueueColumns
  PROVE  WorkInv'
BY QueueMigrates DEF WorkInv

\* The migrations of the queue.
LEMMA WorkUp ==
  ASSUME WorkInv, Up, UNCHANGED promised
  PROVE  WorkInv'
<1> USE DEF Upgrade
<1>1. DOMAIN db = Tables /\ rev \in Nat /\ \A q \in db.queue : DOMAIN q = RowColumns
  BY DEF WorkInv
<1>2. CASE Upgrade(AppColumns, AddAppColumns(db))
  BY <1>1, <1>2, UpgradesKeep, QueueStays DEF Keeps, Tables
<1>3. CASE \E counted \in Backfilled(db.messages) : Upgrade(Peers, AdoptPeers(db, counted))
  BY <1>1, <1>3, UpgradesKeep, QueueStays DEF Keeps, Tables
<1>4. CASE Upgrade(SessionRequired, RequireSession(db))
  BY <1>1, <1>4, UpgradesKeep, QueueStays DEF Keeps, Tables
<1>5. CASE Upgrade(WorkUnits, KeyRows(db))
  <2>1. DOMAIN db' = Tables /\ rev' \in Nat /\ rev < QueueColumns /\ rev' < QueueColumns
    BY <1>1, <1>5, UpgradesKeep DEF Keeps
  <2>2. db'.queue = {[q EXCEPT !.key = KeyOf(q.task, q.payload.ws)] : q \in db.queue}
    BY <1>1, <1>5 DEF KeyRows, Tables
  <2>3. \A q \in db'.queue : DOMAIN q = RowColumns
    BY <1>1, <2>2
  <2>4. ASSUME NEW q \in db.queue PROVE \E r \in db'.queue : r.id = q.id /\ Payload(q) = Payload(r)
    <3> DEFINE r == [q EXCEPT !.key = KeyOf(q.task, q.payload.ws)]
    <3>1. r \in db'.queue
      BY <2>2
    <3>2. r.id = q.id /\ r.payload = q.payload
      BY <1>1 DEF RowColumns
    <3> QED
      BY <3>1, <3>2 DEF Payload
  <2> QED
    BY <1>1, <2>1, <2>3, <2>4, QueueMigrates
<1>6. CASE Upgrade(DocumentSession, db) \/ Upgrade(Aligned, db) \/ Upgrade(OneDream, db)
             \/ \E r \in {AnyLevel, SoftDelete, Latest} : Upgrade(r, db)
  BY <1>1, <1>6, QueueStays
<1>7. CASE Upgrade(Observers, SplitNames(db)) \/ Upgrade(Sequence, Numbered(db))
             \/ Upgrade(Levels, ReadLevels(db))
  BY <1>1, <1>7, UpgradesKeep, QueueStays DEF Keeps, Tables
<1>8. CASE Upgrade(QueueColumns, MoveOut(db))
  <2>1. DOMAIN db' = Tables /\ rev' \in Nat /\ rev < QueueColumns /\ rev' >= QueueColumns
    BY <1>1, <1>8, UpgradesKeep DEF Keeps
  <2>2. db'.queue = {[q EXCEPT !.ws = q.payload.ws, !.message = q.payload.message,
                                 !.payload = [ws |-> NoValue, message |-> NoValue]] :
                        q \in {r \in db.queue : r.payload.ws # NoValue}}
    BY <1>1, <1>8 DEF MoveOut, Tables
  <2>3. \A q \in db'.queue : DOMAIN q = RowColumns
    BY <1>1, <2>2
  <2>4. ASSUME NEW q \in db.queue, Payload(q) \in Promise, Payload(q).ws # NoValue
        PROVE  \E r \in db'.queue : r.id = q.id /\ Payload(q) = Columns(r)
    <3> DEFINE r == [q EXCEPT !.ws = q.payload.ws, !.message = q.payload.message,
                              !.payload = [ws |-> NoValue, message |-> NoValue]]
    <3>1. r \in db'.queue
      BY <2>2, <2>4 DEF Payload
    <3>2. r.id = q.id /\ r.ws = q.payload.ws /\ r.message = q.payload.message
      BY <1>1 DEF RowColumns
    <3>3. q.payload = [ws |-> q.payload.ws, message |-> q.payload.message]
      BY <2>4 DEF Payload, Promise
    <3> QED
      BY <3>1, <3>2, <3>3 DEF Payload, Columns
  <2> QED
    BY <1>1, <2>1, <2>3, <2>4, QueueMigrates
<1> QED
  BY <1>2, <1>3, <1>4, <1>5, <1>6, <1>7, <1>8 DEF Up

LEMMA WorkDown ==
  ASSUME WorkInv, Down, UNCHANGED promised
  PROVE  WorkInv'
<1> USE DEF Downgrade
<1>1. DOMAIN db = Tables /\ rev \in Nat /\ \A q \in db.queue : DOMAIN q = RowColumns
  BY DEF WorkInv
<1>2. CASE \/ Downgrade(Latest, PlaceDocuments(db)) \/ Downgrade(AnyLevel, OldLevels(db))
           \/ Downgrade(Sequence, WithoutNumbers(db)) \/ Downgrade(Observers, JoinNames(db))
  <2>1. \/ Keeps(db, db', Tables \ {"sessions", "documents"})
        \/ Keeps(db, db', Tables \ {"documents"})
        \/ Keeps(db, db', Tables \ {"messages"})
        \/ Keeps(db, db', Tables \ {"collections", "documents"})
    BY <1>1, <1>2, DowngradesKeep
  <2>2. rev' \in Nat /\ (rev' >= QueueColumns <=> rev >= QueueColumns)
    BY <1>2
  <2>3. db'.queue = db.queue /\ DOMAIN db' = Tables
    BY <2>1 DEF Keeps, Tables
  <2> QED
    BY <2>2, <2>3, QueueStays
<1>3. CASE Downgrade(SoftDelete, DropSystemRows(db))
  <2>1. DOMAIN db' = Tables /\ rev' \in Nat /\ rev >= QueueColumns /\ rev' >= QueueColumns
    BY <1>1, <1>3, DowngradesKeep DEF Keeps
  <2>2. db'.queue = db.queue \ {q \in db.queue : q.ws = NoValue}
    BY <1>1, <1>3 DEF DropSystemRows, Tables
  <2>3. \A q \in db.queue : Columns(q).ws # NoValue => q \in db'.queue
    BY <2>2 DEF Columns
  <2> QED
    BY <1>1, <2>1, <2>2, <2>3, QueueMigrates
<1>4. CASE Downgrade(QueueColumns, MoveIn(db))
  <2>1. DOMAIN db' = Tables /\ rev' \in Nat /\ rev >= QueueColumns /\ ~(rev' >= QueueColumns)
    BY <1>1, <1>4, DowngradesKeep DEF Keeps
  <2>2. db'.queue = {[q EXCEPT !.payload = [ws |-> q.ws, message |-> q.message],
                               !.ws = NoValue, !.message = NoValue] : q \in db.queue}
    BY <1>1, <1>4 DEF MoveIn, Tables
  <2>3. \A q \in db'.queue : DOMAIN q = RowColumns
    BY <1>1, <2>2
  <2>4. ASSUME NEW q \in db.queue PROVE \E r \in db'.queue : r.id = q.id /\ Columns(q) = Payload(r)
    <3> DEFINE r == [q EXCEPT !.payload = [ws |-> q.ws, message |-> q.message],
                              !.ws = NoValue, !.message = NoValue]
    <3>1. r \in db'.queue
      BY <2>2
    <3>2. r.id = q.id /\ r.payload = [ws |-> q.ws, message |-> q.message]
      BY <1>1 DEF RowColumns
    <3> QED
      BY <3>1, <3>2 DEF Payload, Columns
  <2> QED
    BY <1>1, <2>1, <2>3, <2>4, QueueMigrates
<1>5. CASE Downgrade(WorkUnits, DropKeys(db))
  <2>1. DOMAIN db' = Tables /\ rev' \in Nat /\ rev < QueueColumns /\ rev' < QueueColumns
    BY <1>1, <1>5, DowngradesKeep DEF Keeps
  <2>2. db'.queue = {[q EXCEPT !.key = NoValue] : q \in db.queue}
    BY <1>1, <1>5 DEF DropKeys, Tables
  <2>3. \A q \in db'.queue : DOMAIN q = RowColumns
    BY <1>1, <2>2
  <2>4. ASSUME NEW q \in db.queue PROVE \E r \in db'.queue : r.id = q.id /\ Payload(q) = Payload(r)
    <3> DEFINE r == [q EXCEPT !.key = NoValue]
    <3>1. r \in db'.queue
      BY <2>2
    <3>2. r.id = q.id /\ r.payload = q.payload
      BY <1>1 DEF RowColumns
    <3> QED
      BY <3>1, <3>2 DEF Payload
  <2> QED
    BY <1>1, <2>1, <2>3, <2>4, QueueMigrates
<1>6. ASSUME NEW userOf, Downgrade(Peers, AbandonPeers(db, userOf)) PROVE WorkInv'
  BY <1>1, <1>6, DowngradesKeep, QueueStays DEF Keeps, Tables
<1>7. ASSUME NEW r \in {OneDream, Levels, Aligned, DocumentSession, SessionRequired}, Downgrade(r, db)
      PROVE  WorkInv'
  BY <1>1, <1>7, QueueStays
<1> QED
  BY <1>2, <1>3, <1>4, <1>5, <1>6, <1>7 DEF Down

LEMMA WorkEnqueued ==
  ASSUME WorkInv, NEW task, NEW w \in Workspace \union {NoValue}, NEW message \in Nat \union {NoValue},
         Enqueue(task, w, message)
  PROVE  WorkInv'
<1> DEFINE place == [ws |-> w, message |-> message]
           nowhere == [ws |-> NoValue, message |-> NoValue]
           row == [id |-> Len(promised) + 1, task |-> task,
                   key |-> IF rev < WorkUnits THEN NoValue ELSE KeyOf(task, w),
                   ws |-> IF rev < QueueColumns THEN NoValue ELSE w,
                   message |-> IF rev < QueueColumns THEN NoValue ELSE message,
                   payload |-> IF rev < QueueColumns THEN place ELSE nowhere]
<1>1. /\ DOMAIN db = Tables /\ rev \in Nat /\ promised \in Seq(Promise) /\ Len(promised) \in Nat
      /\ \A q \in db.queue : DOMAIN q = RowColumns
  BY DEF WorkInv
<1>2. db' = [db EXCEPT !.queue = @ \union {row}] /\ rev' = rev /\ promised' = Append(promised, place)
  BY DEF Enqueue, Write
<1>3. DOMAIN row = RowColumns
  BY DEF RowColumns
<1>4. row.id = Len(promised) + 1 /\ place = IF rev >= QueueColumns THEN Columns(row) ELSE Payload(row)
  BY <1>1 DEF Columns, Payload
<1>5. place \in Promise
  BY DEF Promise
<1> HIDE DEF row, place
<1>6. DOMAIN db' = Tables /\ db'.queue = db.queue \union {row}
  BY <1>1, <1>2 DEF Tables
<1>7. \A q \in db'.queue : DOMAIN q = RowColumns
  BY <1>1, <1>3, <1>6
<1>8. /\ promised' \in Seq(Promise) /\ DOMAIN promised' = DOMAIN promised \union {Len(promised) + 1}
      /\ promised'[Len(promised) + 1] = place
      /\ \A i \in DOMAIN promised : promised'[i] = promised[i]
  BY <1>1, <1>2, <1>5
<1>9. WorkIsKept'
  <2>1. ASSUME NEW i \in DOMAIN promised', promised'[i].ws # NoValue
        PROVE  \E q \in db'.queue :
                 q.id = i /\ promised'[i] = IF rev' >= QueueColumns THEN Columns(q) ELSE Payload(q)
    <3>1. CASE i = Len(promised) + 1
      BY <1>2, <1>4, <1>6, <1>8, <3>1
    <3>2. CASE i \in DOMAIN promised
      BY <1>2, <1>6, <1>8, <2>1, <3>2 DEF WorkInv, WorkIsKept, Columns, Payload
    <3> QED
      BY <1>8, <3>1, <3>2
  <2> QED
    BY <2>1 DEF WorkIsKept, Columns, Payload
<1> QED
  BY <1>1, <1>2, <1>6, <1>7, <1>8, <1>9 DEF WorkInv

LEMMA WorkInitially == Init => WorkInv
<1> SUFFICES ASSUME Init PROVE WorkInv
  OBVIOUS
<1>1. HasColumns(db) /\ Counts(db.queue) /\ rev \in Nat
  BY InitialAssumption DEF Init, OldDatabase
<1>2. DOMAIN db = Tables /\ \A q \in db.queue : DOMAIN q = RowColumns
  BY <1>1 DEF HasColumns, Tables, RowColumns
<1> DEFINE nowhere == [ws |-> NoValue, message |-> NoValue]
           n == Cardinality(db.queue)
<1>3. n \in Nat /\ {q.id : q \in db.queue} = 1..n
  BY <1>1, FS_CardinalityType DEF Counts
<1>4. promised = [i \in 1..n |-> nowhere]
  BY <1>3 DEF Init
<1>5. nowhere \in Promise /\ nowhere.ws = NoValue
  BY DEF Promise
<1> HIDE DEF nowhere, n
<1>6. promised \in Seq(Promise)
  BY <1>3, <1>4, <1>5
<1>7. WorkIsKept
  BY <1>4, <1>5 DEF WorkIsKept
<1> QED
  BY <1>1, <1>2, <1>6, <1>7 DEF WorkInv

LEMMA WorkStays ==
  ASSUME WorkInv, [Next]_vars
  PROVE  WorkInv'
<1>1. CASE Up /\ UNCHANGED promised
  BY <1>1, WorkUp
<1>2. CASE Down /\ UNCHANGED promised
  BY <1>2, WorkDown
<1>3. CASE UNCHANGED <<db, rev, promised>>
  BY <1>3 DEF WorkInv, WorkIsKept
<1>4. DOMAIN db = Tables /\ rev \in Nat
  BY DEF WorkInv
<1>5. ASSUME NEW w, NEW p, NEW n, PostMessage(w, p, n) PROVE WorkInv'
  <2>1. Keeps(db, db', Tables \ {"sessions", "members", "messages"})
    BY <1>4, <1>5, ApplicationKeeps
  <2>2. UNCHANGED <<rev, promised>>
    BY <1>5 DEF PostMessage, Write
  <2> QED
    BY <1>4, <2>1, <2>2, QueueStays DEF Keeps, Tables
<1>6. ASSUME NEW w, NEW p, NEW q, NEW name, NEW n, NEW level, Observe(w, p, q, name, n, level)
      PROVE  WorkInv'
  <2>1. Keeps(db, db', Tables \ {"collections", "documents"})
    BY <1>4, <1>6, ApplicationKeeps
  <2>2. UNCHANGED <<rev, promised>>
    BY <1>6 DEF Observe, Write
  <2> QED
    BY <1>4, <2>1, <2>2, QueueStays DEF Keeps, Tables
<1>7. CASE Lease \/ MarkDeleted
  <2>1. db'.queue = db.queue /\ DOMAIN db' = Tables
    BY <1>4, <1>7, ApplicationKeeps DEF Keeps, Tables
  <2>2. UNCHANGED <<rev, promised>>
    BY <1>7 DEF Lease, MarkDeleted, Write
  <2> QED
    BY <1>4, <2>1, <2>2, QueueStays
<1>8. ASSUME NEW task, NEW w \in Workspace \union {NoValue}, NEW message \in {NoValue} \union 1..Len(said),
             Enqueue(task, w, message)
      PROVE  WorkInv'
  <2>1. message \in Nat \union {NoValue}
    OBVIOUS
  <2> QED
    BY <1>8, <2>1, WorkEnqueued
<1>9. CASE Migrate
  BY <1>1, <1>2, <1>9 DEF Migrate
<1>10. CASE Application
  BY <1>5, <1>6, <1>7, <1>8, <1>10 DEF Application
<1> QED
  BY <1>3, <1>9, <1>10 DEF Next, vars

\* Work that was queued for a workspace stays queued with its message, through every
\* migration in both directions and whatever the application writes in between.
THEOREM QueuedWorkIsKept == Spec => []WorkIsKept
<1>1. WorkInv => WorkIsKept
  BY DEF WorkInv
<1> QED
  BY <1>1, WorkInitially, WorkStays, PTL DEF Spec
-----------------------------------------------------------------------------
(* Documents. *)

CollectionColumns == {"id", "ws", "name", "peer", "observer", "observed"}
DocumentColumns ==
  {"id", "ws", "session", "collection", "peer", "observer", "observed", "level", "deleted"}

Notes ==
  [observer : Peer \union {NoValue}, observed : Peer \union {NoValue},
   name : Seq(Letter) \union {NoValue}]

\* The names a collection of the pair may have.
NamesOf(p, q) == IF p = q THEN {GlobalName} ELSE {PairName(p, q), PairName(q, p)}

IsHome(c, o) == c.name = o.collection /\ c.peer = o.peer /\ c.ws = o.ws
OfPeers(n) == n.observer \in Peer /\ n.observed \in Peer

\* A document tells the pair of its note: by its columns, or by its owner and the name of
\* a collection that exists.
ByName(d, o, n) ==
  /\ OfPeers(n) /\ ~LedAstray(n) /\ n.name \in NamesOf(n.observer, n.observed)
  /\ o.peer = n.observer /\ o.collection = n.name
  /\ \E c \in d.collections : IsHome(c, o)
ByHome(d, o, n) == n.observer = o.peer /\ n.observed = ObservedBy(Home(d, o))
ByColumns(o, n) == OfPeers(n) /\ n.observer = o.observer /\ n.observed = o.observed
Tells(d, r, down, o, n) ==
  IF r >= Observers THEN ByColumns(o, n)
  ELSE IF down THEN ByHome(d, o, n) ELSE ByName(d, o, n)
ExcusedAt(r, down, n) == LedAstray(n) \/ (down /\ r < Observers /\ JoinedAstray(n))

DocumentShape(d) ==
  /\ DOMAIN d = Tables
  /\ \A c \in d.collections : DOMAIN c = CollectionColumns
  /\ \A o \in d.documents : DOMAIN o = DocumentColumns

\* DocumentsKeepTheirPair made inductive: while names tell the pair and nothing has been
\* downgraded yet, a document's collection exists and has one of the names of the pair.
DocumentInv ==
  /\ DocumentShape(db) /\ rev \in Nat /\ falling \in BOOLEAN /\ noted \in Seq(Notes)
  /\ rev < Peers /\ ~falling => \A i \in DOMAIN noted : noted[i] = Unknown
  /\ rev >= Peers =>
       \A i \in DOMAIN noted :
         noted[i] # Unknown /\ ~ExcusedAt(rev, falling, noted[i]) =>
           \E o \in db.documents : o.id = i /\ Tells(db, rev, falling, o, noted[i])

\* The columns that name peers hold names.
NamesInv ==
  /\ \A x \in db.peers : x.name \in Seq(Letter)
  /\ rev >= Observers => \A c \in db.collections : c.observed \in Seq(Letter)

\* The letters of the name of a pair.
LEMMA PairNames ==
  ASSUME NEW p \in Seq(Letter), NEW q \in Seq(Letter)
  PROVE  /\ PairName(p, q) \in Seq(Letter)
         /\ Len(PairName(p, q)) = Len(p) + 1 + Len(q)
         /\ \A i \in 1..Len(p) : PairName(p, q)[i] = p[i]
         /\ PairName(p, q)[Len(p) + 1] = Underscore
         /\ \A i \in 1..Len(q) : PairName(p, q)[Len(p) + 1 + i] = q[i]
<1>1. Underscore \in Letter
  BY MigrationsAssumption
<1> QED
  BY <1>1 DEF PairName

\* The forward name begins like the observer's, the reversed one ends like it; cutting the
\* observer off leaves the observed peer.
LEMMA ForwardName ==
  ASSUME NEW p \in Seq(Letter), NEW q \in Seq(Letter)
  PROVE  /\ BeginsLike(PairName(p, q), p)
         /\ SubSeq(PairName(p, q), Len(p) + 2, Len(PairName(p, q))) = q
<1> DEFINE name == PairName(p, q)
           rest == SubSeq(name, Len(p) + 2, Len(name))
<1>1. /\ name \in Seq(Letter) /\ Len(name) = Len(p) + 1 + Len(q)
      /\ \A i \in 1..Len(p) : name[i] = p[i]
      /\ \A i \in 1..Len(q) : name[Len(p) + 1 + i] = q[i]
  BY PairNames
<1> HIDE DEF name
<1>2. BeginsLike(name, p)
  BY <1>1 DEF BeginsLike
<1>3. rest \in Seq(Letter) /\ Len(rest) = Len(q)
  BY <1>1
<1>4. ASSUME NEW i \in 1..Len(q) PROVE rest[i] = q[i]
  BY <1>1
<1>5. rest = q
  <2> HIDE DEF rest
  <2> QED
    BY <1>3, <1>4
<1> QED
  BY <1>2, <1>5 DEF name

LEMMA ReversedName ==
  ASSUME NEW p \in Seq(Letter), NEW q \in Seq(Letter)
  PROVE  /\ EndsLike(PairName(q, p), p)
         /\ SubSeq(PairName(q, p), 1, Len(PairName(q, p)) - Len(p) - 1) = q
<1> DEFINE name == PairName(q, p)
           rest == SubSeq(name, 1, Len(name) - Len(p) - 1)
<1>1. /\ name \in Seq(Letter) /\ Len(name) = Len(q) + 1 + Len(p)
      /\ \A i \in 1..Len(q) : name[i] = q[i]
      /\ \A i \in 1..Len(p) : name[Len(q) + 1 + i] = p[i]
  BY PairNames
<1> HIDE DEF name
<1>2. EndsLike(name, p)
  BY <1>1 DEF EndsLike
<1>3. rest \in Seq(Letter) /\ Len(rest) = Len(q)
  BY <1>1
<1>4. ASSUME NEW i \in 1..Len(q) PROVE rest[i] = q[i]
  BY <1>1
<1>5. rest = q
  <2> HIDE DEF rest
  <2> QED
    BY <1>3, <1>4
<1> QED
  BY <1>2, <1>5 DEF name

\* A name that two peers' pairs share begins with the names of both.
LEMMA SharedName ==
  ASSUME NEW q \in Seq(Letter), NEW r \in Seq(Letter)
  PROVE  SubSeq(PairName(q, r), 1, Len(q) + 1) = q \o <<Underscore>>
<1> DEFINE name == PairName(q, r)
           start == SubSeq(name, 1, Len(q) + 1)
           other == q \o <<Underscore>>
<1>1. /\ name \in Seq(Letter) /\ Len(name) = Len(q) + 1 + Len(r)
      /\ \A i \in 1..Len(q) : name[i] = q[i]
      /\ name[Len(q) + 1] = Underscore
  BY PairNames
<1> HIDE DEF name
<1>2. Underscore \in Letter
  BY MigrationsAssumption
<1>3. start \in Seq(Letter) /\ Len(start) = Len(q) + 1
  BY <1>1
<1>4. other \in Seq(Letter) /\ Len(other) = Len(q) + 1
  BY <1>2
<1>5. ASSUME NEW i \in 1..(Len(q) + 1) PROVE start[i] = other[i]
  BY <1>1, <1>2
<1>6. start = other
  <2> HIDE DEF start, other
  <2> QED
    BY <1>3, <1>4, <1>5
<1> QED
  BY <1>6 DEF name

LEMMA NamesTell ==
  ASSUME NEW d, NEW o, NEW n, ByName(d, o, n)
  PROVE  /\ IsHome(Home(d, o), o) /\ Home(d, o) \in d.collections
         /\ ByHome(d, o, n)
         /\ Home(d, o).name = GlobalName \/ IsPairOf(Home(d, o))
<1>1. IsHome(Home(d, o), o) /\ Home(d, o) \in d.collections
  BY DEF ByName, Home, IsHome
<1> DEFINE c == Home(d, o)
           p == n.observer
           q == n.observed
<1>2. p \in Seq(Letter) /\ q \in Seq(Letter)
  BY MigrationsAssumption DEF ByName, OfPeers
<1>3. c.peer = p /\ c.name = n.name /\ n.name \in NamesOf(p, q) /\ o.peer = p
  BY <1>1 DEF ByName, IsHome
<1>4. ~LedAstray(n)
  BY DEF ByName
<1> HIDE DEF c
<1>5. ObservedBy(c) = q /\ (c.name = GlobalName \/ IsPairOf(c))
  <2>1. CASE p = q
    BY <1>3, <2>1 DEF NamesOf, ObservedBy
  <2>2. CASE p # q
    <3>1. n.name # GlobalName /\ n.name \in {PairName(p, q), PairName(q, p)}
      BY <1>3, <1>4, <2>2 DEF NamesOf, LedAstray
    <3>2. CASE n.name = PairName(p, q)
      <4>1. c.name = PairName(p, q) /\ c.peer = p
        BY <1>3, <3>2
      <4>2. BeginsLike(PairName(p, q), p) /\ SubSeq(PairName(p, q), Len(p) + 2, Len(PairName(p, q))) = q
        BY <1>2, ForwardName
      <4>3. BeginsLike(c.name, c.peer) /\ Behind(c) = q
        BY <4>1, <4>2 DEF Behind
      <4> QED
        BY <1>3, <3>1, <4>3 DEF ObservedBy, IsPairOf
    <3>3. CASE n.name # PairName(p, q)
      <4>1. c.name = PairName(q, p) /\ c.peer = p
        BY <1>3, <3>1, <3>3
      <4>2. EndsLike(PairName(q, p), p)
            /\ SubSeq(PairName(q, p), 1, Len(PairName(q, p)) - Len(p) - 1) = q
        BY <1>2, ReversedName
      <4>3. EndsLike(c.name, c.peer) /\ InFront(c) = q
        BY <4>1, <4>2 DEF InFront
      <4>4. ~BeginsLike(c.name, c.peer)
        BY <1>3, <1>4, <2>2, <3>1, <3>3, <4>1 DEF LedAstray
      <4> QED
        BY <1>3, <3>1, <4>3, <4>4 DEF ObservedBy, IsPairOf
    <3> QED
      BY <3>2, <3>3
  <2> QED
    BY <2>1, <2>2
<1> QED
  BY <1>1, <1>3, <1>5 DEF ByHome, c

LEMMA DocumentsTell == DocumentInv => DocumentsKeepTheirPair
<1> SUFFICES ASSUME DocumentInv, rev >= Peers, NEW i \in DOMAIN noted, noted[i] # Unknown,
                    ~Excused(noted[i])
             PROVE  \E o \in db.documents :
                      o.id = i /\ PairOf(o) = <<noted[i].observer, noted[i].observed>>
  BY DEF DocumentsKeepTheirPair
<1>1. PICK o \in db.documents : o.id = i /\ Tells(db, rev, falling, o, noted[i])
  BY DEF DocumentInv, Excused, ExcusedAt
<1>2. ByHome(db, o, noted[i]) \/ rev >= Observers
  BY <1>1, NamesTell DEF Tells
<1> QED
  BY <1>1, <1>2 DEF Tells, PairOf, ByHome, ByColumns
-----------------------------------------------------------------------------
\* A migration under which what a document tells has a successor that tells the same.
LEMMA DocumentsMigrate ==
  ASSUME DocumentInv, rev >= Peers, DocumentShape(db'), rev' \in Nat, falling' \in BOOLEAN,
         UNCHANGED noted, rev' >= Peers \/ falling',
         falling => falling', falling => rev' <= rev,
         rev' >= Peers =>
           \A o \in db.documents : \A n :
             Tells(db, rev, falling, o, n) /\ ~ExcusedAt(rev', falling', n) =>
               \E x \in db'.documents : x.id = o.id /\ Tells(db', rev', falling', x, n)
  PROVE  DocumentInv'
<1>1. ASSUME rev' >= Peers, NEW i \in DOMAIN noted, noted[i] # Unknown,
             ~ExcusedAt(rev', falling', noted[i])
      PROVE  \E o \in db'.documents : o.id = i /\ Tells(db', rev', falling', o, noted[i])
  <2>1. ~ExcusedAt(rev, falling, noted[i])
    BY <1>1 DEF ExcusedAt, DocumentInv
  <2>2. PICK o \in db.documents : o.id = i /\ Tells(db, rev, falling, o, noted[i])
    BY <1>1, <2>1 DEF DocumentInv
  <2> QED
    BY <1>1, <2>2
<1>2. DocumentInv' <=>
        /\ DocumentShape(db') /\ rev' \in Nat /\ falling' \in BOOLEAN /\ noted' \in Seq(Notes)
        /\ rev' < Peers /\ ~falling' => \A i \in DOMAIN noted' : noted'[i] = Unknown
        /\ rev' >= Peers =>
             \A i \in DOMAIN noted' :
               noted'[i] # Unknown /\ ~ExcusedAt(rev', falling', noted'[i]) =>
                 \E o \in db'.documents : o.id = i /\ Tells(db', rev', falling', o, noted'[i])
  BY DEF DocumentInv
<1>3. noted' = noted /\ noted \in Seq(Notes) /\ ~(rev' < Peers /\ ~falling')
  BY DEF DocumentInv
<1> QED
  BY <1>1, <1>2, <1>3

\* What the pair is told by.
Telling(o) == <<o.id, o.ws, o.collection, o.peer, o.observer, o.observed>>

\* A step that touches other columns of documents, or none, and no collection.
LEMMA DocumentsStay ==
  ASSUME DocumentInv, rev >= Peers, DocumentShape(db'), rev' \in Nat, UNCHANGED noted,
         db'.collections = db.collections, falling' \in BOOLEAN, falling => falling',
         falling => rev' <= rev, rev' >= Peers, rev >= Observers <=> rev' >= Observers,
         \A o \in db.documents : \E x \in db'.documents : Telling(x) = Telling(o)
  PROVE  DocumentInv'
<1>1. ASSUME NEW o \in db.documents, NEW n, Tells(db, rev, falling, o, n)
      PROVE  \E x \in db'.documents : x.id = o.id /\ Tells(db', rev', falling', x, n)
  <2>1. PICK x \in db'.documents : Telling(x) = Telling(o)
    OBVIOUS
  <2>2. /\ x.id = o.id /\ x.ws = o.ws /\ x.collection = o.collection /\ x.peer = o.peer
        /\ x.observer = o.observer /\ x.observed = o.observed
    BY <2>1 DEF Telling
  <2>3. ByColumns(o, n) => ByColumns(x, n)
    BY <2>2 DEF ByColumns
  <2>4. ByName(db, o, n) => ByName(db', x, n)
    BY <2>2 DEF ByName, IsHome
  <2>5. ByHome(db, o, n) => ByHome(db', x, n)
    BY <2>2 DEF ByHome, Home
  <2>6. ByName(db', x, n) => ByHome(db', x, n)
    BY NamesTell
  <2>7. Tells(db', rev', falling', x, n)
    BY <1>1, <2>3, <2>4, <2>5, <2>6 DEF Tells, DocumentInv
  <2> QED
    BY <2>2, <2>7
<1> QED
  BY <1>1, DocumentsMigrate

\* The columns of documents and collections, step by step.
LEMMA ShapesUp ==
  ASSUME NEW d, DocumentShape(d)
  PROVE  /\ DocumentShape(AddAppColumns(d))
         /\ \A counted : DocumentShape(AdoptPeers(d, counted))
         /\ DocumentShape(SplitNames(d))
         /\ DocumentShape(ReadLevels(d))
<1> USE DEF Tables, DocumentShape, CollectionColumns, DocumentColumns
<1>1. ASSUME NEW e, DocumentShape(e)
      PROVE  /\ DocumentShape(SessionsOfApps(e)) /\ DocumentShape(MessagesOfApps(e))
             /\ DocumentShape(CollectionsOfApps(e)) /\ DocumentShape(DocumentsOfApps(e))
  <2>1. DocumentShape(SessionsOfApps(e)) /\ DocumentShape(MessagesOfApps(e))
    BY <1>1 DEF SessionsOfApps, MessagesOfApps
  <2>2. DocumentShape(CollectionsOfApps(e))
    BY <1>1 DEF CollectionsOfApps
  <2>3. DocumentShape(DocumentsOfApps(e))
    BY <1>1 DEF DocumentsOfApps
  <2> QED
    BY <2>1, <2>2, <2>3
<1>2. ASSUME NEW e, NEW counted, NEW S, DocumentShape(e)
      PROVE  /\ DocumentShape(UpdateSessions(e)) /\ DocumentShape(PopulateSessionPeers(e))
             /\ DocumentShape(UpdateMessages(e, counted)) /\ DocumentShape(UpdateCollections(e))
             /\ DocumentShape(UpdateDocuments(e)) /\ DocumentShape([e EXCEPT !.sessions = S])
  <2>1. DocumentShape(UpdateSessions(e)) /\ DocumentShape([e EXCEPT !.sessions = S])
    BY <1>2 DEF UpdateSessions
  <2>2. DocumentShape(PopulateSessionPeers(e)) /\ DocumentShape(UpdateMessages(e, counted))
    BY <1>2 DEF PopulateSessionPeers, UpdateMessages
  <2>3. DocumentShape(UpdateCollections(e))
    BY <1>2 DEF UpdateCollections
  <2>4. DocumentShape(UpdateDocuments(e))
    BY <1>2 DEF UpdateDocuments
  <2> QED
    BY <2>1, <2>2, <2>3, <2>4
<1>3. ASSUME NEW e, DocumentShape(e)
      PROVE  /\ DocumentShape(PlaceObservations(e)) /\ DocumentShape(DropUserCollections(e))
             /\ DocumentShape(SplitDocuments(e)) /\ DocumentShape(SplitCollections(e))
             /\ DocumentShape(ReadLevels(e))
  <2>1. DocumentShape(PlaceObservations(e)) /\ DocumentShape(ReadLevels(e))
    BY <1>3 DEF PlaceObservations, ReadLevels
  <2>2. DocumentShape(DropUserCollections(e))
    BY <1>3 DEF DropUserCollections
  <2>3. DocumentShape(SplitDocuments(e))
    BY <1>3 DEF SplitDocuments
  <2>4. DocumentShape(SplitCollections(e))
    BY <1>3 DEF SplitCollections
  <2> QED
    BY <2>1, <2>2, <2>3, <2>4
<1> HIDE DEF DocumentShape
<1>4. DocumentShape(AddAppColumns(d))
  BY <1>1 DEF AddAppColumns
<1>5. \A counted : DocumentShape(AdoptPeers(d, counted))
  BY <1>2 DEF AdoptPeers
<1>6. DocumentShape(SplitNames(d)) /\ DocumentShape(ReadLevels(d))
  BY <1>3 DEF SplitNames
<1> QED
  BY <1>4, <1>5, <1>6

LEMMA ShapesDown ==
  ASSUME NEW d, DocumentShape(d)
  PROVE  /\ DocumentShape(PlaceDocuments(d)) /\ DocumentShape(DropSystemRows(d))
         /\ DocumentShape(OldLevels(d)) /\ DocumentShape(JoinNames(d))
         /\ \A userOf : DocumentShape(AbandonPeers(d, userOf))
<1> USE DEF Tables, DocumentShape, CollectionColumns, DocumentColumns
<1>1. DocumentShape(PlaceDocuments(d)) /\ DocumentShape(OldLevels(d))
  BY DEF PlaceDocuments, OldLevels
<1>2. DocumentShape(DropSystemRows(d))
  BY DEF DropSystemRows
<1>3. ASSUME NEW e, NEW userOf, DocumentShape(e)
      PROVE  /\ DocumentShape(JoinCollections(e)) /\ DocumentShape(JoinDocuments(e))
             /\ DocumentShape(RestoreAppUserColumns(e, userOf)) /\ DocumentShape(RestoreDocuments(e))
             /\ DocumentShape(RestoreCollections(e)) /\ DocumentShape(RestoreMessages(e))
             /\ DocumentShape([e EXCEPT !.members = {}]) /\ DocumentShape(RestoreSessions(e))
  <2>1. DocumentShape(JoinCollections(e))
    BY <1>3 DEF JoinCollections
  <2>2. DocumentShape(JoinDocuments(e))
    BY <1>3 DEF JoinDocuments
  <2>3. DocumentShape(RestoreAppUserColumns(e, userOf)) /\ DocumentShape([e EXCEPT !.members = {}])
        /\ DocumentShape(RestoreSessions(e))
    BY <1>3 DEF RestoreAppUserColumns, RestoreSessions
  <2>4. DocumentShape(RestoreDocuments(e))
    BY <1>3 DEF RestoreDocuments
  <2>5. DocumentShape(RestoreCollections(e))
    BY <1>3 DEF RestoreCollections
  <2>6. DocumentShape(RestoreMessages(e))
    BY <1>3 DEF RestoreMessages
  <2> QED
    BY <2>1, <2>2, <2>3, <2>4, <2>5, <2>6
<1> HIDE DEF DocumentShape
<1>4. DocumentShape(JoinNames(d))
  BY <1>3 DEF JoinNames
<1>5. \A userOf : DocumentShape(AbandonPeers(d, userOf))
  BY <1>3 DEF AbandonPeers
<1> QED
  BY <1>1, <1>2, <1>4, <1>5

\* 08894082221a: what a name told, the columns tell.
LEMMA SplitTells ==
  ASSUME NEW d, DocumentShape(d), NEW o \in d.documents, NEW n, ByName(d, o, n)
  PROVE  \E x \in SplitNames(d).documents : x.id = o.id /\ ByColumns(x, n)
<1> DEFINE d1 == PlaceObservations(d)
           d2 == DropUserCollections(d1)
           d3 == SplitDocuments(d2)
           o1 == [o EXCEPT !.session = IF @ = NoValue THEN GlobalObservations ELSE @]
           o3 == [o1 EXCEPT !.observer = o1.peer, !.observed = ObservedBy(Home(d2, o1)),
                            !.peer = NoValue, !.collection = NoValue]
<1>1. DOMAIN o = DocumentColumns /\ DOMAIN o1 = DocumentColumns /\ DOMAIN d = Tables
  BY DEF DocumentShape
<1>2. /\ o1.id = o.id /\ o1.collection = o.collection /\ o1.peer = o.peer /\ o1.ws = o.ws
  BY <1>1 DEF DocumentColumns
<1>3. /\ d1.collections = d.collections /\ DOMAIN d1 = Tables
      /\ d1.documents = {[x EXCEPT !.session = IF @ = NoValue THEN GlobalObservations ELSE @] :
                           x \in d.documents}
  BY <1>1 DEF PlaceObservations, Tables
<1>4. o1 \in d1.documents
  BY <1>3
<1> HIDE DEF o1
<1>5. ByName(d1, o1, n)
  BY <1>2, <1>3 DEF ByName, IsHome
<1> HIDE DEF d1
<1>6. /\ DOMAIN d2 = Tables
      /\ d2.collections = {c \in d1.collections : c.name = GlobalName \/ IsPairOf(c)}
      /\ d2.documents = {x \in d1.documents : Home(d1, x) \in d2.collections}
  BY <1>3 DEF DropUserCollections, Tables
<1>7. o1 \in d2.documents /\ ByName(d2, o1, n)
  <2>1. /\ IsHome(Home(d1, o1), o1) /\ Home(d1, o1) \in d1.collections
        /\ Home(d1, o1).name = GlobalName \/ IsPairOf(Home(d1, o1))
    BY <1>5, NamesTell
  <2>2. Home(d1, o1) \in d2.collections
    BY <1>6, <2>1
  <2> QED
    BY <1>4, <1>5, <1>6, <2>1, <2>2 DEF ByName
<1> HIDE DEF d2
<1>8. ByHome(d2, o1, n)
  BY <1>7, NamesTell
<1>9. /\ DOMAIN d3 = Tables
      /\ d3.documents = {[x EXCEPT !.observer = x.peer, !.observed = ObservedBy(Home(d2, x)),
                                   !.peer = NoValue, !.collection = NoValue] : x \in d2.documents}
  BY <1>6 DEF SplitDocuments, Tables
<1>10. o3 \in d3.documents
  BY <1>7, <1>9
<1>11. o3.id = o1.id /\ o3.observer = o1.peer /\ o3.observed = ObservedBy(Home(d2, o1))
  BY <1>1 DEF DocumentColumns
<1> HIDE DEF o3, d3
<1>12. SplitCollections(d3).documents = d3.documents
  BY <1>9 DEF SplitCollections, Tables
<1>13. SplitNames(d) = SplitCollections(d3)
  BY DEF SplitNames, d3, d2, d1
<1> QED
  BY <1>2, <1>7, <1>8, <1>10, <1>11, <1>12, <1>13 DEF ByColumns, ByHome, ByName

\* 08894082221a back: only documents of a peer about itself find their collection, whose
\* name tells the pair, as long as none of the observed peer's names is theirs.
LEMMA JoinTells ==
  ASSUME NEW d, DocumentShape(d), NEW o \in d.documents, NEW n, ByColumns(o, n), ~JoinedAstray(n),
         \A c \in d.collections : c.observed \in Seq(Letter),
         DocumentsHaveCollections(JoinNames(d))
  PROVE  \E x \in JoinNames(d).documents : x.id = o.id /\ ByHome(JoinNames(d), x, n)
<1> DEFINE e == JoinNames(d)
           x == [o EXCEPT !.collection = JoinedName(o), !.peer = o.observed,
                          !.observer = NoValue, !.observed = NoValue]
<1>1. DOMAIN d = Tables /\ DOMAIN o = DocumentColumns /\ \A c \in d.collections : DOMAIN c = CollectionColumns
  BY DEF DocumentShape
<1>2. /\ e.collections = {[c EXCEPT !.name = JoinedName(c), !.peer = c.observer,
                                    !.observer = NoValue, !.observed = NoValue] : c \in d.collections}
      /\ e.documents = {[y EXCEPT !.collection = JoinedName(y), !.peer = y.observed,
                                  !.observer = NoValue, !.observed = NoValue] : y \in d.documents}
  BY <1>1 DEF JoinNames, JoinDocuments, JoinCollections, Tables
<1>3. x \in e.documents
  BY <1>2
<1>4. x.id = o.id /\ x.collection = JoinedName(o) /\ x.peer = o.observed
  BY <1>1 DEF DocumentColumns
<1> HIDE DEF e, x
<1>5. \E c \in e.collections : c.name = x.collection /\ c.peer = x.peer /\ c.ws = x.ws
  BY <1>3 DEF DocumentsHaveCollections, e
<1> DEFINE h == Home(e, x)
<1>6. h \in e.collections /\ h.name = JoinedName(o) /\ h.peer = o.observed
  BY <1>4, <1>5 DEF Home
<1> HIDE DEF h
<1> DEFINE Joined(c) == [c EXCEPT !.name = JoinedName(c), !.peer = c.observer,
                                  !.observer = NoValue, !.observed = NoValue]
<1>7. PICK c \in d.collections : h = Joined(c)
  <2>1. e.collections = {Joined(c) : c \in d.collections}
    BY <1>2
  <2> HIDE DEF Joined
  <2> QED
    BY <1>6, <2>1
<1>8. h.name = JoinedName(c) /\ h.peer = c.observer
  BY <1>1, <1>7 DEF CollectionColumns
<1>9. o.observer = o.observed
  <2>1. SUFFICES ASSUME o.observer # o.observed PROVE FALSE
    OBVIOUS
  <2>2. JoinedName(c) = PairName(o.observer, o.observed) /\ c.observer = o.observed
    BY <1>6, <1>8, <2>1 DEF JoinedName
  <2>3. /\ o.observed \in Seq(Letter) /\ c.observed \in Seq(Letter)
        /\ n.observer = o.observer /\ n.observed = o.observed
    BY MigrationsAssumption DEF ByColumns, OfPeers
  <2>4. PairName(o.observer, o.observed) # GlobalName
    BY <2>1, <2>3 DEF JoinedAstray
  <2>5. PairName(o.observer, o.observed) = PairName(o.observed, c.observed)
    BY <2>2, <2>4 DEF JoinedName
  <2>6. SubSeq(PairName(o.observer, o.observed), 1, Len(o.observed) + 1) = o.observed \o <<Underscore>>
    BY <2>3, <2>5, SharedName
  <2> QED
    BY <2>1, <2>3, <2>6 DEF JoinedAstray
<1>10. ObservedBy(h) = o.observed
  BY <1>6, <1>9 DEF JoinedName, ObservedBy
<1> QED
  BY <1>3, <1>4, <1>9, <1>10 DEF ByHome, ByColumns, h, e

\* Documents with other values in columns that tell nothing.
LEMMA Retouched ==
  ASSUME NEW d, DocumentShape(d), NEW o \in d.documents, NEW v
  PROVE  /\ Telling([o EXCEPT !.session = v]) = Telling(o)
         /\ Telling([o EXCEPT !.level = v]) = Telling(o)
         /\ Telling([o EXCEPT !.deleted = v]) = Telling(o)
<1>1. DOMAIN o = DocumentColumns
  BY DEF DocumentShape
<1> QED
  BY <1>1 DEF Telling, DocumentColumns

LEMMA DocumentsUp ==
  ASSUME DocumentInv, Up, UNCHANGED noted
  PROVE  DocumentInv'
<1> USE DEF Upgrade
<1>1. /\ DocumentShape(db) /\ DOMAIN db = Tables /\ rev \in Nat
      /\ falling = FALSE /\ falling' = FALSE
  BY DEF DocumentInv, DocumentShape, Up
<1>2. CASE Upgrade(AppColumns, AddAppColumns(db))
  <2>1. DocumentShape(db') /\ rev < Peers /\ rev' < Peers /\ rev' \in Nat
    BY <1>1, <1>2, ShapesUp
  <2> QED
    BY <1>1, <2>1 DEF DocumentInv
<1>3. CASE \E counted \in Backfilled(db.messages) : Upgrade(Peers, AdoptPeers(db, counted))
  <2>1. DocumentShape(db') /\ rev < Peers /\ rev' = Peers
    BY <1>1, <1>3, ShapesUp
  <2>2. \A i \in DOMAIN noted' : noted'[i] = Unknown
    BY <1>1, <2>1 DEF DocumentInv
  <2> QED
    BY <1>1, <2>1, <2>2 DEF DocumentInv
<1>4. ASSUME rev >= Peers, rev' >= Peers, rev' \in Nat, rev >= Observers <=> rev' >= Observers,
             DocumentShape(db'), db'.collections = db.collections,
             \A o \in db.documents : \E x \in db'.documents : Telling(x) = Telling(o)
      PROVE  DocumentInv'
  BY <1>1, <1>4, DocumentsStay
<1>5. ASSUME rev >= Peers, rev' >= Peers, rev' \in Nat, rev >= Observers <=> rev' >= Observers,
             DOMAIN db' = Tables, db'.collections = db.collections, db'.documents = db.documents
      PROVE  DocumentInv'
  BY <1>1, <1>4, <1>5 DEF DocumentShape
<1>6. CASE Upgrade(SessionRequired, RequireSession(db)) \/ Upgrade(WorkUnits, KeyRows(db))
  BY <1>1, <1>5, <1>6, UpgradesKeep DEF Keeps, Tables
<1>7. CASE Upgrade(DocumentSession, db) \/ Upgrade(Aligned, db) \/ Upgrade(OneDream, db)
             \/ \E r \in {AnyLevel, SoftDelete, Latest} : Upgrade(r, db)
  BY <1>1, <1>5, <1>7
<1>8. CASE Upgrade(Sequence, Numbered(db))
  BY <1>1, <1>5, <1>8, UpgradesKeep DEF Keeps, Tables
<1>9. CASE Upgrade(QueueColumns, MoveOut(db))
  BY <1>1, <1>5, <1>9, UpgradesKeep DEF Keeps, Tables
<1>10. CASE Upgrade(Levels, ReadLevels(db))
  <2>1. DocumentShape(db') /\ db'.collections = db.collections
    BY <1>1, <1>10, ShapesUp, UpgradesKeep DEF Keeps, Tables
  <2>2. db'.documents = {[o EXCEPT !.level = IF @ = NoValue THEN "explicit" ELSE @] : o \in db.documents}
    BY <1>1, <1>10 DEF ReadLevels, Tables
  <2>3. ASSUME NEW o \in db.documents PROVE \E x \in db'.documents : Telling(x) = Telling(o)
    <3> DEFINE x == [o EXCEPT !.level = IF @ = NoValue THEN "explicit" ELSE @]
    <3>1. x \in db'.documents
      BY <2>2
    <3>2. Telling(x) = Telling(o)
      BY <1>1, Retouched
    <3> QED
      BY <3>1, <3>2
  <2> QED
    BY <1>4, <1>10, <2>1, <2>3
<1>11. CASE Upgrade(Observers, SplitNames(db))
  <2>1. DocumentShape(db') /\ rev >= Peers /\ ~(rev >= Observers) /\ rev' = Observers
    BY <1>1, <1>11, ShapesUp
  <2>2. ASSUME NEW o \in db.documents, NEW n, Tells(db, rev, falling, o, n),
               ~ExcusedAt(rev', falling', n)
        PROVE  \E x \in db'.documents : x.id = o.id /\ Tells(db', rev', falling', x, n)
    <3>1. ByName(db, o, n)
      BY <1>1, <2>1, <2>2 DEF Tells
    <3>2. \E x \in db'.documents : x.id = o.id /\ ByColumns(x, n)
      BY <1>1, <1>11, <3>1, SplitTells
    <3> QED
      BY <2>1, <3>2 DEF Tells
  <2>3. rev' \in Nat /\ rev' >= Peers
    BY <1>11
  <2>4. falling' \in BOOLEAN /\ ~falling
    BY <1>1
  <2> QED
    BY <2>1, <2>2, <2>3, <2>4, DocumentsMigrate
<1> QED
  BY <1>2, <1>3, <1>6, <1>7, <1>8, <1>9, <1>10, <1>11 DEF Up

LEMMA DocumentsDown ==
  ASSUME DocumentInv, NamesInv, Down, UNCHANGED noted
  PROVE  DocumentInv'
<1> USE DEF Downgrade
<1>1. /\ DocumentShape(db) /\ DOMAIN db = Tables /\ rev \in Nat /\ falling' = TRUE
      /\ rev' <= rev
  BY DEF DocumentInv, DocumentShape, Down
<1>2. ASSUME rev >= Peers, rev' >= Peers, rev' \in Nat, rev >= Observers <=> rev' >= Observers,
             DocumentShape(db'), db'.collections = db.collections,
             \A o \in db.documents : \E x \in db'.documents : Telling(x) = Telling(o)
      PROVE  DocumentInv'
  BY <1>1, <1>2, DocumentsStay
<1>3. ASSUME rev >= Peers, rev' >= Peers, rev' \in Nat, rev >= Observers <=> rev' >= Observers,
             DOMAIN db' = Tables, db'.collections = db.collections, db'.documents = db.documents
      PROVE  DocumentInv'
  BY <1>1, <1>2, <1>3 DEF DocumentShape
<1>4. CASE Downgrade(Latest, PlaceDocuments(db))
  <2>1. DocumentShape(db') /\ db'.collections = db.collections
    BY <1>1, <1>4, ShapesDown, DowngradesKeep DEF Keeps, Tables
  <2>2. db'.documents = {[o EXCEPT !.session = IF @ = NoValue THEN Orphaned ELSE @] : o \in db.documents}
    BY <1>1, <1>4 DEF PlaceDocuments, Tables
  <2>3. ASSUME NEW o \in db.documents PROVE \E x \in db'.documents : Telling(x) = Telling(o)
    <3> DEFINE x == [o EXCEPT !.session = IF @ = NoValue THEN Orphaned ELSE @]
    <3>1. x \in db'.documents
      BY <2>2
    <3>2. Telling(x) = Telling(o)
      BY <1>1, Retouched
    <3> QED
      BY <3>1, <3>2
  <2> QED
    BY <1>2, <1>4, <2>1, <2>3
<1>5. CASE Downgrade(SoftDelete, DropSystemRows(db))
  <2>1. DocumentShape(db') /\ db'.collections = db.collections
    BY <1>1, <1>5, ShapesDown, DowngradesKeep DEF Keeps, Tables
  <2>2. db'.documents = {[o EXCEPT !.deleted = FALSE] : o \in db.documents}
    BY <1>1, <1>5 DEF DropSystemRows, Tables
  <2>3. ASSUME NEW o \in db.documents PROVE \E x \in db'.documents : Telling(x) = Telling(o)
    <3> DEFINE x == [o EXCEPT !.deleted = FALSE]
    <3>1. x \in db'.documents
      BY <2>2
    <3>2. Telling(x) = Telling(o)
      BY <1>1, Retouched
    <3> QED
      BY <3>1, <3>2
  <2> QED
    BY <1>2, <1>5, <2>1, <2>3
<1>6. CASE Downgrade(AnyLevel, OldLevels(db))
  <2>1. DocumentShape(db') /\ db'.collections = db.collections
    BY <1>1, <1>6, ShapesDown, DowngradesKeep DEF Keeps, Tables
  <2>2. db'.documents = {[o EXCEPT !.level = IF @ \in OldLevel THEN @ ELSE "explicit"] : o \in db.documents}
    BY <1>1, <1>6 DEF OldLevels, Tables
  <2>3. ASSUME NEW o \in db.documents PROVE \E x \in db'.documents : Telling(x) = Telling(o)
    <3> DEFINE x == [o EXCEPT !.level = IF @ \in OldLevel THEN @ ELSE "explicit"]
    <3>1. x \in db'.documents
      BY <2>2
    <3>2. Telling(x) = Telling(o)
      BY <1>1, Retouched
    <3> QED
      BY <3>1, <3>2
  <2> QED
    BY <1>2, <1>6, <2>1, <2>3
<1>7. CASE Downgrade(QueueColumns, MoveIn(db))
  <2>1. Keeps(db, db', Tables \ {"queue"})
    BY <1>1, <1>7, DowngradesKeep
  <2>2. DOMAIN db' = Tables /\ db'.collections = db.collections /\ db'.documents = db.documents
    BY <2>1 DEF Keeps, Tables
  <2> QED
    BY <1>1, <1>3, <1>7, <2>2
<1>8. CASE Downgrade(Sequence, WithoutNumbers(db))
  <2>1. Keeps(db, db', Tables \ {"messages"})
    BY <1>1, <1>8, DowngradesKeep
  <2>2. DOMAIN db' = Tables /\ db'.collections = db.collections /\ db'.documents = db.documents
    BY <2>1 DEF Keeps, Tables
  <2> QED
    BY <1>1, <1>3, <1>8, <2>2
<1>9. CASE Downgrade(WorkUnits, DropKeys(db))
  <2>1. Keeps(db, db', Tables \ {"queue"})
    BY <1>1, <1>9, DowngradesKeep
  <2>2. DOMAIN db' = Tables /\ db'.collections = db.collections /\ db'.documents = db.documents
    BY <2>1 DEF Keeps, Tables
  <2> QED
    BY <1>1, <1>3, <1>9, <2>2
<1>10. CASE Downgrade(Observers, JoinNames(db)) /\ DocumentsHaveCollections(db')
  <2>1. DocumentShape(db') /\ rev >= Peers /\ rev >= Observers /\ rev' >= Peers
        /\ ~(rev' >= Observers) /\ rev' \in Nat
    BY <1>1, <1>10, ShapesDown
  <2>2. ASSUME NEW o \in db.documents, NEW n, Tells(db, rev, falling, o, n),
               ~ExcusedAt(rev', falling', n)
        PROVE  \E x \in db'.documents : x.id = o.id /\ Tells(db', rev', falling', x, n)
    <3>1. ByColumns(o, n)
      BY <2>1, <2>2 DEF Tells
    <3>2. ~JoinedAstray(n) /\ \A c \in db.collections : c.observed \in Seq(Letter)
      BY <1>1, <2>1, <2>2 DEF ExcusedAt, NamesInv
    <3>3. \E x \in db'.documents : x.id = o.id /\ ByHome(db', x, n)
      BY <1>1, <1>10, <3>1, <3>2, JoinTells
    <3> QED
      BY <1>1, <2>1, <3>3 DEF Tells
  <2> QED
    BY <1>1, <1>10, <2>1, <2>2, DocumentsMigrate
<1>11. ASSUME NEW userOf, Downgrade(Peers, AbandonPeers(db, userOf)) PROVE DocumentInv'
  <2>1. DocumentShape(db') /\ rev >= Peers /\ ~(rev' >= Peers) /\ rev' \in Nat
    BY <1>1, <1>11, ShapesDown
  <2> QED
    BY <1>1, <2>1, DocumentsMigrate
<1>12. ASSUME NEW r \in {OneDream, Levels, Aligned, DocumentSession, SessionRequired}, Downgrade(r, db)
       PROVE  DocumentInv'
  BY <1>1, <1>3, <1>12
<1> QED
  BY <1>4, <1>5, <1>6, <1>7, <1>8, <1>9, <1>10, <1>11, <1>12 DEF Down

LEMMA DocumentWritten ==
  ASSUME DocumentInv, NEW w, NEW p \in Peer, NEW q \in Peer, NEW name, NEW n, NEW level,
         Observe(w, p, q, name, n, level)
  PROVE  DocumentInv'
<1> DEFINE c == Collection(w, p, q, name)
           document == [id |-> Len(noted) + 1, ws |-> w, session |-> n, collection |-> c.name,
                        peer |-> c.peer, observer |-> c.observer, observed |-> c.observed,
                        level |-> level, deleted |-> FALSE]
           new == {b \in {c} : ~\E x \in db.collections : SameCollection(x, b)}
           note == [observer |-> p, observed |-> q, name |-> c.name]
<1>1. /\ DOMAIN db = Tables /\ rev \in Nat /\ falling = FALSE /\ rev >= Peers
      /\ noted \in Seq(Notes) /\ Len(noted) \in Nat
      /\ (\A x \in db.collections : DOMAIN x = CollectionColumns)
      /\ \A o \in db.documents : DOMAIN o = DocumentColumns
  BY DEF DocumentInv, DocumentShape, Observe, Write, MayWrite
<1>2. /\ db' = [db EXCEPT !.collections = @ \union new, !.documents = @ \union {document}]
      /\ UNCHANGED <<rev, falling>> /\ noted' = Append(noted, note)
      /\ IF p = q THEN name = GlobalName ELSE name \in {PairName(p, q), PairName(q, p)}
  BY DEF Observe, Write
<1>3. DOMAIN c = CollectionColumns /\ DOMAIN document = DocumentColumns
  BY DEF Collection, CollectionColumns, DocumentColumns
<1>4. document.id = Len(noted) + 1 /\ document.ws = w /\ document.collection = c.name
      /\ document.peer = c.peer /\ document.observer = c.observer /\ document.observed = c.observed
  OBVIOUS
<1>5. /\ rev < Observers => c.name = name /\ c.peer = p /\ c.ws = w
      /\ rev >= Observers => c.observer = p /\ c.observed = q
  BY <1>1 DEF Collection
<1>6. \E x \in db.collections \union new : x.name = c.name /\ x.peer = c.peer /\ x.ws = c.ws
  <2>1. CASE \E x \in db.collections : SameCollection(x, c)
    BY <2>1 DEF SameCollection
  <2>2. CASE ~\E x \in db.collections : SameCollection(x, c)
    <3>1. c \in new
      BY <2>2
    <3> QED
      BY <3>1
  <2> QED
    BY <2>1, <2>2
<1>7. \A b \in new : b = c
  OBVIOUS
<1>8. /\ note.observer = p /\ note.observed = q /\ note.name = c.name /\ OfPeers(note)
      /\ note \in Notes
  <2>1. p \in Seq(Letter) /\ q \in Seq(Letter) /\ GlobalName \in Seq(Letter)
    BY MigrationsAssumption
  <2>2. name \in Seq(Letter)
    BY <1>2, <2>1, PairNames
  <2>3. c.name \in {name, NoValue}
    BY DEF Collection
  <2> QED
    BY <2>2, <2>3 DEF Notes, OfPeers
<1> HIDE DEF c, document, new, note
<1>9. /\ DOMAIN db' = Tables /\ db'.collections = db.collections \union new
      /\ db'.documents = db.documents \union {document}
  BY <1>1, <1>2 DEF Tables
<1>10. DocumentShape(db')
  BY <1>1, <1>3, <1>7, <1>9 DEF DocumentShape
<1>11. /\ noted' \in Seq(Notes) /\ DOMAIN noted' = DOMAIN noted \union {Len(noted) + 1}
       /\ noted'[Len(noted) + 1] = note
       /\ \A i \in DOMAIN noted : noted'[i] = noted[i]
  BY <1>1, <1>2, <1>8
<1>12. ASSUME ~LedAstray(note) PROVE Tells(db', rev, FALSE, document, note)
  <2>1. CASE rev >= Observers
    BY <1>4, <1>5, <1>8, <2>1 DEF Tells, ByColumns
  <2>2. CASE ~(rev >= Observers)
    <3>1. c.name = name /\ c.peer = p /\ c.ws = w
      BY <1>1, <1>5, <2>2
    <3>2. note.name \in NamesOf(note.observer, note.observed)
      BY <1>2, <1>8, <3>1 DEF NamesOf
    <3>3. \E x \in db'.collections : IsHome(x, document)
      BY <1>4, <1>6, <1>9, <3>1 DEF IsHome
    <3>4. ByName(db', document, note)
      BY <1>4, <1>8, <1>12, <3>1, <3>2, <3>3 DEF ByName
    <3> QED
      BY <2>2, <3>4 DEF Tells
  <2> QED
    BY <2>1, <2>2
<1>13. ASSUME NEW o, NEW other, Tells(db, rev, FALSE, o, other)
       PROVE  Tells(db', rev, FALSE, o, other)
  BY <1>9, <1>13 DEF Tells, ByName
<1>14. ASSUME NEW i \in DOMAIN noted', noted'[i] # Unknown, ~ExcusedAt(rev, FALSE, noted'[i])
       PROVE  \E o \in db'.documents : o.id = i /\ Tells(db', rev, FALSE, o, noted'[i])
  <2>1. CASE i = Len(noted) + 1
    BY <1>4, <1>9, <1>11, <1>12, <1>14, <2>1 DEF ExcusedAt
  <2>2. CASE i \in DOMAIN noted
    <3>1. PICK o \in db.documents : o.id = i /\ Tells(db, rev, FALSE, o, noted[i])
      BY <1>1, <1>11, <1>14, <2>2 DEF DocumentInv
    <3> QED
      BY <1>9, <1>11, <1>13, <2>2, <3>1
  <2> QED
    BY <1>11, <2>1, <2>2
<1>15. rev' = rev /\ falling' = FALSE /\ rev \in Nat /\ rev >= Peers /\ FALSE \in BOOLEAN
  BY <1>1, <1>2
<1>16. DocumentInv' <=>
         /\ DocumentShape(db') /\ rev' \in Nat /\ falling' \in BOOLEAN /\ noted' \in Seq(Notes)
         /\ rev' < Peers /\ ~falling' => \A i \in DOMAIN noted' : noted'[i] = Unknown
         /\ rev' >= Peers =>
              \A i \in DOMAIN noted' :
                noted'[i] # Unknown /\ ~ExcusedAt(rev', falling', noted'[i]) =>
                  \E o \in db'.documents : o.id = i /\ Tells(db', rev', falling', o, noted'[i])
  BY DEF DocumentInv
<1>17. ~(rev' < Peers)
  BY <1>15
<1> QED
  BY <1>10, <1>11, <1>14, <1>15, <1>16, <1>17

LEMMA DocumentMarked ==
  ASSUME DocumentInv, MarkDeleted
  PROVE  DocumentInv'
<1>1. PICK o \in db.documents :
        db' = [db EXCEPT !.documents = (@ \ {o}) \union {[o EXCEPT !.deleted = TRUE]}]
  BY DEF MarkDeleted, Write
<1>2. /\ UNCHANGED <<rev, falling, noted>> /\ rev >= Peers
      /\ DocumentShape(db) /\ rev \in Nat /\ falling \in BOOLEAN
  BY DEF MarkDeleted, Write, MayWrite, DocumentInv
<1> DEFINE x == [o EXCEPT !.deleted = TRUE]
<1>3. DOMAIN x = DocumentColumns /\ Telling(x) = Telling(o)
  BY <1>2, Retouched DEF DocumentShape
<1> HIDE DEF x
<1>4. /\ DOMAIN db' = Tables /\ db'.collections = db.collections
      /\ db'.documents = (db.documents \ {o}) \union {x}
  BY <1>1, <1>2 DEF DocumentShape, Tables, x
<1>5. DocumentShape(db')
  BY <1>2, <1>3, <1>4 DEF DocumentShape
<1>6. \A y \in db.documents : \E z \in db'.documents : Telling(z) = Telling(y)
  BY <1>3, <1>4
<1> QED
  BY <1>2, <1>4, <1>5, <1>6, DocumentsStay

LEMMA DocumentsInitially == Init => DocumentInv
<1> SUFFICES ASSUME Init PROVE DocumentInv
  OBVIOUS
<1>1. HasColumns(db) /\ Counts(db.documents) /\ rev \in Nat /\ rev < Peers /\ falling = FALSE
  BY InitialAssumption DEF Init, OldDatabase
<1>2. DocumentShape(db)
  BY <1>1 DEF HasColumns, DocumentShape, Tables, CollectionColumns, DocumentColumns
<1> DEFINE n == Cardinality(db.documents)
<1>3. n \in Nat /\ {o.id : o \in db.documents} = 1..n
  BY <1>1, FS_CardinalityType DEF Counts
<1>4. noted = [i \in 1..n |-> Unknown]
  BY <1>3 DEF Init
<1>5. Unknown \in Notes
  BY DEF Unknown, Notes
<1> HIDE DEF n
<1>6. noted \in Seq(Notes) /\ \A i \in DOMAIN noted : noted[i] = Unknown
  <2> HIDE DEF Unknown
  <2> QED
    BY <1>3, <1>4, <1>5
<1> QED
  BY <1>1, <1>2, <1>6 DEF DocumentInv

LEMMA NamesInitially == Init => NamesInv
BY InitialAssumption DEF Init, NamesInv, OldDatabase

LEMMA DocumentsKept ==
  ASSUME DocumentInv, NamesInv, [Next]_vars
  PROVE  DocumentInv'
<1>1. CASE Migrate
  BY <1>1, DocumentsUp, DocumentsDown DEF Migrate
<1>2. CASE UNCHANGED vars
  BY <1>2 DEF vars, DocumentInv
<1>3. DOMAIN db = Tables /\ rev \in Nat /\ DocumentShape(db) /\ falling \in BOOLEAN
  BY DEF DocumentInv, DocumentShape
<1>4. ASSUME UNCHANGED <<rev, falling, noted>>, rev >= Peers, DOMAIN db' = Tables,
             db'.collections = db.collections, db'.documents = db.documents
      PROVE  DocumentInv'
  <2>1. DocumentShape(db')
    BY <1>3, <1>4 DEF DocumentShape
  <2> QED
    BY <1>3, <1>4, <2>1, DocumentsStay
<1>5. ASSUME NEW w, NEW p, NEW n, PostMessage(w, p, n) PROVE DocumentInv'
  <2>1. Keeps(db, db', Tables \ {"sessions", "members", "messages"})
    BY <1>3, <1>5, ApplicationKeeps
  <2>2. UNCHANGED <<rev, falling, noted>> /\ rev >= Peers
    BY <1>5 DEF PostMessage, Write, MayWrite
  <2>3. DOMAIN db' = Tables /\ db'.collections = db.collections /\ db'.documents = db.documents
    BY <2>1 DEF Keeps, Tables
  <2> QED
    BY <1>4, <2>2, <2>3
<1>6. ASSUME NEW task, NEW w, NEW message, Enqueue(task, w, message) PROVE DocumentInv'
  <2>1. Keeps(db, db', Tables \ {"queue"})
    BY <1>3, <1>6, ApplicationKeeps
  <2>2. UNCHANGED <<rev, falling, noted>> /\ rev >= Peers
    BY <1>6 DEF Enqueue, Write, MayWrite
  <2>3. DOMAIN db' = Tables /\ db'.collections = db.collections /\ db'.documents = db.documents
    BY <2>1 DEF Keeps, Tables
  <2> QED
    BY <1>4, <2>2, <2>3
<1>7. CASE Lease
  <2>1. Keeps(db, db', Tables \ {"leases"})
    BY <1>3, <1>7, ApplicationKeeps
  <2>2. UNCHANGED <<rev, falling, noted>> /\ rev >= Peers
    BY <1>7 DEF Lease, Write, MayWrite
  <2>3. DOMAIN db' = Tables /\ db'.collections = db.collections /\ db'.documents = db.documents
    BY <2>1 DEF Keeps, Tables
  <2> QED
    BY <1>4, <2>2, <2>3
<1>8. CASE Application
  BY <1>5, <1>6, <1>7, <1>8, DocumentWritten, DocumentMarked DEF Application
<1> QED
  BY <1>1, <1>2, <1>8 DEF Next

\* The names of peers stay, those of agents are added; columns of collections are filled
\* with names of peers or the migration does not succeed.
LEMMA NamesMigrate ==
  ASSUME DocumentInv, NamesInv, Migrate
  PROVE  NamesInv'
<1>1. DocumentShape(db) /\ DOMAIN db = Tables /\ rev \in Nat
  BY DEF DocumentInv, DocumentShape
<1>2. ASSUME rev' \in Nat, rev' >= Observers => rev >= Observers /\ db'.collections = db.collections,
             db'.peers = db.peers
      PROVE  NamesInv'
  BY <1>2 DEF NamesInv
<1>3. ASSUME NEW counted, Upgrade(Peers, AdoptPeers(db, counted)) PROVE NamesInv'
  <2>1. db'.peers = db.peers \union {[id |-> AgentOf[w], name |-> AgentOf[w], ws |-> w] : w \in Workspace}
    BY <1>1, <1>3 DEF Upgrade, AdoptPeers, UpdateSessions, PopulateSessionPeers, UpdateMessages,
                      UpdateDocuments, UpdateCollections, Tables
  <2>2. ~(rev' >= Observers)
    BY <1>3 DEF Upgrade
  <2> QED
    BY <2>1, <2>2, MigrationsAssumption DEF NamesInv
<1>4. CASE Upgrade(Observers, SplitNames(db)) /\ PairsArePeers(db')
  <2>1. db'.peers = db.peers
    BY <1>1, <1>4, UpgradesKeep DEF Upgrade, Keeps, Tables
  <2>2. ASSUME NEW c \in db'.collections PROVE c.observed \in Seq(Letter)
    BY <1>4, <2>1 DEF PairsArePeers, IsPeer, NamesInv
  <2> QED
    BY <2>1, <2>2 DEF NamesInv
<1>5. CASE Upgrade(AppColumns, AddAppColumns(db)) \/ Upgrade(SessionRequired, RequireSession(db))
           \/ Upgrade(WorkUnits, KeyRows(db))
  BY <1>1, <1>2, <1>5, UpgradesKeep DEF Upgrade, Keeps, Tables
<1>6. CASE Upgrade(Sequence, Numbered(db)) \/ Upgrade(QueueColumns, MoveOut(db))
           \/ Upgrade(Levels, ReadLevels(db))
  BY <1>1, <1>2, <1>6, UpgradesKeep DEF Upgrade, Keeps, Tables
<1>7. CASE \E r \in {DocumentSession, Aligned, OneDream, AnyLevel, SoftDelete, Latest} : Upgrade(r, db)
  BY <1>1, <1>2, <1>7 DEF Upgrade
<1>8. CASE Up
  BY <1>3, <1>4, <1>5, <1>6, <1>7, <1>8 DEF Up
<1>9. CASE Downgrade(Latest, PlaceDocuments(db))
  <2>1. Keeps(db, db', Tables \ {"sessions", "documents"}) /\ rev' = rev - 1 /\ rev >= Observers
    BY <1>1, <1>9, DowngradesKeep DEF Downgrade
  <2>2. db'.peers = db.peers /\ db'.collections = db.collections
    BY <2>1 DEF Keeps, Tables
  <2> QED
    BY <2>1, <2>2 DEF NamesInv
<1>10. CASE Downgrade(SoftDelete, DropSystemRows(db))
  <2>1. Keeps(db, db', Tables \ {"queue", "leases", "documents"}) /\ rev' = rev - 1 /\ rev >= Observers
    BY <1>1, <1>10, DowngradesKeep DEF Downgrade
  <2>2. db'.peers = db.peers /\ db'.collections = db.collections
    BY <2>1 DEF Keeps, Tables
  <2> QED
    BY <2>1, <2>2 DEF NamesInv
<1>11. CASE Downgrade(AnyLevel, OldLevels(db))
  <2>1. Keeps(db, db', Tables \ {"documents"}) /\ rev' = rev - 1 /\ rev >= Observers
    BY <1>1, <1>11, DowngradesKeep DEF Downgrade
  <2>2. db'.peers = db.peers /\ db'.collections = db.collections
    BY <2>1 DEF Keeps, Tables
  <2> QED
    BY <2>1, <2>2 DEF NamesInv
<1>12. CASE Downgrade(QueueColumns, MoveIn(db))
  <2>1. Keeps(db, db', Tables \ {"queue"}) /\ rev' = rev - 1 /\ rev >= Observers
    BY <1>1, <1>12, DowngradesKeep DEF Downgrade
  <2>2. db'.peers = db.peers /\ db'.collections = db.collections
    BY <2>1 DEF Keeps, Tables
  <2> QED
    BY <2>1, <2>2 DEF NamesInv
<1>13. CASE Downgrade(Sequence, WithoutNumbers(db))
  <2>1. Keeps(db, db', Tables \ {"messages"}) /\ rev' = rev - 1 /\ rev >= Observers
    BY <1>1, <1>13, DowngradesKeep DEF Downgrade
  <2>2. db'.peers = db.peers /\ db'.collections = db.collections
    BY <2>1 DEF Keeps, Tables
  <2> QED
    BY <2>1, <2>2 DEF NamesInv
<1>14. CASE Downgrade(Observers, JoinNames(db))
  BY <1>1, <1>2, <1>14, DowngradesKeep DEF Downgrade, Keeps, Tables
<1>15. CASE Downgrade(WorkUnits, DropKeys(db))
  BY <1>1, <1>2, <1>15, DowngradesKeep DEF Downgrade, Keeps, Tables
<1>16. ASSUME NEW userOf, Downgrade(Peers, AbandonPeers(db, userOf)) PROVE NamesInv'
  BY <1>1, <1>2, <1>16, DowngradesKeep DEF Downgrade, Keeps, Tables
<1>17. CASE \E r \in {OneDream, Levels, Aligned, DocumentSession, SessionRequired} : Downgrade(r, db)
  BY <1>1, <1>2, <1>17 DEF Downgrade
<1>18. CASE Down
  BY <1>9, <1>10, <1>11, <1>12, <1>13, <1>14, <1>15, <1>16, <1>17, <1>18 DEF Down
<1> QED
  BY <1>8, <1>18 DEF Migrate

LEMMA NamesStay ==
  ASSUME DocumentInv, NamesInv, [Next]_vars
  PROVE  NamesInv'
<1>1. DOMAIN db = Tables
  BY DEF DocumentInv, DocumentShape
<1>2. ASSUME rev' = rev, db'.peers = db.peers, db'.collections = db.collections
      PROVE  NamesInv'
  BY <1>2 DEF NamesInv
<1>3. CASE UNCHANGED vars
  BY <1>3, <1>2 DEF vars
<1>4. ASSUME NEW w, NEW p, NEW n, PostMessage(w, p, n) PROVE NamesInv'
  <2>1. Keeps(db, db', Tables \ {"sessions", "members", "messages"}) /\ rev' = rev
    BY <1>1, <1>4, ApplicationKeeps DEF PostMessage, Write
  <2> QED
    BY <1>2, <2>1 DEF Keeps, Tables
<1>5. ASSUME NEW task, NEW w, NEW message, Enqueue(task, w, message) PROVE NamesInv'
  <2>1. Keeps(db, db', Tables \ {"queue"}) /\ rev' = rev
    BY <1>1, <1>5, ApplicationKeeps DEF Enqueue, Write
  <2> QED
    BY <1>2, <2>1 DEF Keeps, Tables
<1>6. CASE Lease \/ MarkDeleted
  <2>1. Keeps(db, db', Tables \ {"leases", "documents"}) /\ rev' = rev
    BY <1>1, <1>6, ApplicationKeeps DEF Lease, MarkDeleted, Write, Keeps
  <2> QED
    BY <1>2, <2>1 DEF Keeps, Tables
<1>7. ASSUME NEW w, NEW p \in Peer, NEW q \in Peer, NEW name, NEW n, NEW level,
             Observe(w, p, q, name, n, level)
      PROVE  NamesInv'
  <2>1. Keeps(db, db', Tables \ {"collections", "documents"})
    BY <1>1, <1>7, ApplicationKeeps
  <2>2. db'.peers = db.peers
    BY <2>1 DEF Keeps, Tables
  <2> DEFINE c == Collection(w, p, q, name)
             new == {b \in {c} : ~\E x \in db.collections : SameCollection(x, b)}
  <2>3. db'.collections = db.collections \union new /\ rev' = rev
    <3>1. PICK documents : db' = [db EXCEPT !.collections = @ \union new, !.documents = documents]
      BY <1>7, Zenon DEF Observe, Write
    <3> HIDE DEF new
    <3> QED
      BY <1>1, <1>7, <3>1 DEF Tables, Observe, Write
  <2>4. rev \in Nat /\ (rev >= Observers => c.observed \in Seq(Letter))
    BY MigrationsAssumption DEF Collection, DocumentInv
  <2>5. \A b \in new : b = c
    OBVIOUS
  <2> HIDE DEF c, new
  <2> QED
    BY <2>2, <2>3, <2>4, <2>5 DEF NamesInv
<1>8. CASE Application
  BY <1>4, <1>5, <1>6, <1>7, <1>8 DEF Application
<1> QED
  BY <1>3, <1>8, NamesMigrate DEF Next

\* A document that was written for a pair of peers is a document of that pair, while names
\* of collections tell it, after they have become columns, and back again as far as the
\* rows allow to go.  Only names that read as another pair's are excepted (LedAstray,
\* JoinedAstray).
THEOREM DocumentsStayOfTheirPair == Spec => []DocumentsKeepTheirPair
<1>1. DocumentInv /\ NamesInv /\ [Next]_vars => DocumentInv' /\ NamesInv'
  BY DocumentsKept, NamesStay
<1> QED
  BY <1>1, DocumentsTell, DocumentsInitially, NamesInitially, PTL DEF Spec
-----------------------------------------------------------------------------
(* Rows and their ids. *)

LEMMA RowOfId ==
  ASSUME NEW table, Keyed(table), NEW r \in table, NEW i, r.id = i
  PROVE  Row(table, i) = r
<1>1. Row(table, i) \in table /\ Row(table, i).id = i
  BY DEF Row
<1> QED
  BY <1>1 DEF Keyed

IdsOf(table) == {r.id : r \in table}

\* A finite table has as many rows as ids.
LEMMA CountIds ==
  ASSUME NEW table, IsFiniteSet(table), Keyed(table)
  PROVE  IsFiniteSet(IdsOf(table)) /\ Cardinality(IdsOf(table)) = Cardinality(table)
<1> DEFINE f == [r \in table |-> r.id]
<1>1. f \in [table -> IdsOf(table)]
  BY DEF IdsOf
<1>2. f \in Surjection(table, IdsOf(table))
  BY <1>1 DEF Surjection, IdsOf
<1>3. f \in Injection(table, IdsOf(table))
  BY <1>1 DEF Injection, IsInjective, Keyed
<1>4. ExistsBijection(table, IdsOf(table))
  BY <1>2, <1>3 DEF ExistsBijection, Bijection
<1> QED
  BY <1>4, FS_Bijection

LEMMA ImageIsFinite ==
  ASSUME NEW S, NEW T, IsFiniteSet(S), NEW f, DOMAIN f = S, T = {f[x] : x \in S}
  PROVE  IsFiniteSet(T)
<1> DEFINE g == [x \in S |-> f[x]]
<1>1. g \in Surjection(S, T)
  BY DEF Surjection
<1> QED
  BY <1>1, FS_Surjection

\* Rows that are rewritten one by one keep their keys.
LEMMA RewrittenTable ==
  ASSUME NEW S, NEW T, NEW f, DOMAIN f = S, T = {f[r] : r \in S}, \A r \in S : f[r].id = r.id
  PROVE  /\ Keyed(S) => Keyed(T)
         /\ IdsOf(T) = IdsOf(S)
         /\ IsFiniteSet(S) => IsFiniteSet(T)
<1>1. Keyed(S) => Keyed(T)
  BY DEF Keyed
<1>2. IdsOf(T) = IdsOf(S)
  BY DEF IdsOf
<1> QED
  BY <1>1, <1>2, ImageIsFinite

IsSequence(s) == \E S : s \in Seq(S)

LEMMA SequenceFacts ==
  ASSUME NEW s, IsSequence(s)
  PROVE  Len(s) \in Nat /\ DOMAIN s = 1..Len(s)
<1>1. PICK S : s \in Seq(S)
  BY DEF IsSequence
<1> QED
  BY <1>1

LEMMA AppendFacts ==
  ASSUME NEW s, IsSequence(s), NEW x
  PROVE  /\ IsSequence(Append(s, x)) /\ Len(Append(s, x)) = Len(s) + 1
         /\ DOMAIN Append(s, x) = DOMAIN s \union {Len(s) + 1}
         /\ Append(s, x)[Len(s) + 1] = x
         /\ \A i \in DOMAIN s : Append(s, x)[i] = s[i]
<1>1. PICK S : s \in Seq(S)
  BY DEF IsSequence
<1>2. s \in Seq(S \union {x})
  BY <1>1
<1>3. Append(s, x) \in Seq(S \union {x})
  BY <1>2
<1>4. IsSequence(Append(s, x))
  BY <1>3 DEF IsSequence
<1> QED
  BY <1>1, <1>2, <1>3, <1>4

\* Rows of sessions for names.
LEMMA SessionsAdded ==
  ASSUME NEW d, NEW places, \A q \in places : q = <<q[1], q[2]>>
  PROVE  /\ d.sessions \subseteq WithSessions(d, places)
         /\ \A s \in WithSessions(d, places) \ d.sessions :
              DOMAIN s = {"id", "name", "ws", "user"} /\ s.id = <<s.ws, s.name>>
         /\ \A q \in places : \E s \in WithSessions(d, places) : s.ws = q[1] /\ s.name = q[2]
<1> DEFINE Added(q) == [id |-> q, name |-> q[2], ws |-> q[1], user |-> NoValue]
           missing == {q \in places : ~HasSession(d, q[1], q[2])}
<1>1. WithSessions(d, places) = d.sessions \union {Added(q) : q \in missing}
  BY DEF WithSessions
<1>2. \A q : DOMAIN Added(q) = {"id", "name", "ws", "user"} /\ Added(q).id = q
               /\ Added(q).ws = q[1] /\ Added(q).name = q[2]
  OBVIOUS
<1> HIDE DEF Added
<1>3. \A s \in WithSessions(d, places) \ d.sessions : \E q \in places : s = Added(q)
  BY <1>1
<1>4. ASSUME NEW q \in places PROVE \E s \in WithSessions(d, places) : s.ws = q[1] /\ s.name = q[2]
  <2>1. CASE HasSession(d, q[1], q[2])
    BY <1>1, <2>1 DEF HasSession
  <2>2. CASE ~HasSession(d, q[1], q[2])
    <3>1. Added(q) \in WithSessions(d, places)
      BY <1>1, <2>2
    <3> QED
      BY <1>2, <3>1
  <2> QED
    BY <2>1, <2>2
<1>5. \A s \in WithSessions(d, places) \ d.sessions :
        DOMAIN s = {"id", "name", "ws", "user"} /\ s.id = <<s.ws, s.name>>
  BY <1>2, <1>3
<1> QED
  BY <1>1, <1>4, <1>5
-----------------------------------------------------------------------------
(* Messages. *)

MessageColumns == {"id", "ws", "session", "author", "isUser", "counted", "seq"}
SessionColumns == {"id", "name", "ws", "user"}

MessageTables(d) ==
  /\ DOMAIN d = Tables /\ Keyed(d.peers)
  /\ \A m \in d.messages : DOMAIN m = MessageColumns
  /\ \A s \in d.sessions : DOMAIN s = SessionColumns
  /\ Keyed(d.messages) /\ IsFiniteSet(d.messages) /\ IdsOf(d.messages) = DOMAIN said

\* Before the peers: who said it is the user of the message's session, or the agent of
\* that user's application.
Author(m, p) == IF m.isUser THEN p.name ELSE AgentOf[p.ws]
Origin(d, r, m, s, p) ==
  /\ s.id = m.session /\ p.id = s.user
  /\ said[m.id] = [ws |-> p.ws, author |-> Author(m, p), session |-> m.session]
  /\ r >= AppColumns => m.ws = p.ws /\ s.ws = p.ws
EarlyMessages(d, r) ==
  /\ Keyed(d.sessions)
  /\ \A p \in d.peers : p.ws \in Workspace /\ \A w \in Workspace : AgentOf[w] # p.id
  /\ \A s \in d.sessions : HasId(d.peers, s.user)
  /\ \A m \in d.messages : \E s \in d.sessions, p \in d.peers : Origin(d, r, m, s, p)

\* From the peers on: a message is in the workspace, by the author and in the session of
\* then, all of which exist.
AsSaid(d, r, m, was) ==
  /\ m.ws = was.ws /\ m.author = was.author /\ IsPeer(d, m.ws, m.author)
  /\ was.session # NoValue => m.session = was.session
  /\ was.session = NoValue =>
       /\ m.session \in {NoValue, was.author}
       /\ r >= SessionRequired => m.session = was.author
  /\ m.session # NoValue => HasSession(d, m.ws, m.session)
SessionIds(d) == \A s \in d.sessions : s.id \in {s.name, <<s.ws, s.name>>}
PeerMessages(d, r) ==
  /\ SessionIds(d)
  /\ \A m \in d.messages : AsSaid(d, r, m, said[m.id])

\* MessagesKept made inductive: after the last downgrade nothing happens any more.
MessageInv ==
  /\ rev \in Nat /\ falling \in BOOLEAN /\ IsSequence(said)
  /\ rev < Peers /\ falling => MessagesKept
  /\ rev >= Peers \/ ~falling => MessageTables(db)
  /\ rev < Peers /\ ~falling => EarlyMessages(db, rev)
  /\ rev >= Peers => PeerMessages(db, rev) /\ NumbersFollowIds /\ TokensAreCounted

LEMMA MessagesAreKept == MessageInv => MessagesKept
<1> SUFFICES ASSUME MessageInv, rev >= Peers \/ ~falling PROVE MessagesKept
  BY DEF MessageInv
<1>1. rev \in Nat /\ MessageTables(db) /\ {m.id : m \in db.messages} = DOMAIN said
  BY DEF MessageInv, MessageTables, IdsOf
<1>2. CASE rev >= Peers
  <2>1. PeerMessages(db, rev) /\ NumbersFollowIds /\ TokensAreCounted
    BY <1>2 DEF MessageInv
  <2>2. ASSUME NEW m \in db.messages
        PROVE  LET was == said[m.id] IN
               /\ rev >= AppColumns => m.ws = was.ws
               /\ rev >= Peers => m.author = was.author
               /\ rev < Peers /\ falling => NameOf(db, m.author) = was.author
               /\ was.session # NoValue => InItsSession(m, was.session)
               /\ was.session = NoValue /\ rev >= SessionRequired => InItsSession(m, was.author)
    BY <1>1, <1>2, <2>1 DEF PeerMessages, AsSaid, InItsSession
  <2> QED
    BY <1>1, <2>1, <2>2 DEF MessagesKept
<1>3. CASE ~(rev >= Peers)
  <2>1. rev < Peers /\ ~falling /\ EarlyMessages(db, rev)
    BY <1>1, <1>3 DEF MessageInv
  <2>2. NumbersFollowIds /\ TokensAreCounted
    BY <1>1, <1>3 DEF NumbersFollowIds, TokensAreCounted
  <2>3. ASSUME NEW m \in db.messages
        PROVE  LET was == said[m.id] IN
               /\ rev >= AppColumns => m.ws = was.ws
               /\ rev >= Peers => m.author = was.author
               /\ rev < Peers /\ falling => NameOf(db, m.author) = was.author
               /\ was.session # NoValue => InItsSession(m, was.session)
               /\ was.session = NoValue /\ rev >= SessionRequired => InItsSession(m, was.author)
    <3>1. PICK s \in db.sessions, p \in db.peers : Origin(db, rev, m, s, p)
      BY <2>1 DEF EarlyMessages
    <3>2. /\ said[m.id].session = m.session /\ said[m.id].ws = p.ws
          /\ rev >= AppColumns => m.ws = p.ws
      BY <3>1 DEF Origin
    <3> QED
      BY <1>1, <1>3, <2>1, <3>2 DEF InItsSession
  <2> QED
    BY <1>1, <2>2, <2>3 DEF MessagesKept
<1> QED
  BY <1>2, <1>3

LEMMA MessagesInitially == Init => MessageInv
<1> SUFFICES ASSUME Init PROVE MessageInv
  OBVIOUS
<1>1. /\ OldDatabase(db) /\ HasColumns(db) /\ Counts(db.messages) /\ rev = Base /\ falling = FALSE
  BY InitialAssumption DEF Init, OldDatabase
<1> DEFINE n == Cardinality(db.messages)
           Was(i) ==
             LET m == Row(db.messages, i)
                 user == Row(db.peers, Row(db.sessions, m.session).user) IN
             [ws |-> user.ws, session |-> m.session,
              author |-> IF m.isUser THEN user.name ELSE AgentOf[user.ws]]
<1>2. n \in Nat /\ IdsOf(db.messages) = 1..n /\ IsFiniteSet(db.messages)
  BY <1>1, FS_CardinalityType DEF Counts, IdsOf
<1>3. said = [i \in 1..n |-> Was(i)]
  BY <1>2 DEF Init, IdsOf
<1>4. ASSUME NEW m \in db.messages
      PROVE  \E s \in db.sessions, p \in db.peers : Origin(db, rev, m, s, p)
  <2>1. PICK s \in db.sessions : s.id = m.session
    BY <1>1 DEF OldDatabase, HasId
  <2>2. PICK p \in db.peers : p.id = s.user
    BY <1>1 DEF OldDatabase, HasId
  <2>3. /\ Row(db.messages, m.id) = m /\ Row(db.sessions, m.session) = s
        /\ Row(db.peers, s.user) = p
    BY <1>1, <2>1, <2>2, RowOfId DEF OldDatabase
  <2>4. m.id \in 1..n
    BY <1>2 DEF IdsOf
  <2>5. Was(m.id) = [ws |-> p.ws, session |-> m.session, author |-> Author(m, p)]
    BY <2>3 DEF Author
  <2> HIDE DEF Was
  <2>6. said[m.id] = [ws |-> p.ws, session |-> m.session, author |-> Author(m, p)]
    BY <1>3, <2>4, <2>5
  <2> QED
    BY <1>1, <2>1, <2>2, <2>6 DEF Origin
<1> HIDE DEF Was, n
<1>5. IsSequence(said) /\ DOMAIN said = 1..n
  <2>1. said \in Seq({Was(i) : i \in 1..n})
    BY <1>2, <1>3
  <2> QED
    BY <1>3, <2>1 DEF IsSequence
<1>6. MessageTables(db)
  BY <1>1, <1>2, <1>5 DEF MessageTables, OldDatabase, HasColumns, Tables, MessageColumns, SessionColumns
<1>7. EarlyMessages(db, rev)
  BY <1>1, <1>4 DEF EarlyMessages, OldDatabase
<1>8. rev \in Nat /\ rev < Peers /\ ~(rev >= Peers)
  BY <1>1
<1>9. falling \in BOOLEAN /\ ~falling
  BY <1>1
<1> QED
  BY <1>5, <1>6, <1>7, <1>8, <1>9, Zenon DEF MessageInv

\* Where the messages stay, the sessions grow at most and no number or session becomes due.
LEMMA MessagesStay ==
  ASSUME MessageInv, rev >= Peers, rev' >= Peers, rev' \in Nat, UNCHANGED said,
         falling' \in BOOLEAN, falling => falling',
         DOMAIN db' = Tables, db'.messages = db.messages, db'.peers = db.peers,
         db.sessions \subseteq db'.sessions,
         \A s \in db'.sessions \ db.sessions : DOMAIN s = SessionColumns /\ s.id = <<s.ws, s.name>>,
         rev' >= SessionRequired => rev >= SessionRequired, rev' >= Sequence => rev >= Sequence
  PROVE  MessageInv'
<1>1. /\ MessageTables(db) /\ PeerMessages(db, rev) /\ IsSequence(said) /\ rev \in Nat
      /\ NumbersFollowIds /\ TokensAreCounted
  BY DEF MessageInv
<1>2. MessageTables(db)'
  BY <1>1 DEF MessageTables
<1>3. ASSUME NEW m \in db.messages PROVE AsSaid(db', rev', m, said[m.id])
  <2>1. AsSaid(db, rev, m, said[m.id])
    BY <1>1 DEF PeerMessages
  <2>2. /\ IsPeer(db, m.ws, m.author) => IsPeer(db', m.ws, m.author)
        /\ HasSession(db, m.ws, m.session) => HasSession(db', m.ws, m.session)
    BY DEF IsPeer, HasSession
  <2> QED
    BY <2>1, <2>2 DEF AsSaid
<1>4. SessionIds(db')
  BY <1>1 DEF PeerMessages, SessionIds
<1>5. PeerMessages(db, rev)'
  BY <1>3, <1>4 DEF PeerMessages
<1>6. NumbersFollowIds'
  BY <1>1 DEF NumbersFollowIds
<1>7. TokensAreCounted'
  BY <1>1 DEF TokensAreCounted
<1>8. IsSequence(said)' /\ rev' \in Nat /\ rev' >= Peers /\ ~(rev' < Peers)
  BY <1>1
<1>9. falling' \in BOOLEAN
  OBVIOUS
<1> QED
  BY <1>2, <1>5, <1>6, <1>7, <1>8, <1>9, Zenon DEF MessageInv

\* Messages that are rewritten one by one, in a database of the same columns.
LEMMA RewrittenMessages ==
  ASSUME NEW d, MessageTables(d), NEW e, DOMAIN e = Tables, Keyed(e.peers),
         \A s \in e.sessions : DOMAIN s = SessionColumns,
         NEW f, DOMAIN f = d.messages, e.messages = {f[m] : m \in d.messages},
         \A m \in d.messages : f[m].id = m.id /\ DOMAIN f[m] = MessageColumns
  PROVE  MessageTables(e)
<1>1. Keyed(d.messages) /\ IsFiniteSet(d.messages) /\ IdsOf(d.messages) = DOMAIN said
  BY DEF MessageTables
<1>2. \A m \in d.messages : f[m].id = m.id
  OBVIOUS
<1>3. Keyed(e.messages) /\ IsFiniteSet(e.messages) /\ IdsOf(e.messages) = IdsOf(d.messages)
  BY <1>1, <1>2, RewrittenTable
<1>4. \A m \in e.messages : DOMAIN m = MessageColumns
  OBVIOUS
<1> QED
  BY <1>1, <1>3, <1>4 DEF MessageTables

\* 556a16564f50: sessions get the application of their user, messages that of their session.
LEMMA ColumnsAdded ==
  ASSUME NEW d, MessageTables(d), EarlyMessages(d, Base)
  PROVE  MessageTables(AddAppColumns(d)) /\ EarlyMessages(AddAppColumns(d), AppColumns)
<1> DEFINE d1 == SessionsOfApps(d)
           e == AddAppColumns(d)
           fs == [s \in d.sessions |-> [s EXCEPT !.ws = Row(d.peers, s.user).ws]]
           fm == [m \in d.messages |-> [m EXCEPT !.ws = Row(d1.sessions, m.session).ws,
                                                 !.author = Row(d1.sessions, m.session).user]]
<1>1. /\ DOMAIN d = Tables /\ Keyed(d.peers) /\ Keyed(d.sessions)
      /\ (\A m \in d.messages : DOMAIN m = MessageColumns)
      /\ \A s \in d.sessions : DOMAIN s = SessionColumns
  BY DEF MessageTables, EarlyMessages
<1>2. /\ DOMAIN d1 = Tables /\ d1.messages = d.messages /\ d1.peers = d.peers
      /\ d1.sessions = {fs[s] : s \in d.sessions}
  BY <1>1 DEF SessionsOfApps, Tables
<1>3. DOMAIN e = Tables /\ e.peers = d.peers /\ e.sessions = d1.sessions
  BY <1>1, <1>2, UpgradesKeep DEF AddAppColumns, DocumentsOfApps, CollectionsOfApps, MessagesOfApps, Keeps, Tables
<1>4. e.messages = {fm[m] : m \in d.messages}
  BY <1>1, <1>2 DEF AddAppColumns, DocumentsOfApps, CollectionsOfApps, MessagesOfApps, Tables
<1>5. \A s \in d.sessions : /\ fs[s].id = s.id /\ fs[s].user = s.user /\ DOMAIN fs[s] = SessionColumns
                            /\ fs[s].ws = Row(d.peers, s.user).ws
  BY <1>1 DEF SessionColumns
<1>6. \A m \in d.messages :
        /\ fm[m].id = m.id /\ fm[m].session = m.session /\ fm[m].isUser = m.isUser
        /\ DOMAIN fm[m] = MessageColumns /\ fm[m].ws = Row(d1.sessions, m.session).ws
  BY <1>1 DEF MessageColumns
<1>7. DOMAIN fs = d.sessions /\ DOMAIN fm = d.messages
  OBVIOUS
<1> HIDE DEF d1, e, fs, fm
<1>8. Keyed(d1.sessions)
  BY <1>1, <1>2, <1>5, <1>7, RewrittenTable
<1>9. \A s \in e.sessions : DOMAIN s = SessionColumns
  BY <1>2, <1>3, <1>5
<1>10. MessageTables(e)
  BY <1>1, <1>3, <1>4, <1>6, <1>7, <1>9, RewrittenMessages
<1>11. ASSUME NEW m \in d.messages
       PROVE  \E s \in e.sessions, p \in e.peers : Origin(e, AppColumns, fm[m], s, p)
  <2>1. PICK s \in d.sessions, p \in d.peers : Origin(d, Base, m, s, p)
    BY DEF EarlyMessages
  <2>2. /\ s.id = m.session /\ p.id = s.user
        /\ said[m.id] = [ws |-> p.ws, author |-> Author(m, p), session |-> m.session]
    BY <2>1 DEF Origin
  <2>3. Row(d.peers, s.user) = p
    BY <1>1, <2>2, RowOfId
  <2>4. fs[s] \in d1.sessions /\ fs[s].id = m.session /\ fs[s].ws = p.ws /\ fs[s].user = p.id
    BY <1>2, <1>5, <2>2, <2>3
  <2>5. Row(d1.sessions, m.session) = fs[s]
    BY <1>8, <2>4, RowOfId
  <2>6. fm[m].ws = p.ws
    BY <1>6, <2>4, <2>5
  <2>7. Author(fm[m], p) = Author(m, p)
    BY <1>6 DEF Author
  <2>8. Origin(e, AppColumns, fm[m], fs[s], p)
    BY <1>6, <2>2, <2>4, <2>6, <2>7 DEF Origin
  <2> QED
    BY <1>3, <2>4, <2>8
<1>12. ASSUME NEW s \in e.sessions PROVE HasId(e.peers, s.user)
  BY <1>2, <1>3, <1>5 DEF EarlyMessages, HasId
<1>13. EarlyMessages(e, AppColumns)
  <2>1. \A p \in e.peers : p.ws \in Workspace /\ \A w \in Workspace : AgentOf[w] # p.id
    BY <1>3 DEF EarlyMessages
  <2>2. \A m \in e.messages : \E s \in e.sessions, p \in e.peers : Origin(e, AppColumns, m, s, p)
    BY <1>4, <1>11
  <2>3. Keyed(e.sessions)
    BY <1>3, <1>8
  <2> QED
    BY <1>12, <2>1, <2>2, <2>3 DEF EarlyMessages
<1> QED
  BY <1>10, <1>13 DEF e

\* d429de0e5338: messages get authors and the names of their sessions.
LEMMA PeersAdopted ==
  ASSUME MessageInv, rev = AppColumns, ~falling, NEW counted \in Backfilled(db.messages),
         rev' = Peers, falling' = FALSE, db' = AdoptPeers(db, counted), UNCHANGED said
  PROVE  MessageInv'
<1> DEFINE d == db
           d1 == UpdateSessions(d)
           d2 == PopulateSessionPeers(d1)
           e == AdoptPeers(d, counted)
           agents == {[id |-> AgentOf[w], name |-> AgentOf[w], ws |-> w] : w \in Workspace}
           f1 == [s \in d.sessions |-> [s EXCEPT !.name = s.id]]
           f2 == [s \in d1.sessions |-> [s EXCEPT !.user = NoValue]]
           fm == [m \in d.messages |->
                   [m EXCEPT !.session = Row(d2.sessions, @).name, !.author = AuthorOf(d2, m),
                             !.isUser = NoValue, !.counted = m.id \in counted]]
<1>1. /\ DOMAIN d = Tables /\ Keyed(d.peers) /\ Keyed(d.sessions)
      /\ (\A m \in d.messages : DOMAIN m = MessageColumns)
      /\ (\A s \in d.sessions : DOMAIN s = SessionColumns)
      /\ MessageTables(d) /\ EarlyMessages(d, AppColumns) /\ IsSequence(said)
  BY DEF MessageInv, MessageTables, EarlyMessages
<1>2. /\ DOMAIN d1 = Tables /\ d1.messages = d.messages /\ d1.peers = d.peers
      /\ d1.sessions = {f1[s] : s \in d.sessions}
  BY <1>1 DEF UpdateSessions, Tables
<1>3. /\ DOMAIN d2 = Tables /\ d2.messages = d.messages /\ d2.peers = d.peers \union agents
      /\ d2.sessions = d1.sessions
  BY <1>2 DEF PopulateSessionPeers, Tables
<1>4. /\ DOMAIN e = Tables /\ e.peers = d2.peers /\ e.messages = {fm[m] : m \in d.messages}
      /\ e.sessions = {f2[s] : s \in d1.sessions}
  BY <1>3 DEF AdoptPeers, UpdateDocuments, UpdateCollections, UpdateMessages, Tables
<1>5. \A s \in d.sessions : /\ f1[s].id = s.id /\ f1[s].user = s.user /\ f1[s].ws = s.ws
                            /\ f1[s].name = s.id /\ DOMAIN f1[s] = SessionColumns
  BY <1>1 DEF SessionColumns
<1> HIDE DEF f1, d1
<1>6. \A s \in d1.sessions : DOMAIN s = SessionColumns /\ s.name = s.id
  BY <1>2, <1>5
<1>7. \A s \in d1.sessions : /\ f2[s].id = s.id /\ f2[s].ws = s.ws /\ f2[s].name = s.name
                             /\ DOMAIN f2[s] = SessionColumns
  BY <1>6 DEF SessionColumns
<1>8. \A m \in d.messages :
        /\ fm[m].id = m.id /\ fm[m].ws = m.ws /\ DOMAIN fm[m] = MessageColumns
        /\ fm[m].session = Row(d2.sessions, m.session).name /\ fm[m].author = AuthorOf(d2, m)
        /\ fm[m].counted = (m.id \in counted)
  BY <1>1 DEF MessageColumns
<1>9. DOMAIN f1 = d.sessions /\ DOMAIN fm = d.messages
  BY DEF f1
<1>10. \A p \in agents : \E w \in Workspace : p.id = AgentOf[w] /\ p.name = AgentOf[w] /\ p.ws = w
  OBVIOUS
<1>11. ASSUME NEW w \in Workspace PROVE \E p \in agents : p.name = AgentOf[w] /\ p.ws = w
  <2>1. [id |-> AgentOf[w], name |-> AgentOf[w], ws |-> w] \in agents
    OBVIOUS
  <2> QED
    BY <2>1
<1>12. \A p, q \in agents : p.id = q.id => p = q
  BY MigrationsAssumption
<1> HIDE DEF d2, e, f2, fm, agents
<1>13. Keyed(d1.sessions)
  BY <1>1, <1>2, <1>5, <1>9, RewrittenTable
<1>14. Keyed(e.peers)
  <2>1. \A p \in d.peers, q \in agents : p.id # q.id
    BY <1>1, <1>10 DEF EarlyMessages
  <2> QED
    BY <1>1, <1>3, <1>4, <1>12, <2>1 DEF Keyed
<1>15. \A s \in e.sessions : DOMAIN s = SessionColumns /\ s.id = s.name
  BY <1>4, <1>6, <1>7
<1>16. MessageTables(e)
  <2>1. \A m \in d.messages : fm[m].id = m.id /\ DOMAIN fm[m] = MessageColumns
    BY <1>8
  <2> QED
    BY <1>1, <1>4, <1>9, <1>14, <1>15, <2>1, RewrittenMessages
<1>17. ASSUME NEW m \in d.messages PROVE AsSaid(e, Peers, fm[m], said[m.id])
  <2>1. PICK s \in d.sessions, p \in d.peers : Origin(d, AppColumns, m, s, p)
    BY <1>1 DEF EarlyMessages
  <2>2. /\ s.id = m.session /\ p.id = s.user /\ m.ws = p.ws /\ s.ws = p.ws
        /\ said[m.id] = [ws |-> p.ws, author |-> Author(m, p), session |-> m.session]
    BY <2>1 DEF Origin
  <2>3. f1[s] \in d1.sessions /\ f1[s].id = m.session
    BY <1>2, <1>5, <2>2
  <2>4. Row(d2.sessions, m.session) = f1[s]
    BY <1>3, <1>13, <2>3, RowOfId
  <2>5. fm[m].session = m.session
    BY <1>5, <1>8, <2>2, <2>4
  <2>6. p \in d2.peers /\ Row(d2.peers, p.id) = p
    BY <1>3, <1>4, <1>14, RowOfId
  <2>7. NameOf(d2, f1[s].user) = p.name
    BY <1>5, <2>2, <2>6 DEF NameOf
  <2>8. fm[m].author = Author(m, p)
    BY <1>8, <2>2, <2>4, <2>7 DEF AuthorOf, Author
  <2>9. IsPeer(e, p.ws, Author(m, p))
    <3>1. p.ws \in Workspace
      BY <1>1 DEF EarlyMessages
    <3> QED
      BY <1>3, <1>4, <1>11, <3>1 DEF IsPeer, Author
  <2>10. HasSession(e, m.ws, m.session)
    <3>1. f2[f1[s]] \in e.sessions
      BY <1>4, <2>3
    <3>2. f2[f1[s]].ws = m.ws /\ f2[f1[s]].name = m.session
      BY <1>5, <1>7, <2>2, <2>3
    <3> QED
      BY <3>1, <3>2 DEF HasSession
  <2> QED
    BY <1>8, <2>2, <2>5, <2>8, <2>9, <2>10 DEF AsSaid
<1>18. PeerMessages(e, Peers)
  <2>1. ASSUME NEW x \in e.messages PROVE AsSaid(e, Peers, x, said[x.id])
    <3>1. PICK m \in d.messages : x = fm[m]
      BY <1>4
    <3> QED
      BY <1>8, <1>17, <3>1
  <2> QED
    BY <1>15, <2>1 DEF PeerMessages, SessionIds
<1>19. ASSUME Len(said) <= BatchSize, NEW m \in d.messages PROVE m.id \in counted
  <2>1. Len(said) \in Nat /\ IdsOf(d.messages) = 1..Len(said)
    BY <1>1, SequenceFacts DEF MessageTables
  <2>2. IsFiniteSet(IdsOf(d.messages)) /\ Cardinality(IdsOf(d.messages)) = Cardinality(d.messages)
    BY <1>1, CountIds DEF MessageTables
  <2>3. Cardinality(IdsOf(d.messages)) = Len(said)
    <3>1. 1 \in Int /\ Len(said) \in Int
      BY <2>1
    <3> QED
      BY <2>1, <3>1, FS_Interval
  <2>4. counted \in SUBSET IdsOf(d.messages) /\ Cardinality(counted) = Cardinality(d.messages)
    BY <1>19, <2>1, <2>2, <2>3, MigrationsAssumption DEF Backfilled, IdsOf
  <2>5. counted = IdsOf(d.messages)
    BY <2>2, <2>4, FS_Subset
  <2> QED
    BY <2>5 DEF IdsOf
<1>20. NumbersFollowIds' /\ TokensAreCounted'
  <2>1. NumbersFollowIds'
    BY DEF NumbersFollowIds
  <2>2. db' = e
    BY DEF e
  <2>3. ASSUME Len(said) <= BatchSize, NEW x \in e.messages PROVE x.counted
    BY <1>4, <1>8, <1>19, <2>3
  <2>4. TokensAreCounted'
    BY <2>2, <2>3 DEF TokensAreCounted
  <2> QED
    BY <2>1, <2>4
<1>21. (rev' \in Nat /\ rev' >= Peers /\ ~(rev' < Peers)) /\ falling' \in BOOLEAN
  <2>1. rev' \in Nat /\ rev' >= Peers /\ ~(rev' < Peers)
    OBVIOUS
  <2>2. falling' \in BOOLEAN
    OBVIOUS
  <2> QED
    BY <2>1, <2>2
<1>22. db' = e /\ said' = said /\ rev' = Peers
  BY DEF e
<1>23. MessageTables(db)' /\ PeerMessages(db, rev)' /\ IsSequence(said)'
  BY <1>1, <1>16, <1>18, <1>22 DEF MessageTables, PeerMessages, IsSequence
<1> QED
  BY <1>20, <1>21, <1>23, Zenon DEF MessageInv

\* 05486ce795d5: a message without a session comes to the one named for its author.
LEMMA SessionsRequired ==
  ASSUME MessageInv, rev = Peers, falling \in BOOLEAN, rev' = SessionRequired,
         db' = RequireSession(db), UNCHANGED <<said, falling>>
  PROVE  MessageInv'
<1> DEFINE d == db
           orphans == {m \in d.messages : m.session = NoValue}
           places == {<<m.ws, m.author>> : m \in orphans}
           e == RequireSession(d)
           fm == [m \in d.messages |->
                   [m EXCEPT !.session = IF @ = NoValue THEN m.author ELSE @]]
<1>1. /\ DOMAIN d = Tables /\ MessageTables(d) /\ PeerMessages(d, Peers) /\ IsSequence(said)
      /\ (\A m \in d.messages : DOMAIN m = MessageColumns)
      /\ (\A s \in d.sessions : DOMAIN s = SessionColumns)
      /\ Keyed(d.peers) /\ TokensAreCounted
  BY DEF MessageInv, MessageTables
<1>2. /\ DOMAIN e = Tables /\ e.peers = d.peers /\ e.sessions = WithSessions(d, places)
      /\ e.messages = {fm[m] : m \in d.messages}
  BY <1>1 DEF RequireSession, Tables
<1>3. \A m \in d.messages :
        /\ fm[m].id = m.id /\ fm[m].ws = m.ws /\ DOMAIN fm[m] = MessageColumns
        /\ fm[m].author = m.author /\ fm[m].counted = m.counted
        /\ fm[m].session = IF m.session = NoValue THEN m.author ELSE m.session
  BY <1>1 DEF MessageColumns
<1>4. DOMAIN fm = d.messages
  OBVIOUS
<1>5. \A q \in places : q = <<q[1], q[2]>>
  OBVIOUS
<1>6. \A m \in d.messages : m.session = NoValue => <<m.ws, m.author>> \in places
  OBVIOUS
<1> HIDE DEF orphans, places, e, fm
<1>7. /\ d.sessions \subseteq e.sessions
      /\ \A s \in e.sessions \ d.sessions : DOMAIN s = SessionColumns /\ s.id = <<s.ws, s.name>>
      /\ \A q \in places : HasSession(e, q[1], q[2])
  BY <1>2, <1>5, SessionsAdded DEF SessionColumns, HasSession
<1>8. MessageTables(e)
  <2>1. \A m \in d.messages : fm[m].id = m.id /\ DOMAIN fm[m] = MessageColumns
    BY <1>3
  <2>2. \A s \in e.sessions : DOMAIN s = SessionColumns
    BY <1>1, <1>7
  <2> QED
    BY <1>1, <1>2, <1>4, <2>1, <2>2, RewrittenMessages
<1>9. ASSUME NEW m \in d.messages PROVE AsSaid(e, SessionRequired, fm[m], said[m.id])
  <2>1. AsSaid(d, Peers, m, said[m.id])
    BY <1>1 DEF PeerMessages
  <2>2. IsPeer(e, m.ws, m.author)
    BY <1>2, <2>1 DEF AsSaid, IsPeer
  <2>3. HasSession(e, fm[m].ws, fm[m].session)
    <3>1. CASE m.session = NoValue
      <4>1. HasSession(e, m.ws, m.author)
        BY <1>6, <1>7, <3>1
      <4> QED
        BY <1>3, <3>1, <4>1
    <3>2. CASE m.session # NoValue
      <4>1. HasSession(e, m.ws, m.session)
        BY <1>7, <2>1, <3>2 DEF AsSaid, HasSession
      <4> QED
        BY <1>3, <3>2, <4>1
    <3> QED
      BY <3>1, <3>2
  <2> QED
    BY <1>3, <2>1, <2>2, <2>3 DEF AsSaid
<1>10. PeerMessages(e, SessionRequired)
  <2>1. ASSUME NEW x \in e.messages PROVE AsSaid(e, SessionRequired, x, said[x.id])
    <3>1. PICK m \in d.messages : x = fm[m]
      BY <1>2
    <3> QED
      BY <1>3, <1>9, <3>1
  <2>2. SessionIds(e)
    BY <1>1, <1>7 DEF PeerMessages, SessionIds
  <2> QED
    BY <2>1, <2>2 DEF PeerMessages
<1>11. db' = e
  BY DEF e
<1>12. NumbersFollowIds' /\ TokensAreCounted'
  <2>1. NumbersFollowIds'
    BY DEF NumbersFollowIds
  <2>2. ASSUME ~falling, Len(said) <= BatchSize, NEW x \in e.messages PROVE x.counted
    <3>1. \A m \in d.messages : m.counted
      BY <1>1, <2>2 DEF TokensAreCounted
    <3> QED
      BY <1>2, <1>3, <3>1
  <2>3. TokensAreCounted'
    BY <1>11, <2>2 DEF TokensAreCounted
  <2> QED
    BY <2>1, <2>3
<1>13. rev' \in Nat /\ rev' >= Peers /\ ~(rev' < Peers)
  OBVIOUS
<1>14. falling' \in BOOLEAN
  OBVIOUS
<1>15. MessageTables(db)' /\ PeerMessages(db, rev)' /\ IsSequence(said)'
  BY <1>1, <1>8, <1>10, <1>11 DEF MessageTables, PeerMessages, IsSequence
<1> QED
  BY <1>12, <1>13, <1>14, <1>15, Zenon DEF MessageInv

\* Rows of messages in which only the numbers change.
Renumbers(d, e) ==
  /\ DOMAIN e = Tables /\ e.peers = d.peers /\ e.sessions = d.sessions
  /\ \E f : /\ DOMAIN f = d.messages /\ e.messages = {f[m] : m \in d.messages}
            /\ \A m \in d.messages :
                 /\ DOMAIN f[m] = MessageColumns
                 /\ f[m].id = m.id /\ f[m].ws = m.ws /\ f[m].session = m.session
                 /\ f[m].author = m.author /\ f[m].counted = m.counted

LEMMA MessagesRenumbered ==
  ASSUME MessageInv, rev >= SessionRequired, rev' >= SessionRequired, rev' \in Nat,
         Renumbers(db, db'), UNCHANGED said, falling' \in BOOLEAN, falling => falling',
         NumbersFollowIds'
  PROVE  MessageInv'
<1>1. /\ DOMAIN db = Tables /\ MessageTables(db) /\ PeerMessages(db, rev) /\ IsSequence(said)
      /\ (\A s \in db.sessions : DOMAIN s = SessionColumns)
      /\ Keyed(db.peers) /\ TokensAreCounted /\ rev \in Nat
  BY DEF MessageInv, MessageTables
<1>2. PICK f : /\ DOMAIN f = db.messages /\ db'.messages = {f[m] : m \in db.messages}
               /\ \A m \in db.messages :
                    /\ DOMAIN f[m] = MessageColumns
                    /\ f[m].id = m.id /\ f[m].ws = m.ws /\ f[m].session = m.session
                    /\ f[m].author = m.author /\ f[m].counted = m.counted
  BY DEF Renumbers
<1>3. DOMAIN db' = Tables /\ db'.peers = db.peers /\ db'.sessions = db.sessions
  BY DEF Renumbers
<1>4. MessageTables(db)'
  <2>1. \A m \in db.messages : f[m].id = m.id /\ DOMAIN f[m] = MessageColumns
    BY <1>2
  <2>2. MessageTables(db')
    BY <1>1, <1>2, <1>3, <2>1, RewrittenMessages
  <2> QED
    BY <2>2 DEF MessageTables
<1>5. ASSUME NEW m \in db.messages PROVE AsSaid(db', rev', f[m], said[m.id])
  <2>1. AsSaid(db, rev, m, said[m.id])
    BY <1>1 DEF PeerMessages
  <2>2. IsPeer(db, m.ws, m.author) => IsPeer(db', m.ws, m.author)
    BY <1>3 DEF IsPeer
  <2>3. HasSession(db, m.ws, m.session) => HasSession(db', m.ws, m.session)
    BY <1>3 DEF HasSession
  <2> QED
    BY <1>1, <1>2, <2>1, <2>2, <2>3 DEF AsSaid
<1>6. PeerMessages(db, rev)'
  <2>1. ASSUME NEW x \in db'.messages PROVE AsSaid(db', rev', x, said[x.id])
    <3>1. PICK m \in db.messages : x = f[m]
      BY <1>2
    <3> QED
      BY <1>2, <1>5, <3>1
  <2>2. SessionIds(db')
    BY <1>1, <1>3 DEF PeerMessages, SessionIds
  <2> QED
    BY <2>1, <2>2 DEF PeerMessages
<1>7. TokensAreCounted'
  <2>1. ASSUME ~falling, Len(said) <= BatchSize, NEW x \in db'.messages PROVE x.counted
    <3>1. \A m \in db.messages : m.counted
      BY <1>1, <2>1 DEF TokensAreCounted
    <3> QED
      BY <1>2, <3>1
  <2> QED
    BY <2>1 DEF TokensAreCounted
<1>8. rev' \in Nat /\ rev' >= Peers /\ ~(rev' < Peers)
  BY <1>1
<1>9. falling' \in BOOLEAN
  OBVIOUS
<1>10. IsSequence(said)'
  BY <1>1
<1> QED
  BY <1>4, <1>6, <1>7, <1>8, <1>9, <1>10, Zenon DEF MessageInv

\* A message's number is the number of messages of its session up to it.
UpTo(messages, x) ==
  {n \in messages : n.ws = x.ws /\ n.session = x.session /\ n.id <= x.id}

\* bb6fb3a7a643: rewriting the rows that are counted does not change their number.
LEMMA NumbersGiven ==
  ASSUME NEW d, MessageTables(d), NEW e, e = Numbered(d)
  PROVE  /\ Renumbers(d, e)
         /\ \A x \in e.messages : x.seq = Cardinality(UpTo(e.messages, x))
<1> DEFINE fm == [m \in d.messages |-> [m EXCEPT !.seq = Cardinality(UpTo(d.messages, m))]]
<1>1. DOMAIN d = Tables /\ \A m \in d.messages : DOMAIN m = MessageColumns
  BY DEF MessageTables
<1>2. /\ DOMAIN e = Tables /\ e.peers = d.peers /\ e.sessions = d.sessions
      /\ e.messages = {fm[m] : m \in d.messages}
  BY <1>1 DEF Numbered, UpTo, Tables
<1>3. \A m \in d.messages :
        /\ fm[m].id = m.id /\ fm[m].ws = m.ws /\ DOMAIN fm[m] = MessageColumns
        /\ fm[m].session = m.session /\ fm[m].author = m.author /\ fm[m].counted = m.counted
        /\ fm[m].seq = Cardinality(UpTo(d.messages, m))
  BY <1>1 DEF MessageColumns
<1>4. DOMAIN fm = d.messages
  OBVIOUS
<1> HIDE DEF fm
<1>5. Renumbers(d, e)
  BY <1>2, <1>3, <1>4 DEF Renumbers
<1>6. /\ Keyed(d.messages) /\ IsFiniteSet(d.messages)
      /\ Keyed(e.messages) /\ IsFiniteSet(e.messages)
  <2>1. Keyed(d.messages) /\ IsFiniteSet(d.messages) /\ \A m \in d.messages : fm[m].id = m.id
    BY <1>3 DEF MessageTables
  <2> QED
    BY <1>2, <1>4, <2>1, RewrittenTable
<1>7. ASSUME NEW m \in d.messages
      PROVE  Cardinality(UpTo(e.messages, fm[m])) = Cardinality(UpTo(d.messages, m))
  <2> DEFINE A == UpTo(d.messages, m)
             B == UpTo(e.messages, fm[m])
  <2>1. IsFiniteSet(A) /\ Keyed(A) /\ IsFiniteSet(B) /\ Keyed(B)
    BY <1>6, FS_Subset DEF UpTo, Keyed
  <2>2. ASSUME NEW n \in A PROVE fm[n] \in B
    BY <1>2, <1>3, <2>2 DEF UpTo
  <2>3. ASSUME NEW x \in B PROVE \E n \in A : x = fm[n]
    <3>1. x \in e.messages /\ x.ws = m.ws /\ x.session = m.session /\ x.id <= m.id
      BY <1>3 DEF UpTo
    <3>2. PICK n \in d.messages : x = fm[n]
      BY <1>2, <3>1
    <3>3. n.ws = m.ws /\ n.session = m.session /\ n.id <= m.id
      BY <1>3, <3>1, <3>2
    <3> QED
      BY <3>2, <3>3 DEF UpTo
  <2>4. A \subseteq d.messages
    BY DEF UpTo
  <2> HIDE DEF A, B
  <2>5. IdsOf(A) \subseteq IdsOf(B)
    BY <1>3, <2>2, <2>4 DEF IdsOf
  <2>6. IdsOf(B) \subseteq IdsOf(A)
    BY <1>3, <2>3, <2>4 DEF IdsOf
  <2>7. Cardinality(A) = Cardinality(B)
    BY <2>1, <2>5, <2>6, CountIds
  <2> QED
    BY <2>7 DEF A, B
<1>8. ASSUME NEW x \in e.messages PROVE x.seq = Cardinality(UpTo(e.messages, x))
  <2>1. PICK m \in d.messages : x = fm[m]
    BY <1>2
  <2> QED
    BY <1>3, <1>7, <2>1
<1> QED
  BY <1>5, <1>8

\* bb6fb3a7a643 back.
LEMMA NumbersDropped ==
  ASSUME NEW d, MessageTables(d)
  PROVE  Renumbers(d, WithoutNumbers(d))
<1> DEFINE e == WithoutNumbers(d)
           fm == [m \in d.messages |-> [m EXCEPT !.seq = NoValue]]
<1>1. DOMAIN d = Tables /\ \A m \in d.messages : DOMAIN m = MessageColumns
  BY DEF MessageTables
<1>2. /\ DOMAIN e = Tables /\ e.peers = d.peers /\ e.sessions = d.sessions
      /\ e.messages = {fm[m] : m \in d.messages}
  BY <1>1 DEF WithoutNumbers, Tables
<1>3. \A m \in d.messages :
        /\ fm[m].id = m.id /\ fm[m].ws = m.ws /\ DOMAIN fm[m] = MessageColumns
        /\ fm[m].session = m.session /\ fm[m].author = m.author /\ fm[m].counted = m.counted
  BY <1>1 DEF MessageColumns
<1>4. DOMAIN fm = d.messages
  OBVIOUS
<1> HIDE DEF fm, e
<1>5. Renumbers(d, e)
  BY <1>2, <1>3, <1>4 DEF Renumbers
<1> QED
  BY <1>5 DEF e

\* A message that is posted gets the next id, and the next number of its session.
LEMMA MessagePosted ==
  ASSUME MessageInv, NEW w, NEW p, NEW n, PostMessage(w, p, n)
  PROVE  MessageInv'
<1> DEFINE places == Place(w, n)
           inSession == {m \in db.messages : m.ws = w /\ m.session = n}
           message == [id |-> Len(said) + 1, ws |-> w, session |-> n, author |-> p,
                       isUser |-> NoValue, counted |-> TRUE,
                       seq |-> IF rev < Sequence THEN NoValue ELSE 1 + Cardinality(inSession)]
           was == [ws |-> w, author |-> p, session |-> n]
<1>1. /\ rev >= Peers /\ rev \in Nat /\ falling = FALSE /\ UNCHANGED <<rev, falling>>
      /\ IsPeer(db, w, p) /\ (n = NoValue => rev < SessionRequired)
      /\ said' = Append(said, was)
  BY DEF PostMessage, Write, MayWrite, MessageInv
<1>2. /\ DOMAIN db = Tables /\ MessageTables(db) /\ PeerMessages(db, rev) /\ IsSequence(said)
      /\ (\A m \in db.messages : DOMAIN m = MessageColumns)
      /\ (\A s \in db.sessions : DOMAIN s = SessionColumns)
      /\ Keyed(db.peers) /\ NumbersFollowIds /\ TokensAreCounted
      /\ Keyed(db.messages) /\ IsFiniteSet(db.messages) /\ IdsOf(db.messages) = DOMAIN said
  BY <1>1 DEF MessageInv, MessageTables
<1>3. /\ DOMAIN db' = Tables /\ db'.peers = db.peers /\ db'.sessions = WithSessions(db, places)
      /\ db'.messages = db.messages \union {message}
  BY <1>2 DEF PostMessage, Write, Tables
<1>4. /\ message.id = Len(said) + 1 /\ message.ws = w /\ message.session = n /\ message.author = p
      /\ message.counted = TRUE /\ DOMAIN message = MessageColumns
      /\ rev >= Sequence => message.seq = 1 + Cardinality(inSession)
  BY <1>1 DEF MessageColumns
<1>5. (\A q \in places : q = <<q[1], q[2]>>) /\ (n # NoValue => <<w, n>> \in places)
  BY DEF Place
<1>6. was.ws = w /\ was.author = p /\ was.session = n
  OBVIOUS
<1>7. \A m : m \in inSession <=> m \in db.messages /\ m.ws = w /\ m.session = n
  OBVIOUS
<1> HIDE DEF places, inSession, message, was
<1>8. /\ db.sessions \subseteq db'.sessions
      /\ \A s \in db'.sessions \ db.sessions : DOMAIN s = SessionColumns /\ s.id = <<s.ws, s.name>>
      /\ n # NoValue => HasSession(db', w, n)
  BY <1>3, <1>5, SessionsAdded DEF SessionColumns, HasSession
<1>9. /\ Len(said) \in Nat /\ DOMAIN said = 1..Len(said)
      /\ IsSequence(said)' /\ Len(said') = Len(said) + 1
      /\ DOMAIN said' = DOMAIN said \union {Len(said) + 1}
      /\ said'[Len(said) + 1] = was
      /\ \A i \in DOMAIN said : said'[i] = said[i]
  BY <1>1, <1>2, SequenceFacts, AppendFacts
<1>10. \A m \in db.messages : m.id \in DOMAIN said /\ m.id \in Nat /\ m.id < message.id
  <2>1. \A m \in db.messages : m.id \in 1..Len(said)
    BY <1>2, <1>9 DEF IdsOf
  <2> QED
    BY <1>4, <1>9, <2>1
<1>11. MessageTables(db)'
  <2>1. Keyed(db'.messages)
    BY <1>2, <1>3, <1>10 DEF Keyed
  <2>2. IsFiniteSet(db'.messages)
    BY <1>2, <1>3, FS_AddElement
  <2>3. IdsOf(db'.messages) = DOMAIN said'
    BY <1>2, <1>3, <1>4, <1>9 DEF IdsOf
  <2>4. \A s \in db'.sessions : DOMAIN s = SessionColumns
    BY <1>2, <1>8
  <2>5. \A m \in db'.messages : DOMAIN m = MessageColumns
    BY <1>2, <1>3, <1>4
  <2> QED
    BY <1>2, <1>3, <2>1, <2>2, <2>3, <2>4, <2>5 DEF MessageTables
<1>12. PeerMessages(db, rev)'
  <2>1. ASSUME NEW m \in db.messages PROVE AsSaid(db', rev, m, said'[m.id])
    <3>1. AsSaid(db, rev, m, said[m.id]) /\ said'[m.id] = said[m.id]
      BY <1>2, <1>9, <1>10 DEF PeerMessages
    <3>2. /\ IsPeer(db, m.ws, m.author) => IsPeer(db', m.ws, m.author)
          /\ HasSession(db, m.ws, m.session) => HasSession(db', m.ws, m.session)
      BY <1>3, <1>8 DEF IsPeer, HasSession
    <3> QED
      BY <3>1, <3>2 DEF AsSaid
  <2>2. AsSaid(db', rev, message, said'[message.id])
    <3>1. IsPeer(db', w, p)
      BY <1>1, <1>3 DEF IsPeer
    <3>2. said'[message.id] = was
      BY <1>4, <1>9
    <3>3. n = NoValue => ~(rev >= SessionRequired)
      BY <1>1
    <3> QED
      BY <1>4, <1>6, <1>8, <3>1, <3>2, <3>3 DEF AsSaid
  <2>3. SessionIds(db')
    BY <1>2, <1>8 DEF PeerMessages, SessionIds
  <2>4. \A m \in db'.messages : AsSaid(db', rev', m, said'[m.id])
    BY <1>1, <1>3, <2>1, <2>2
  <2> QED
    BY <2>3, <2>4 DEF PeerMessages
<1>13. NumbersFollowIds'
  <2> SUFFICES ASSUME NEW x \in db'.messages, rev >= Sequence
               PROVE  x.seq = Cardinality(UpTo(db'.messages, x))
    BY <1>1 DEF NumbersFollowIds, UpTo
  <2>1. CASE x = message
    <3>1. IsFiniteSet(inSession) /\ message \notin inSession
      <4>1. inSession \in SUBSET db.messages
        BY <1>7
      <4>2. IsFiniteSet(inSession)
        BY <1>2, <4>1, FS_Subset
      <4> QED
        BY <1>7, <1>10, <4>2
    <3>2. UpTo(db'.messages, message) = inSession \union {message}
      <4>1. \A m \in db.messages : m.id <= message.id
        BY <1>4, <1>9, <1>10
      <4>2. message.id <= message.id
        BY <1>4, <1>9
      <4> QED
        BY <1>3, <1>4, <1>7, <4>1, <4>2 DEF UpTo
    <3>3. Cardinality(inSession \union {message}) = Cardinality(inSession) + 1
      BY <3>1, FS_AddElement
    <3>4. Cardinality(inSession) \in Nat
      BY <3>1, FS_CardinalityType
    <3> QED
      BY <1>4, <2>1, <3>2, <3>3, <3>4
  <2>2. CASE x \in db.messages
    <3>1. ~(message.id <= x.id)
      BY <1>4, <1>9, <1>10, <2>2
    <3>2. UpTo(db'.messages, x) = UpTo(db.messages, x)
      BY <1>3, <3>1 DEF UpTo
    <3> QED
      BY <1>2, <2>2, <3>2 DEF NumbersFollowIds, UpTo
  <2> QED
    BY <1>3, <2>1, <2>2
<1>14. TokensAreCounted'
  <2>1. ASSUME Len(said') <= BatchSize, NEW x \in db'.messages PROVE x.counted
    <3>1. Len(said) <= BatchSize
      BY <1>9, <2>1, MigrationsAssumption
    <3>2. \A m \in db.messages : m.counted
      BY <1>1, <1>2, <3>1 DEF TokensAreCounted
    <3> QED
      BY <1>3, <1>4, <3>2
  <2> QED
    BY <2>1 DEF TokensAreCounted
<1>15. rev' \in Nat /\ rev' >= Peers /\ ~(rev' < Peers)
  BY <1>1
<1>16. falling' \in BOOLEAN
  BY <1>1
<1> QED
  BY <1>9, <1>11, <1>12, <1>13, <1>14, <1>15, <1>16, Zenon DEF MessageInv

\* d429de0e5338 back: authors and sessions become ids again, which still tell them.
LEMMA PeersAbandoned ==
  ASSUME MessageInv, rev = Peers, NEW userOf, db' = AbandonPeers(db, userOf),
         SessionsAreFound(db), rev' = AppColumns, falling' = TRUE, UNCHANGED said
  PROVE  MessageInv'
<1> DEFINE d == db
           fs == [s \in d.sessions |-> [s EXCEPT !.user = userOf[s]]]
           r1 == RestoreAppUserColumns(d, userOf)
           r2 == RestoreDocuments(r1)
           r == RestoreCollections(r2)
           e == AbandonPeers(d, userOf)
           Named(n) == CHOOSE s \in r.sessions : s.name = n
           fm == [m \in d.messages |->
                   [m EXCEPT !.session = Named(@).id, !.author = IdOf(r, m.ws, @),
                             !.isUser = Named(m.session).user = m.author, !.counted = FALSE]]
<1>1. /\ DOMAIN d = Tables /\ PeerMessages(d, Peers) /\ IsSequence(said) /\ Keyed(d.peers)
      /\ (\A m \in d.messages : DOMAIN m = MessageColumns)
      /\ (\A s \in d.sessions : DOMAIN s = SessionColumns)
      /\ IdsOf(d.messages) = DOMAIN said
  BY DEF MessageInv, MessageTables
<1>2. /\ DOMAIN r1 = Tables /\ r1.peers = d.peers /\ r1.messages = d.messages
      /\ r1.sessions = {fs[s] : s \in d.sessions}
  BY <1>1 DEF RestoreAppUserColumns, Tables
<1>3. /\ DOMAIN r2 = Tables /\ r2.peers = d.peers /\ r2.messages = d.messages
      /\ r2.sessions = r1.sessions
  BY <1>2 DEF RestoreDocuments, Tables
<1>4. /\ DOMAIN r = Tables /\ r.peers = d.peers /\ r.messages = d.messages
      /\ r.sessions = r1.sessions
  BY <1>3 DEF RestoreCollections, Tables
<1>5. e.peers = d.peers /\ e.messages = {fm[m] : m \in d.messages}
  BY <1>4 DEF AbandonPeers, RestoreSessions, RestoreMessages, Tables
<1>6. \A s \in d.sessions : fs[s].id = s.id /\ fs[s].name = s.name
  BY <1>1 DEF SessionColumns
<1>7. \A m \in d.messages :
        /\ fm[m].id = m.id /\ fm[m].ws = m.ws
        /\ fm[m].session = Named(m.session).id /\ fm[m].author = IdOf(r, m.ws, m.author)
  BY <1>1 DEF MessageColumns
<1>8. \A n : (\E s \in r.sessions : s.name = n) => Named(n) \in r.sessions /\ Named(n).name = n
  OBVIOUS
<1>9. e = db'
  OBVIOUS
<1> HIDE DEF fs, r1, r2, r, e, fm, Named
<1>10. ASSUME NEW m \in d.messages
       PROVE  LET was == said[m.id] IN
              /\ fm[m].ws = was.ws
              /\ NameOf(e, fm[m].author) = was.author
              /\ was.session # NoValue => fm[m].session \in {was.session, <<fm[m].ws, was.session>>}
  <2>1. AsSaid(d, Peers, m, said[m.id])
    BY <1>1 DEF PeerMessages
  <2>2. NameOf(e, fm[m].author) = m.author
    <3> DEFINE p == CHOOSE p \in d.peers : p.ws = m.ws /\ p.name = m.author
    <3>1. p \in d.peers /\ p.name = m.author
      BY <2>1 DEF AsSaid, IsPeer
    <3>2. fm[m].author = p.id
      BY <1>4, <1>7 DEF IdOf
    <3> HIDE DEF p
    <3>3. Row(d.peers, p.id) = p
      BY <1>1, <3>1, RowOfId
    <3> QED
      BY <1>5, <3>1, <3>2, <3>3 DEF NameOf
  <2>3. ASSUME m.session # NoValue PROVE fm[m].session \in {m.session, <<m.ws, m.session>>}
    <3>1. PICK s \in d.sessions : s.ws = m.ws /\ s.name = m.session
      BY <2>1, <2>3 DEF AsSaid, HasSession
    <3>2. \A t \in d.sessions : t.name = m.session => t = s
      BY <3>1 DEF SessionsAreFound
    <3>3. fs[s] \in r.sessions /\ fs[s].name = m.session
      BY <1>2, <1>4, <1>6, <3>1
    <3>4. Named(m.session) \in r.sessions /\ Named(m.session).name = m.session
      BY <1>8, <3>3
    <3>5. PICK t \in d.sessions : Named(m.session) = fs[t]
      BY <1>2, <1>4, <3>4
    <3>6. t = s
      BY <1>6, <3>2, <3>4, <3>5
    <3>7. fm[m].session = s.id
      BY <1>6, <1>7, <3>5, <3>6
    <3> QED
      BY <1>1, <3>1, <3>7 DEF PeerMessages, SessionIds
  <2> QED
    BY <1>7, <2>1, <2>2, <2>3 DEF AsSaid
<1>11. {m.id : m \in e.messages} = DOMAIN said
  <2>1. \A m \in d.messages : fm[m].id = m.id
    BY <1>7
  <2>2. {m.id : m \in e.messages} = {m.id : m \in d.messages}
    BY <1>5, <2>1
  <2> QED
    BY <1>1, <2>2 DEF IdsOf
<1>12. MessagesKept'
  <2>1. NumbersFollowIds' /\ TokensAreCounted'
    BY DEF NumbersFollowIds, TokensAreCounted
  <2>2. ASSUME NEW x \in e.messages
        PROVE  LET was == said[x.id] IN
               /\ x.ws = was.ws
               /\ NameOf(e, x.author) = was.author
               /\ was.session # NoValue => x.session \in {was.session, <<x.ws, was.session>>}
    <3>1. PICK m \in d.messages : x = fm[m]
      BY <1>5
    <3> QED
      BY <1>7, <1>10, <3>1
  <2> QED
    BY <1>9, <1>11, <2>1, <2>2 DEF MessagesKept, InItsSession
<1>13. rev' \in Nat /\ rev' < Peers /\ ~(rev' >= Peers)
  OBVIOUS
<1>14. falling' = TRUE /\ IsSequence(said)'
  BY <1>1
<1> QED
  BY <1>12, <1>13, <1>14, Zenon DEF MessageInv

LEMMA MessagesUp ==
  ASSUME MessageInv, Up, UNCHANGED said
  PROVE  MessageInv'
<1> USE DEF Upgrade
<1>1. rev \in Nat /\ falling = FALSE /\ falling' = FALSE /\ IsSequence(said)
  BY DEF MessageInv, Up
<1>2. DOMAIN db = Tables /\ MessageTables(db)
  BY <1>1 DEF MessageInv, MessageTables
<1>3. ASSUME rev >= Peers, rev' \in Nat, rev' >= Peers, DOMAIN db' = Tables,
             db'.messages = db.messages, db'.peers = db.peers, db.sessions \subseteq db'.sessions,
             \A s \in db'.sessions \ db.sessions : DOMAIN s = SessionColumns /\ s.id = <<s.ws, s.name>>,
             rev' >= SessionRequired => rev >= SessionRequired, rev' >= Sequence => rev >= Sequence
      PROVE  MessageInv'
  <2>1. falling' \in BOOLEAN /\ (falling => falling')
    BY <1>1
  <2> QED
    BY <1>3, <2>1, MessagesStay
<1>4. ASSUME rev >= Peers, rev' \in Nat, rev' >= Peers, Keeps(db, db', {"peers", "sessions", "messages"}),
             rev' >= SessionRequired => rev >= SessionRequired, rev' >= Sequence => rev >= Sequence
      PROVE  MessageInv'
  BY <1>3, <1>4 DEF Keeps
<1>5. CASE Upgrade(AppColumns, AddAppColumns(db))
  <2>1. EarlyMessages(db, Base)
    BY <1>1, <1>5 DEF MessageInv
  <2>2. MessageTables(db') /\ EarlyMessages(db', AppColumns)
    BY <1>2, <1>5, <2>1, ColumnsAdded
  <2>3. MessageTables(db)' /\ EarlyMessages(db, rev)'
    BY <1>5, <2>2 DEF MessageTables, EarlyMessages, Origin
  <2>4. rev' \in Nat /\ rev' < Peers /\ ~(rev' >= Peers)
    BY <1>5
  <2>5. falling' \in BOOLEAN /\ ~falling' /\ IsSequence(said)'
    BY <1>1
  <2> QED
    BY <2>3, <2>4, <2>5, Zenon DEF MessageInv
<1>6. ASSUME NEW counted \in Backfilled(db.messages), Upgrade(Peers, AdoptPeers(db, counted))
      PROVE  MessageInv'
  <2>1. ~falling
    BY <1>1
  <2>2. rev = AppColumns /\ rev' = Peers /\ db' = AdoptPeers(db, counted)
    BY <1>6
  <2> QED
    BY <1>1, <2>1, <2>2, PeersAdopted
<1>7. CASE Upgrade(SessionRequired, RequireSession(db))
  <2>1. falling \in BOOLEAN
    BY <1>1
  <2> QED
    BY <1>7, <2>1, SessionsRequired
<1>8. CASE Upgrade(WorkUnits, KeyRows(db))
  <2>1. Keeps(db, db', {"peers", "sessions", "messages"})
    BY <1>2, <1>8, UpgradesKeep DEF Keeps, Tables
  <2> QED
    BY <1>4, <1>8, <2>1
<1>9. CASE Upgrade(DocumentSession, db) \/ Upgrade(Aligned, db) \/ Upgrade(OneDream, db)
             \/ \E r \in {AnyLevel, SoftDelete, Latest} : Upgrade(r, db)
  <2>1. Keeps(db, db', {"peers", "sessions", "messages"})
    BY <1>2, <1>9 DEF Keeps
  <2> QED
    BY <1>4, <1>9, <2>1
<1>10. CASE Upgrade(Observers, SplitNames(db))
  <2>1. Keeps(db, db', {"peers", "messages"})
    BY <1>2, <1>10, UpgradesKeep DEF Keeps, Tables
  <2>2. /\ db.sessions \subseteq db'.sessions
        /\ \A s \in db'.sessions \ db.sessions : DOMAIN s = SessionColumns /\ s.id = <<s.ws, s.name>>
    <3> DEFINE places == {<<o.ws, GlobalObservations>> : o \in {x \in db.documents : x.session = NoValue}}
    <3>1. db'.sessions = WithSessions(db, places)
      BY <1>2, <1>10 DEF SplitNames, SplitCollections, SplitDocuments, DropUserCollections,
                         PlaceObservations, Tables
    <3>2. \A q \in places : q = <<q[1], q[2]>>
      OBVIOUS
    <3> HIDE DEF places
    <3> QED
      BY <3>1, <3>2, SessionsAdded DEF SessionColumns
  <2> QED
    BY <1>3, <1>10, <2>1, <2>2 DEF Keeps
<1>11. CASE Upgrade(Sequence, Numbered(db))
  <2>1. Renumbers(db, db') /\ \A x \in db'.messages : x.seq = Cardinality(UpTo(db'.messages, x))
    BY <1>2, <1>11, NumbersGiven
  <2>2. NumbersFollowIds'
    BY <2>1 DEF NumbersFollowIds, UpTo
  <2>3. falling' \in BOOLEAN /\ (falling => falling')
    BY <1>1
  <2> QED
    BY <1>11, <2>1, <2>2, <2>3, MessagesRenumbered
<1>12. CASE Upgrade(QueueColumns, MoveOut(db)) \/ Upgrade(Levels, ReadLevels(db))
  <2>1. Keeps(db, db', {"peers", "sessions", "messages"})
    BY <1>2, <1>12, UpgradesKeep DEF Keeps, Tables
  <2> QED
    BY <1>4, <1>12, <2>1
<1> QED
  BY <1>5, <1>6, <1>7, <1>8, <1>9, <1>10, <1>11, <1>12 DEF Up

LEMMA MessagesDown ==
  ASSUME MessageInv, Down, UNCHANGED said
  PROVE  MessageInv'
<1> USE DEF Downgrade
<1>1. rev \in Nat /\ rev >= Peers /\ falling' = TRUE
  BY DEF MessageInv, Down
<1>2. DOMAIN db = Tables /\ MessageTables(db)
  BY <1>1 DEF MessageInv, MessageTables
<1>3. ASSUME rev' = rev - 1, rev' >= Peers, DOMAIN db' = Tables,
             db'.messages = db.messages, db'.peers = db.peers, db.sessions \subseteq db'.sessions,
             \A s \in db'.sessions \ db.sessions : DOMAIN s = SessionColumns /\ s.id = <<s.ws, s.name>>
      PROVE  MessageInv'
  <2>1. /\ rev' \in Nat
        /\ rev' >= SessionRequired => rev >= SessionRequired
        /\ rev' >= Sequence => rev >= Sequence
    BY <1>1, <1>3
  <2>2. falling' \in BOOLEAN /\ (falling => falling')
    BY <1>1
  <2> QED
    BY <1>1, <1>3, <2>1, <2>2, MessagesStay
<1>4. ASSUME rev' = rev - 1, rev' >= Peers, Keeps(db, db', {"peers", "sessions", "messages"})
      PROVE  MessageInv'
  BY <1>3, <1>4 DEF Keeps
<1>5. CASE Downgrade(Latest, PlaceDocuments(db))
  <2>1. Keeps(db, db', {"peers", "messages"})
    BY <1>2, <1>5, DowngradesKeep DEF Keeps, Tables
  <2>2. /\ db.sessions \subseteq db'.sessions
        /\ \A s \in db'.sessions \ db.sessions : DOMAIN s = SessionColumns /\ s.id = <<s.ws, s.name>>
    <3> DEFINE places == {<<o.ws, Orphaned>> : o \in {x \in db.documents : x.session = NoValue}}
    <3>1. db'.sessions = WithSessions(db, places)
      BY <1>2, <1>5 DEF PlaceDocuments, Tables
    <3>2. \A q \in places : q = <<q[1], q[2]>>
      OBVIOUS
    <3> HIDE DEF places
    <3> QED
      BY <3>1, <3>2, SessionsAdded DEF SessionColumns
  <2> QED
    BY <1>3, <1>5, <2>1, <2>2 DEF Keeps
<1>6. CASE Downgrade(SoftDelete, DropSystemRows(db))
  <2>1. Keeps(db, db', {"peers", "sessions", "messages"})
    BY <1>2, <1>6, DowngradesKeep DEF Keeps, Tables
  <2> QED
    BY <1>4, <1>6, <2>1
<1>7. CASE Downgrade(AnyLevel, OldLevels(db)) \/ Downgrade(QueueColumns, MoveIn(db))
  <2>1. Keeps(db, db', {"peers", "sessions", "messages"})
    <3>1. CASE Downgrade(AnyLevel, OldLevels(db))
      BY <1>2, <3>1, DowngradesKeep DEF Keeps, Tables
    <3>2. CASE Downgrade(QueueColumns, MoveIn(db))
      BY <1>2, <3>2, DowngradesKeep DEF Keeps, Tables
    <3> QED
      BY <1>7, <3>1, <3>2
  <2> QED
    BY <1>4, <1>7, <2>1
<1>8. CASE Downgrade(Sequence, WithoutNumbers(db))
  <2>1. Renumbers(db, db')
    BY <1>2, <1>8, NumbersDropped
  <2>2. NumbersFollowIds'
    BY <1>8 DEF NumbersFollowIds
  <2>3. falling' \in BOOLEAN /\ (falling => falling')
    BY <1>1
  <2> QED
    BY <1>8, <2>1, <2>2, <2>3, MessagesRenumbered
<1>9. CASE Downgrade(Observers, JoinNames(db)) \/ Downgrade(WorkUnits, DropKeys(db))
  <2>1. Keeps(db, db', {"peers", "sessions", "messages"})
    <3>1. CASE Downgrade(Observers, JoinNames(db))
      BY <1>2, <3>1, DowngradesKeep DEF Keeps, Tables
    <3>2. CASE Downgrade(WorkUnits, DropKeys(db))
      BY <1>2, <3>2, DowngradesKeep DEF Keeps, Tables
    <3> QED
      BY <1>9, <3>1, <3>2
  <2> QED
    BY <1>4, <1>9, <2>1
<1>10. ASSUME SessionsAreFound(db), NEW userOf, Downgrade(Peers, AbandonPeers(db, userOf))
       PROVE  MessageInv'
  BY <1>10, PeersAbandoned
<1>11. ASSUME NEW r \in {OneDream, Levels, Aligned, DocumentSession, SessionRequired}, Downgrade(r, db)
       PROVE  MessageInv'
  <2>1. Keeps(db, db', {"peers", "sessions", "messages"})
    BY <1>2, <1>11 DEF Keeps
  <2> QED
    BY <1>4, <1>11, <2>1
<1> QED
  BY <1>5, <1>6, <1>7, <1>8, <1>9, <1>10, <1>11 DEF Down

LEMMA MessagesThroughout ==
  ASSUME MessageInv, [Next]_vars
  PROVE  MessageInv'
<1>1. CASE Up /\ UNCHANGED said
  BY <1>1, MessagesUp
<1>2. CASE Down /\ UNCHANGED said
  BY <1>2, MessagesDown
<1>3. CASE UNCHANGED vars
  BY <1>3 DEF vars, MessageInv, MessageTables, EarlyMessages, Origin, PeerMessages, MessagesKept,
              NumbersFollowIds, TokensAreCounted, InItsSession
<1>4. ASSUME NEW tables \in SUBSET Tables, {"peers", "sessions", "messages"} \subseteq Tables \ tables,
             MayWrite, Keeps(db, db', Tables \ tables), UNCHANGED <<rev, falling, said>>
      PROVE  MessageInv'
  <2>1. /\ rev \in Nat /\ rev >= Peers
        /\ DOMAIN db' = Tables /\ db'.messages = db.messages /\ db'.peers = db.peers
        /\ db'.sessions = db.sessions
    BY <1>4 DEF MessageInv, MayWrite, Keeps
  <2>2. falling' \in BOOLEAN /\ (falling => falling')
    BY <1>4 DEF MessageInv
  <2> QED
    BY <1>4, <2>1, <2>2, MessagesStay
<1>5. ASSUME NEW w, NEW p, NEW n, PostMessage(w, p, n) PROVE MessageInv'
  BY <1>5, MessagePosted
<1>6. ASSUME MayWrite PROVE DOMAIN db = Tables
  BY <1>6 DEF MayWrite, MessageInv, MessageTables
<1>7. ASSUME NEW w, NEW p, NEW q, NEW name, NEW n, NEW level, Observe(w, p, q, name, n, level)
      PROVE  MessageInv'
  <2>1. MayWrite /\ UNCHANGED <<rev, falling, said>>
    BY <1>7 DEF Observe, Write
  <2>2. Keeps(db, db', Tables \ {"collections", "documents"})
    BY <1>6, <1>7, <2>1, ApplicationKeeps
  <2> QED
    BY <1>4, <2>1, <2>2 DEF Tables
<1>8. ASSUME NEW task, NEW w, NEW message, Enqueue(task, w, message) PROVE MessageInv'
  <2>1. MayWrite /\ UNCHANGED <<rev, falling, said>>
    BY <1>8 DEF Enqueue, Write
  <2>2. Keeps(db, db', Tables \ {"queue"})
    BY <1>6, <1>8, <2>1, ApplicationKeeps
  <2> QED
    BY <1>4, <2>1, <2>2 DEF Tables
<1>9. CASE Lease
  <2>1. MayWrite /\ UNCHANGED <<rev, falling, said>>
    BY <1>9 DEF Lease, Write
  <2>2. Keeps(db, db', Tables \ {"leases"})
    BY <1>6, <1>9, <2>1, ApplicationKeeps
  <2> QED
    BY <1>4, <2>1, <2>2 DEF Tables
<1>10. CASE MarkDeleted
  <2>1. MayWrite /\ UNCHANGED <<rev, falling, said>>
    BY <1>10 DEF MarkDeleted, Write
  <2>2. Keeps(db, db', Tables \ {"documents"})
    BY <1>6, <1>10, <2>1, ApplicationKeeps
  <2> QED
    BY <1>4, <2>1, <2>2 DEF Tables
<1>11. CASE Migrate
  BY <1>1, <1>2, <1>11 DEF Migrate
<1>12. CASE Application
  BY <1>5, <1>7, <1>8, <1>9, <1>10, <1>12 DEF Application
<1> QED
  BY <1>3, <1>11, <1>12 DEF Next

\* Every message stays what it was when it was written, by its author, in its workspace and
\* session, through every migration in both directions; numbers in a session follow the
\* ids, and tokens are counted where one page of the backfill holds the messages.
THEOREM MessagesKeepTheirOrigin == Spec => []MessagesKept
BY MessagesAreKept, MessagesInitially, MessagesThroughout, PTL DEF Spec
=============================================================================
