----------------------------- MODULE Migrations -----------------------------
(***************************************************************************)
(* The rows of a database through its schema migrations                    *)
(* (src/migrations/versions): from the first revision with the columns of  *)
(* today's tables, when users had sessions with an application, over the   *)
(* peers, to the present one, and back.  Only the revisions that change    *)
(* rows, or that rows can hinder, are steps of their own.  Alembic runs a  *)
(* migration in a transaction: one whose constraints the rows do not       *)
(* satisfy changes nothing, here it is not enabled.  In between, the       *)
(* application of that time writes.                                        *)
(*                                                                         *)
(* A workspace stands for its id and its name, both unique; a column that  *)
(* does not exist at a revision holds NoValue.  The names of peers and     *)
(* collections are sequences of letters: one migration reads the peers of  *)
(* a collection out of its name.                                           *)
(***************************************************************************)
EXTENDS Integers, Sequences, FiniteSets

CONSTANTS
  Workspace,   \* workspaces, once called apps
  Letter,      \* the letters of names
  Underscore,  \* the letter "_", which LIKE takes for any
  Peer,        \* the names of peers, once called users
  AgentOf,     \* [Workspace -> the name, and id, that d429de0e5338 generates for its agent]
  GlobalName,  \* "global_representation", the collection of a peer about itself
  GlobalObservations, Orphaned,  \* names of placeholder sessions
  NoValue,     \* NULL
  BatchSize,   \* rows of one query of the backfill of token counts
  Initial,     \* the databases of revision b765d82110bd that are checked
  MaxWrites    \* bound: writes of the application

ASSUME MigrationsAssumption ==
  /\ BatchSize \in Nat \ {0} /\ MaxWrites \in Nat
  /\ Underscore \in Letter /\ Peer \subseteq Seq(Letter) /\ GlobalName \in Seq(Letter)
  /\ \A w \in Workspace : AgentOf[w] \in Seq(Letter)
  /\ \A w \in Workspace : AgentOf[w] \notin Peer
  /\ \A v, w \in Workspace : AgentOf[v] = AgentOf[w] => v = w
  /\ NoValue \notin Workspace \union Peer \union {GlobalObservations, Orphaned}

VARIABLES
  rev,      \* the revision of the schema
  db,       \* the tables, each a set of rows
  falling,  \* downgrades have begun
  writes,   \* writes of the application
  said,     \* history: by id, what each message was when it was written
  noted,    \* history: by id, the pair of peers each document was written for, and the
            \* name of its collection
  promised  \* history: by id, the workspace and the message of each row of the queue

vars == <<rev, db, falling, writes, said, noted, promised>>

\* The revisions in their order.
Base == 1             \* b765d82110bd
AppColumns == 2       \* 556a16564f50
Peers == 3            \* d429de0e5338
SessionRequired == 4  \* 05486ce795d5
WorkUnits == 5        \* 88b0fb10906f
DocumentSession == 6  \* 564ba40505c5
Observers == 7        \* 08894082221a
Sequence == 8         \* bb6fb3a7a643
Aligned == 9          \* 066e87ca5b07
QueueColumns == 10    \* ec8f94139b02
Levels == 11          \* b8183c5ffb48
AnyLevel == 12        \* 29ade7350c19
OneDream == 13        \* 7c0d9a4e3b1f
SoftDelete == 14      \* 119a52b73c60
Latest == 15          \* e4eba9cfaa6f

Row(table, i) == CHOOSE row \in table : row.id = i
NameOf(d, i) == Row(d.peers, i).name
IdOf(d, w, n) == (CHOOSE p \in d.peers : p.ws = w /\ p.name = n).id
IsPeer(d, w, n) == \E p \in d.peers : p.ws = w /\ p.name = n
HasSession(d, w, n) == \E s \in d.sessions : s.ws = w /\ s.name = n

\* What the schema of revision b765d82110bd demands of its tables: their columns, primary
\* keys, references and unique names; ids that are numbers count the rows.
HasColumns(d) ==
  /\ DOMAIN d = {"peers", "sessions", "members", "messages", "collections", "documents",
                 "queue", "leases"}
  /\ \A p \in d.peers : DOMAIN p = {"id", "name", "ws"}
  /\ \A s \in d.sessions : DOMAIN s = {"id", "name", "ws", "user"}
  /\ \A m \in d.messages :
       DOMAIN m = {"id", "ws", "session", "author", "isUser", "counted", "seq"}
  /\ \A c \in d.collections : DOMAIN c = {"id", "ws", "name", "peer", "observer", "observed"}
  /\ \A o \in d.documents :
       DOMAIN o = {"id", "ws", "session", "collection", "peer", "observer", "observed",
                   "level", "deleted"}
  /\ \A q \in d.queue : DOMAIN q = {"id", "task", "key", "ws", "message", "payload"}

Keyed(table) == \A r, t \in table : r.id = t.id => r = t
HasId(table, i) == \E r \in table : r.id = i
Counts(table) == IsFiniteSet(table) /\ {r.id : r \in table} = 1..Cardinality(table)

OldDatabase(d) ==
  /\ HasColumns(d)
  /\ Keyed(d.peers) /\ Keyed(d.sessions) /\ Keyed(d.messages) /\ Keyed(d.collections)
  /\ \A s \in d.sessions : HasId(d.peers, s.user)
  /\ \A m \in d.messages : HasId(d.sessions, m.session)
  /\ \A c \in d.collections : HasId(d.peers, c.peer)
  /\ \A o \in d.documents : HasId(d.collections, o.collection)
  /\ \A p, q \in d.peers : p.ws = q.ws /\ p.name = q.name => p = q
  /\ \A b, c \in d.collections : b.peer = c.peer /\ b.name = c.name => b = c
  /\ \A p \in d.peers : p.ws \in Workspace /\ \A w \in Workspace : AgentOf[w] # p.id
  /\ \A p \in d.peers : p.name \in Seq(Letter)
  /\ \A c \in d.collections : c.name \in Seq(Letter)
  /\ Counts(d.messages) /\ Counts(d.documents) /\ Counts(d.queue)

ASSUME InitialAssumption == \A d \in Initial : OldDatabase(d)

\* Rows of sessions for names that have none, ON CONFLICT DO NOTHING.
WithSessions(d, places) ==
  d.sessions \union
    {[id |-> p, name |-> p[2], ws |-> p[1], user |-> NoValue] :
      p \in {q \in places : ~HasSession(d, q[1], q[2])}}

\* The name of the collection of what p observes of q; some releases turned it round.
PairName(p, q) == p \o <<Underscore>> \o q
-----------------------------------------------------------------------------
(* Upgrades. *)

\* 556a16564f50: app_id and user_id come to the tables that reach them over others.
SessionsOfApps(d) ==
  [d EXCEPT !.sessions = {[s EXCEPT !.ws = Row(d.peers, s.user).ws] : s \in @}]
MessagesOfApps(d) ==
  [d EXCEPT !.messages = {[m EXCEPT !.ws = Row(d.sessions, m.session).ws,
                                    !.author = Row(d.sessions, m.session).user] : m \in @}]
CollectionsOfApps(d) ==
  [d EXCEPT !.collections = {[c EXCEPT !.ws = Row(d.peers, c.peer).ws] : c \in @}]
DocumentsOfApps(d) ==
  [d EXCEPT !.documents = {[o EXCEPT !.ws = Row(d.collections, o.collection).ws,
                                     !.peer = Row(d.collections, o.collection).peer] : o \in @}]
AddAppColumns(d) == DocumentsOfApps(CollectionsOfApps(MessagesOfApps(SessionsOfApps(d))))

\* backfill_token_counts pages with LIMIT and OFFSET and without an order while its
\* updates move rows: each page is any of the messages, all of them when they are few.
Backfilled(messages) ==
  LET n == Cardinality(messages) IN
  {done \in SUBSET {m.id : m \in messages} :
     \/ Cardinality(done) = n
     \/ n > BatchSize /\ Cardinality(done) >= BatchSize}

\* mutant: the condition the wrong way round
AuthorSwapped(d, m) ==
  IF m.isUser THEN AgentOf[m.ws] ELSE NameOf(d, Row(d.sessions, m.session).user)
\* A message of the user is by the session's user, another by the agent of the workspace.
AuthorOf(d, m) ==
  IF m.isUser THEN NameOf(d, Row(d.sessions, m.session).user) ELSE AgentOf[m.ws]

\* The steps of d429de0e5338, by which users become peers and sessions have several.
UpdateSessions(d) == [d EXCEPT !.sessions = {[s EXCEPT !.name = s.id] : s \in @}]

PopulateSessionPeers(d) ==
  [d EXCEPT !.peers = @ \union {[id |-> AgentOf[w], name |-> AgentOf[w], ws |-> w] : w \in Workspace},
     !.members = UNION {{[ws |-> s.ws, session |-> s.name, peer |-> p] :
                          p \in {NameOf(d, s.user), AgentOf[s.ws]}} : s \in d.sessions}]

UpdateMessages(d, counted) ==
  [d EXCEPT !.messages = {[m EXCEPT !.session = Row(d.sessions, @).name, !.author = AuthorOf(d, m),
                                    !.isUser = NoValue, !.counted = m.id \in counted] : m \in @}]

UpdateCollections(d) ==
  [d EXCEPT !.collections = {[c EXCEPT !.peer = NameOf(d, @)] : c \in @}]

UpdateDocuments(d) ==
  [d EXCEPT !.documents = {[o EXCEPT !.peer = NameOf(d, @),
                                     !.collection = Row(d.collections, @).name] : o \in @}]

AdoptPeers(d, counted) ==
  LET adopted == UpdateMessages(PopulateSessionPeers(UpdateSessions(d)), counted) IN
  [UpdateDocuments(UpdateCollections(adopted)) EXCEPT
     !.sessions = {[s EXCEPT !.user = NoValue] : s \in @}]

\* update_queue_and_active_queue_sessions_tables: ids of sessions become text, and a lease
\* gets a column task_type, NOT NULL without a default: it cannot be added to rows.
LeasesCanChange(d) == d.leases = {}

\* 05486ce795d5: messages without a session go to one named for their author.
\* mutant: one default session of the workspace
RequireSessionByWorkspace(d) ==
  [d EXCEPT !.sessions = WithSessions(d, {<<w, Orphaned>> : w \in Workspace}),
     !.messages = {[m EXCEPT !.session = IF @ = NoValue THEN Orphaned ELSE @] : m \in @}]
RequireSession(d) ==
  LET orphans == {m \in d.messages : m.session = NoValue} IN
  [d EXCEPT !.sessions = WithSessions(d, {<<m.ws, m.author>> : m \in orphans}),
     !.members = @ \union {[ws |-> m.ws, session |-> m.author, peer |-> m.author] : m \in orphans},
     !.messages = {[m EXCEPT !.session = IF @ = NoValue THEN m.author ELSE @] : m \in @}]

\* 08894082221a: the peers of a collection, which its name said, get columns.
\* name LIKE peer || '_%' and name LIKE '%_' || peer
BeginsLike(name, peer) ==
  /\ Len(name) > Len(peer)
  /\ \A i \in 1..Len(peer) : peer[i] \in {Underscore, name[i]}
EndsLike(name, peer) ==
  LET before == Len(name) - Len(peer) IN
  before > 0 /\ \A i \in 1..Len(peer) : peer[i] \in {Underscore, name[before + i]}
IsPairOf(c) == BeginsLike(c.name, c.peer) \/ EndsLike(c.name, c.peer)

\* The observed peer, by substring: the first form is tried before the second.
Behind(c) == SubSeq(c.name, Len(c.peer) + 2, Len(c.name))
InFront(c) == SubSeq(c.name, 1, Len(c.name) - Len(c.peer) - 1)
\* mutant: the second form first
ObservedInFront(c) ==
  IF c.name = GlobalName \/ ~IsPairOf(c) THEN c.peer
  ELSE IF EndsLike(c.name, c.peer) THEN InFront(c) ELSE Behind(c)
ObservedBy(c) ==
  IF c.name = GlobalName \/ ~IsPairOf(c) THEN c.peer
  ELSE IF BeginsLike(c.name, c.peer) THEN Behind(c) ELSE InFront(c)

Home(d, o) ==
  CHOOSE c \in d.collections : c.name = o.collection /\ c.peer = o.peer /\ c.ws = o.ws

PlaceObservations(d) ==
  LET unplaced == {o \in d.documents : o.session = NoValue} IN
  [d EXCEPT !.sessions = WithSessions(d, {<<o.ws, GlobalObservations>> : o \in unplaced}),
     !.documents = {[o EXCEPT !.session = IF @ = NoValue THEN GlobalObservations ELSE @] : o \in @}]

DropUserCollections(d) ==
  LET kept == {c \in d.collections : c.name = GlobalName \/ IsPairOf(c)} IN
  [d EXCEPT !.collections = kept, !.documents = {o \in @ : Home(d, o) \in kept}]

SplitDocuments(d) ==
  [d EXCEPT !.documents = {[o EXCEPT !.observer = o.peer, !.observed = ObservedBy(Home(d, o)),
                                     !.peer = NoValue, !.collection = NoValue] : o \in @}]
SplitCollections(d) ==
  [d EXCEPT !.collections = {[c EXCEPT !.observer = c.peer, !.observed = ObservedBy(c),
                                       !.peer = NoValue, !.name = NoValue] : c \in @}]

\* The columns are filled collections first, whose rows the documents read.
SplitNames(d) == SplitCollections(SplitDocuments(DropUserCollections(PlaceObservations(d))))

PairsAreUnique(d) ==
  \A b, c \in d.collections :
    <<b.ws, b.observer, b.observed>> = <<c.ws, c.observer, c.observed>> => b = c
PairsArePeers(d) ==
  \A c \in d.collections : IsPeer(d, c.ws, c.observer) /\ IsPeer(d, c.ws, c.observed)

\* mutant: numbers of the workspace
NumberedAcross(d) ==
  [d EXCEPT !.messages =
     {[m EXCEPT !.seq = 1 + Cardinality({n \in d.messages : n.ws = m.ws /\ n.id > m.id})] : m \in @}]
\* bb6fb3a7a643: messages are numbered by ROW_NUMBER in the order of their ids.
Numbered(d) ==
  [d EXCEPT !.messages =
     {[m EXCEPT !.seq = Cardinality({n \in d.messages :
         n.ws = m.ws /\ n.session = m.session /\ n.id <= m.id})] : m \in @}]

\* ec8f94139b02: the workspace and the message leave the payload, rows without go.
MoveOut(d) ==
  [d EXCEPT !.queue = {[q EXCEPT !.ws = q.payload.ws, !.message = q.payload.message,
                                 !.payload = [ws |-> NoValue, message |-> NoValue]] :
                        q \in {r \in @ : r.payload.ws # NoValue}}]

\* 88b0fb10906f: rows get the key of their work unit; a lease loses the columns that told
\* its session and gets an empty key.
KeyOf(task, w) == <<task, w>>
KeyRows(d) ==
  [d EXCEPT !.queue = {[q EXCEPT !.key = KeyOf(q.task, q.payload.ws)] : q \in @},
            !.leases = {NoValue : k \in @}]

\* b8183c5ffb48: the level comes out of the metadata.
OldLevel == {"explicit", "deductive"}
ReadLevels(d) ==
  [d EXCEPT !.documents = {[o EXCEPT !.level = IF @ = NoValue THEN "explicit" ELSE @] : o \in @}]

LevelsAreKnown(d) == \A o \in d.documents : o.level \in OldLevel

\* 564ba40505c5: the session a document names in its metadata becomes a foreign key.
DocumentsHaveSessions(d) ==
  \A o \in d.documents : o.session = NoValue \/ HasSession(d, o.ws, o.session)

\* 066e87ca5b07: columns that the models declare as not nullable, among them the key of a lease.
NotNull(values) == NoValue \notin values
LeasesHaveKeys(d) == NotNull(d.leases)

\* 7c0d9a4e3b1f: a unique index on the keys of dreams that are pending.
PendingDreams(d, key) == {q \in d.queue : q.task = "dream" /\ q.key = key}
DreamsAreSingle(d) == \A q \in d.queue : Cardinality(PendingDreams(d, q.key)) <= 1
-----------------------------------------------------------------------------
(* Downgrades. *)

\* e4eba9cfaa6f back: NULL becomes the session __orphaned__.
PlaceDocuments(d) ==
  LET unplaced == {o \in d.documents : o.session = NoValue} IN
  [d EXCEPT !.sessions = WithSessions(d, {<<o.ws, Orphaned>> : o \in unplaced}),
     !.documents = {[o EXCEPT !.session = IF @ = NoValue THEN Orphaned ELSE @] : o \in @}]

\* 119a52b73c60 back: rows of the system go with their leases; nothing deletes documents
\* that were marked, whose mark goes with its column.
DropSystemRows(d) ==
  LET system == {q \in d.queue : q.ws = NoValue} IN
  [d EXCEPT !.queue = @ \ system,
     !.leases = {k \in @ : k \notin {q.key : q \in system}},
     !.documents = {[o EXCEPT !.deleted = FALSE] : o \in @}]

\* 29ade7350c19 back: levels its constraint does not know.
OldLevels(d) ==
  [d EXCEPT !.documents =
     {[o EXCEPT !.level = IF @ \in OldLevel THEN @ ELSE "explicit"] : o \in @}]

\* ec8f94139b02 back.
\* mutant: the message stays behind
MoveInWorkspace(d) ==
  [d EXCEPT !.queue = {[q EXCEPT !.payload = [ws |-> q.ws, message |-> NoValue],
                                 !.ws = NoValue, !.message = NoValue] : q \in @}]
MoveIn(d) ==
  [d EXCEPT !.queue = {[q EXCEPT !.payload = [ws |-> q.ws, message |-> q.message],
                                 !.ws = NoValue, !.message = NoValue] : q \in @}]

\* bb6fb3a7a643 back.
WithoutNumbers(d) == [d EXCEPT !.messages = {[m EXCEPT !.seq = NoValue] : m \in @}]

\* 08894082221a back: the owner of a collection is the observer, that of a document the
\* observed peer.
JoinedName(row) ==
  IF row.observer = row.observed THEN GlobalName ELSE PairName(row.observer, row.observed)
JoinCollections(d) ==
  [d EXCEPT !.collections = {[c EXCEPT !.name = JoinedName(c), !.peer = c.observer,
                                       !.observer = NoValue, !.observed = NoValue] : c \in @}]
JoinDocuments(d) ==
  [d EXCEPT !.documents = {[o EXCEPT !.collection = JoinedName(o), !.peer = o.observed,
                                     !.observer = NoValue, !.observed = NoValue] : o \in @}]
JoinNames(d) == JoinDocuments(JoinCollections(d))
NamesAreUnique(d) ==
  \A b, c \in d.collections : <<b.ws, b.peer, b.name>> = <<c.ws, c.peer, c.name>> => b = c
DocumentsHaveCollections(d) ==
  \A o \in d.documents :
    \E c \in d.collections : c.name = o.collection /\ c.peer = o.peer /\ c.ws = o.ws

\* 88b0fb10906f back: the columns of a lease come back, task_type as in d429de0e5338.
DropKeys(d) == [d EXCEPT !.queue = {[q EXCEPT !.key = NoValue] : q \in @}]

\* The steps of d429de0e5338 back.  The user of a session is a member that is no agent, any of them.
UsersOf(d, s) ==
  {p \in d.peers : p.ws = s.ws /\ p.id # p.name
                   /\ [ws |-> s.ws, session |-> s.name, peer |-> p.name] \in d.members}
RestoreAppUserColumns(d, userOf) ==
  [d EXCEPT !.sessions = {[s EXCEPT !.user = userOf[s]] : s \in @}]

RestoreDocuments(d) ==
  [d EXCEPT !.documents = {[o EXCEPT !.peer = IdOf(d, o.ws, @), !.collection = Home(d, o).id] : o \in @}]

RestoreCollections(d) ==
  [d EXCEPT !.collections = {[c EXCEPT !.peer = IdOf(d, c.ws, @)] : c \in @}]

\* is_user compares the id of the user with the name of the author.
RestoreMessages(d) ==
  LET Named(n) == CHOOSE s \in d.sessions : s.name = n IN
  [d EXCEPT !.messages = {[m EXCEPT !.session = Named(@).id, !.author = IdOf(d, m.ws, @),
                                    !.isUser = Named(m.session).user = m.author,
                                    !.counted = FALSE] : m \in @}]

RestoreSessions(d) == [d EXCEPT !.sessions = {[s EXCEPT !.name = NoValue] : s \in @}]

\* The table session_peers is dropped, the peers stay with the agents among them.
AbandonPeers(d, userOf) ==
  LET restored == RestoreCollections(RestoreDocuments(RestoreAppUserColumns(d, userOf))) IN
  RestoreSessions([RestoreMessages(restored) EXCEPT !.members = {}])

\* session_id is NOT NULL, and the subquery that finds it by the name of the session, in
\* whatever workspace, must find one.
SessionsAreFound(d) ==
  \A m \in d.messages :
    \E s \in d.sessions : \A t \in d.sessions : t.name = m.session <=> t = s
-----------------------------------------------------------------------------
Upgrade(r, d) == rev = r - 1 /\ ~falling /\ rev' = r /\ db' = d /\ UNCHANGED falling
Downgrade(r, d) == rev = r /\ rev' = r - 1 /\ db' = d /\ falling' = TRUE

Up ==
  \/ Upgrade(AppColumns, AddAppColumns(db))
  \/ /\ LeasesCanChange(db)
     /\ \E counted \in Backfilled(db.messages) : Upgrade(Peers, AdoptPeers(db, counted))
  \/ Upgrade(SessionRequired, RequireSession(db))
  \/ Upgrade(WorkUnits, KeyRows(db))
  \/ Upgrade(DocumentSession, db) /\ DocumentsHaveSessions(db)
  \/ Upgrade(Observers, SplitNames(db)) /\ PairsAreUnique(db') /\ PairsArePeers(db')
  \/ Upgrade(Sequence, Numbered(db))
  \/ Upgrade(Aligned, db) /\ LeasesHaveKeys(db)
  \/ Upgrade(QueueColumns, MoveOut(db))
  \/ Upgrade(Levels, ReadLevels(db)) /\ LevelsAreKnown(db')
  \/ Upgrade(OneDream, db) /\ DreamsAreSingle(db)
  \/ \E r \in {AnyLevel, SoftDelete, Latest} : Upgrade(r, db)

Down ==
  \/ Downgrade(Latest, PlaceDocuments(db))
  \/ Downgrade(SoftDelete, DropSystemRows(db))
  \/ Downgrade(AnyLevel, OldLevels(db))
  \/ Downgrade(QueueColumns, MoveIn(db))
  \/ Downgrade(Sequence, WithoutNumbers(db))
  \/ Downgrade(Observers, JoinNames(db)) /\ NamesAreUnique(db') /\ DocumentsHaveCollections(db')
  \/ LeasesCanChange(db) /\ Downgrade(WorkUnits, DropKeys(db))
  \/ /\ rev = Peers /\ SessionsAreFound(db)
     /\ \E userOf \in [db.sessions -> {p.id : p \in db.peers}] :
          /\ \A s \in db.sessions : userOf[s] \in {p.id : p \in UsersOf(db, s)}
          /\ Downgrade(Peers, AbandonPeers(db, userOf))
  \/ \E r \in {OneDream, Levels, Aligned, DocumentSession, SessionRequired} : Downgrade(r, db)

Migrate == (Up \/ Down) /\ UNCHANGED <<writes, said, noted, promised>>
-----------------------------------------------------------------------------
(* The application of the time, from the peers on. *)

MayWrite == rev >= Peers /\ ~falling /\ writes < MaxWrites
Write(d) == MayWrite /\ db' = d /\ writes' = writes + 1 /\ UNCHANGED <<rev, falling>>

\* The note of a document that was there before.
Unknown == [observer |-> NoValue, observed |-> NoValue, name |-> NoValue]

Place(w, n) == IF n = NoValue THEN {} ELSE {<<w, n>>}

\* A message in a session, one of its own too, or in none while that is allowed.
PostMessage(w, p, n) ==
  /\ IsPeer(db, w, p) /\ (n = NoValue => rev < SessionRequired)
  /\ LET number == 1 + Cardinality({m \in db.messages : m.ws = w /\ m.session = n})
         message == [id |-> Len(said) + 1, ws |-> w, session |-> n, author |-> p,
                     isUser |-> NoValue, counted |-> TRUE,
                     seq |-> IF rev < Sequence THEN NoValue ELSE number] IN
       Write([db EXCEPT !.sessions = WithSessions(db, Place(w, n)),
                        !.members = @ \union {[ws |-> w, session |-> n, peer |-> p] : x \in Place(w, n)},
                        !.messages = @ \union {message}])
  /\ said' = Append(said, [ws |-> w, author |-> p, session |-> n])
  /\ UNCHANGED <<noted, promised>>

\* A document, in a session or in none while that is allowed, in the collection of its
\* pair, which is made if need be: by its name, in either order, or by its columns.
Collection(w, p, q, name) ==
  IF rev < Observers
  THEN [id |-> <<w, p, name>>, ws |-> w, name |-> name, peer |-> p,
        observer |-> NoValue, observed |-> NoValue]
  ELSE [id |-> <<w, p, q>>, ws |-> w, name |-> NoValue, peer |-> NoValue,
        observer |-> p, observed |-> q]
SameCollection(b, c) ==
  <<b.ws, b.name, b.peer, b.observer, b.observed>> = <<c.ws, c.name, c.peer, c.observer, c.observed>>

Observe(w, p, q, name, n, level) ==
  /\ {p, q} \subseteq {x.name : x \in {y \in db.peers : y.ws = w}}
  /\ IF p = q THEN name = GlobalName ELSE name \in {PairName(p, q), PairName(q, p)}
  /\ IF n = NoValue THEN rev < Observers \/ rev = Latest ELSE HasSession(db, w, n)
  /\ level \in OldLevel \/ rev >= AnyLevel
  /\ LET c == Collection(w, p, q, name)
         document == [id |-> Len(noted) + 1, ws |-> w, session |-> n, collection |-> c.name,
                      peer |-> c.peer, observer |-> c.observer, observed |-> c.observed,
                      level |-> level, deleted |-> FALSE] IN
       Write([db EXCEPT
         !.collections = @ \union {b \in {c} : ~\E x \in db.collections : SameCollection(x, b)},
         !.documents = @ \union {document}])
  /\ noted' = Append(noted, [observer |-> p, observed |-> q,
                             name |-> Collection(w, p, q, name).name])
  /\ UNCHANGED <<said, promised>>

\* A row of the queue: for a message, a dream, or a task of the system.
Enqueue(task, w, message) ==
  /\ CASE task = "representation" -> \E m \in db.messages : m.id = message /\ m.ws = w
       [] task = "dream"          -> message = NoValue /\ w # NoValue /\ rev >= Levels
       [] task = "reconciler"     -> message = NoValue /\ w = NoValue /\ rev >= SoftDelete
  /\ task = "dream" /\ rev >= OneDream => PendingDreams(db, KeyOf(task, w)) = {}
  /\ LET place == [ws |-> w, message |-> message]
         nowhere == [ws |-> NoValue, message |-> NoValue]
         row == [id |-> Len(promised) + 1, task |-> task,
                 key |-> IF rev < WorkUnits THEN NoValue ELSE KeyOf(task, w),
                 ws |-> IF rev < QueueColumns THEN NoValue ELSE w,
                 message |-> IF rev < QueueColumns THEN NoValue ELSE message,
                 payload |-> IF rev < QueueColumns THEN place ELSE nowhere] IN
       Write([db EXCEPT !.queue = @ \union {row}])
  /\ promised' = Append(promised, [ws |-> w, message |-> message])
  /\ UNCHANGED <<said, noted>>

\* A worker leases a work unit; a document is marked as deleted.
Lease ==
  /\ \E q \in db.queue : Write([db EXCEPT !.leases = @ \union {KeyOf(q.task, q.ws)}])
  /\ UNCHANGED <<said, noted, promised>>
MarkDeleted ==
  /\ rev >= SoftDelete
  /\ \E o \in db.documents :
       ~o.deleted /\ Write([db EXCEPT !.documents = (@ \ {o}) \union {[o EXCEPT !.deleted = TRUE]}])
  /\ UNCHANGED <<said, noted, promised>>

Application ==
  \/ \E w \in Workspace, p \in Peer :
       \/ \E n \in Peer \union {NoValue} \union {s.name : s \in db.sessions} : PostMessage(w, p, n)
       \/ \E q \in Peer, n \in {NoValue} \union {s.name : s \in db.sessions} :
            \E name \in {GlobalName, PairName(p, q), PairName(q, p)}, level \in {"explicit", "inductive"} :
              Observe(w, p, q, name, n, level)
  \/ \E task \in {"representation", "dream", "reconciler"} :
       \E w \in Workspace \union {NoValue}, m \in {NoValue} \union 1..Len(said) : Enqueue(task, w, m)
  \/ Lease \/ MarkDeleted

Init ==
  /\ rev = Base /\ falling = FALSE /\ writes = 0
  /\ db \in Initial
  /\ said = [i \in {m.id : m \in db.messages} |->
       LET m == Row(db.messages, i)
           user == Row(db.peers, Row(db.sessions, m.session).user) IN
       [ws |-> user.ws, session |-> m.session,
        author |-> IF m.isUser THEN user.name ELSE AgentOf[user.ws]]]
  /\ noted = [i \in {o.id : o \in db.documents} |-> Unknown]
  /\ promised = [i \in {q.id : q \in db.queue} |-> [ws |-> NoValue, message |-> NoValue]]

Next == Migrate \/ Application
Spec == Init /\ [][Next]_vars
-----------------------------------------------------------------------------
(* Properties. *)

\* The numbers in a session are those of its messages in the order of their ids, however
\* many were given by the migration and how many by the application.
NumbersFollowIds ==
  \A m \in db.messages :
    rev >= Sequence =>
      m.seq = Cardinality({n \in db.messages : n.ws = m.ws /\ n.session = m.session /\ n.id <= m.id})

\* The tokens of all messages are counted as long as one page of the backfill held them
\* ("Backfill token counts for existing messages using batch updates",
\* d429de0e5338_adopt_peer_paradigm.py:1162, without this condition).
TokensAreCounted ==
  rev >= Peers /\ ~falling /\ Len(said) <= BatchSize => \A m \in db.messages : m.counted

\* Every message stays what it was: its author said it in its workspace and session,
\* through every migration in both directions.  One that had no session is in the session
\* named for its author once sessions are required.
InItsSession(m, name) ==
  IF rev < Peers THEN m.session \in {name, <<m.ws, name>>} ELSE m.session = name
MessagesKept ==
  /\ NumbersFollowIds /\ TokensAreCounted
  /\ {m.id : m \in db.messages} = DOMAIN said
  /\ \A m \in db.messages :
       LET was == said[m.id] IN
       /\ rev >= AppColumns => m.ws = was.ws
       /\ rev >= Peers => m.author = was.author
       /\ rev < Peers /\ falling => NameOf(db, m.author) = was.author
       /\ was.session # NoValue => InItsSession(m, was.session)
       /\ was.session = NoValue /\ rev >= SessionRequired => InItsSession(m, was.author)

\* Names that are taken for those of other pairs.  Upwards: "global_representation" that is
\* the name of a pair, and a reversed name that begins like the observer's own names, as
\* b_a_b does for what b observes of b_a.  Downwards, where a document goes to the observed
\* peer: a name with which its own names begin.
LedAstray(note) ==
  /\ note.observer # note.observed
  /\ \/ note.name = GlobalName
     \/ /\ note.name = PairName(note.observed, note.observer)
        /\ note.name # PairName(note.observer, note.observed)
        /\ BeginsLike(note.name, note.observer)
JoinedAstray(note) ==
  LET name == PairName(note.observer, note.observed) IN
  /\ note.observer # note.observed
  /\ \/ name = GlobalName
     \/ SubSeq(name, 1, Len(note.observed) + 1) = note.observed \o <<Underscore>>
Excused(note) == LedAstray(note) \/ (falling /\ rev < Observers /\ JoinedAstray(note))

\* A document that was written for a pair of peers is a document of that pair: while
\* names of collections tell it and after, and back again as far as the rows allow to go.
\* Only the names above, which the migration cannot read, lose it.
PairOf(o) ==
  IF rev >= Observers THEN <<o.observer, o.observed>> ELSE <<o.peer, ObservedBy(Home(db, o))>>
DocumentsKeepTheirPair ==
  rev >= Peers =>
    \A i \in DOMAIN noted :
      noted[i] # Unknown /\ ~Excused(noted[i]) =>
        \E o \in db.documents : o.id = i /\ PairOf(o) = <<noted[i].observer, noted[i].observed>>

\* Work that was queued for a workspace stays queued, with its message: through the move
\* out of the payload and back into it.
WorkIsKept ==
  \A i \in DOMAIN promised :
    promised[i].ws # NoValue =>
      \E q \in db.queue :
        q.id = i /\ promised[i] = IF rev >= QueueColumns THEN [ws |-> q.ws, message |-> q.message]
                                  ELSE q.payload

=============================================================================
