----------------------------- MODULE SdkHandles ----------------------------
(***************************************************************************)
(* The objects a program holds: Honcho, Peer and Session of the Python SDK *)
(* (src/sdks/python/src/honcho), their asynchronous views (aio.py) and the *)
(* classes of the TypeScript SDK (src/sdks/typescript/src).  An object     *)
(* caches the metadata and the configuration of its record.  Each method   *)
(* is the sequence of its steps: checks of the arguments, the creation of  *)
(* the workspace, requests, and new objects.  A behaviour has programs     *)
(* that use one record, and the clone of a session.                        *)
(***************************************************************************)
EXTENDS Integers, Sequences, FiniteSetsExt

CONSTANTS
  Programs,
  Languages,   \* which SDK each uses, in each behaviour: "python", "aio", "typescript"
  Records,     \* kinds of record: "workspace", "peer", "session"
  MaxUses,     \* bound: calls of methods
  None         \* not cached, not given, or no such object

VARIABLES
  recordKind,  \* what the record of this behaviour is
  language,    \* a member of Languages
  record,      \* on the server: the record and the clone of a session
  ensured,     \* _workspace_ensured and _workspaceReady of each client
  object,      \* what the object each program has for each of them caches
  task,        \* the calls under way
  uses,
  intended,    \* history: the record as the programs' own updates and deletions left it
  overtaken    \* history: <<p, r>> when p wrote back values that were no longer r's

vars == <<recordKind, language, record, ensured, object, task, uses, intended, overtaken>>

Rec == {"original", "clone"}
Fields == {"metadata", "configuration"}
Task == {1, 2}
-----------------------------------------------------------------------------
(* Steps: their name, the kinds of record they are about and the fields. *)

Requests == {"ensure", "fetch", "put", "create", "creates", "echo", "list", "clone", "delete"}
StepNames == Requests \union {"check", "reads", "adopt", "bare"}

Step(name, kinds, fields) == [name |-> name, kinds |-> kinds, fields |-> fields]
Check == Step("check", {}, {})              \* pydantic or zod may refuse the arguments
Ensure == Step("ensure", {"workspace"}, {}) \* once per client
Reads == Step("reads", {}, {})              \* a request that leaves these records alone
Creates(kinds) == Step("creates", kinds, {})           \* creates them where missing
Fetch(kind, fields) == Step("fetch", {kind}, fields)   \* get-or-create; caches the fields
Put(kind, field) == Step("put", {kind}, {field})       \* update; caches what was given
Create(kind, fields) == Step("create", {kind}, fields) \* get-or-create with given values
Echo(kind) == Step("echo", {kind}, Fields)             \* ... with the last answer's values
List(kind) == Step("list", {kind}, {})
Clone == Step("clone", {"session"}, {})
Delete(kind) == Step("delete", {kind}, {})
Adopt(kind) == Step("adopt", {kind}, {})    \* a new object with the last answer's values
Bare(kind) == Step("bare", {kind}, {})      \* a new object without values

Given == (SUBSET Fields) \ {{}}
Methods(names, steps) == [m \in names |-> {steps}]
Runs(table) == UNION {table[m] : m \in DOMAIN table}
-----------------------------------------------------------------------------
(* The Python SDK. *)

\* get_metadata, set_metadata and refresh: Peer and Session ensure the workspace in
\* _get_http_client, Honcho does not.
MetadataConfigMixin(kind) ==
  LET client == IF kind = "workspace" THEN <<>> ELSE <<Ensure>> IN
  [get_metadata |-> {client \o <<Fetch(kind, Fields)>>},
   set_metadata |-> {<<Check>> \o client \o <<Put(kind, "metadata")>>},
   refresh |-> {client \o <<Fetch(kind, Fields)>>}]

HonchoConfiguration ==
  [get_configuration |-> {<<Fetch("workspace", Fields)>>},
   set_configuration |-> {<<Check, Put("workspace", "configuration")>>}]
PeerConfiguration ==
  [get_configuration |-> {<<Ensure, Fetch("peer", Fields)>>},
   set_configuration |-> {<<Check, Ensure, Put("peer", "configuration")>>}]
SessionConfiguration ==
  [get_configuration |-> {<<Ensure, Fetch("session", Fields)>>},
   set_configuration |-> {<<Check, Ensure, Put("session", "configuration")>>}]

\* The constructors ask the server when values are given.
PeerInit ==
  {<<Check, Bare("peer")>>}
    \union {<<Check, Ensure, Create("peer", fs), Adopt("peer")>> : fs \in Given}
SessionInit ==
  {<<Check, Bare("session")>>}
    \union {<<Check, Ensure, Create("session", fs), Adopt("session")>> : fs \in Given}

HonchoPeer == [peer |-> PeerInit]
HonchoSession == [session |-> SessionInit]
\* An item of a page becomes an object when it is consumed, with the values it was
\* listed with; the constructor sends them.
HonchoPeers == Methods({"peers"}, <<Ensure, List("peer"), Echo("peer"), Adopt("peer")>>)
HonchoSessions ==
  Methods({"sessions"}, <<Ensure, List("session"), Echo("session"), Adopt("session")>>)
HonchoWorkspaces ==
  [workspaces |-> {<<Reads>>}, delete_workspace |-> {<<Check, Delete("workspace")>>}]
HonchoQueries ==
  Methods({"search", "queue_status", "schedule_dream"}, <<Check, Ensure, Reads>>)

\* A stream sends its request when it is iterated over.
PeerChat ==
  [chat |-> {<<Check, Ensure, Creates({"peer"})>>},
   chat_stream |-> {<<Check, Ensure>>, <<Check, Ensure, Creates({"peer"})>>}]
PeerSessions ==
  [sessions |-> {<<Ensure, Reads>>, <<Ensure, Reads, Bare("session")>>},
   message |-> {<<Check>>}]
PeerCard ==
  [search |-> {<<Check, Ensure, Reads>>}, get_card |-> {<<Check, Ensure, Reads>>},
   set_card |-> {<<Check, Ensure, Creates({"peer"})>>}]
PeerContext == Methods({"representation", "context"}, <<Check, Ensure, Reads>>)
ConclusionReads == Methods({"list", "query"}, <<Ensure, Reads>>)
ConclusionWrites == Methods({"delete", "create", "representation"}, <<Ensure, Reads>>)

SessionPeers ==
  [add_peers |-> {<<Check, Ensure, Creates({"peer", "session"})>>},
   set_peers |-> {<<Check, Ensure, Creates({"peer"})>>},
   remove_peers |-> {<<Check, Ensure, Reads>>},
   peers |-> {<<Ensure, Reads>>, <<Ensure, Reads, Bare("peer")>>}]
SessionPeerConfiguration ==
  Methods({"get_peer_configuration", "set_peer_configuration"}, <<Ensure, Reads>>)
SessionMessages ==
  [add_messages |-> {<<Check, Ensure, Creates({"peer", "session"})>>},
   messages |-> {<<Check, Ensure, Reads>>}]
SessionLife ==
  [delete |-> {<<Ensure, Delete("session")>>},
   clone |-> {<<Check, Ensure, Clone, Echo("session"), Adopt("session")>>}]
SessionContext == Methods({"context"}, <<Check, Ensure, Check, Reads>>)
SessionSummaries ==
  [summaries |-> {<<Ensure, Reads>>}, search |-> {<<Check, Ensure, Reads>>}]
SessionUpload ==
  Methods({"upload_file"}, <<Check, Ensure, Check, Creates({"peer", "session"})>>)
SessionQueries ==
  Methods({"representation", "queue_status", "update_message"}, <<Check, Ensure, Reads>>)

Python ==
  UNION {Runs(MetadataConfigMixin(k)) : k \in {"workspace", "peer", "session"}}
    \union Runs(HonchoConfiguration) \union Runs(PeerConfiguration)
    \union Runs(SessionConfiguration) \union Runs(HonchoPeer) \union Runs(HonchoPeers)
    \union Runs(HonchoSession) \union Runs(HonchoSessions) \union Runs(HonchoWorkspaces)
    \union Runs(HonchoQueries) \union Runs(PeerChat) \union Runs(PeerSessions)
    \union Runs(PeerCard) \union Runs(PeerContext) \union Runs(ConclusionReads)
    \union Runs(ConclusionWrites) \union Runs(SessionPeers)
    \union Runs(SessionPeerConfiguration) \union Runs(SessionMessages)
    \union Runs(SessionLife) \union Runs(SessionContext) \union Runs(SessionSummaries)
    \union Runs(SessionUpload) \union Runs(SessionQueries)
-----------------------------------------------------------------------------
(* The asynchronous views, that share the objects.  A listing and a clone    *)
(* make their objects with the synchronous constructor.                      *)

\* No check, and the workspace is not ensured.
AsyncMetadataConfigMixin(kind) ==
  [get_metadata |-> {<<Fetch(kind, Fields)>>},
   set_metadata |-> {<<Put(kind, "metadata")>>},
   refresh |-> {<<Fetch(kind, Fields)>>}]
HonchoAioConfiguration ==
  [get_configuration |-> {<<Fetch("workspace", Fields)>>},
   set_configuration |-> {<<Put("workspace", "configuration")>>}]
PeerAioConfiguration ==
  [get_configuration |-> {<<Ensure, Fetch("peer", Fields)>>},
   set_configuration |-> {<<Put("peer", "configuration")>>}]
SessionAioConfiguration ==
  [get_configuration |-> {<<Ensure, Fetch("session", Fields)>>},
   set_configuration |-> {<<Put("session", "configuration")>>}]

\* With values, the answer to the first request is sent again by the constructor.
HonchoAioPeer ==
  [peer |-> {<<Check, Bare("peer")>>}
     \union {<<Ensure, Create("peer", fs), Echo("peer"), Adopt("peer")>> : fs \in Given}]
HonchoAioSession ==
  [session |-> {<<Check, Bare("session")>>}
     \union {<<Ensure, Create("session", fs), Echo("session"), Adopt("session")>> :
               fs \in Given}]
HonchoAioPeers == Methods({"peers"}, <<Ensure, List("peer"), Echo("peer"), Adopt("peer")>>)
HonchoAioSessions ==
  Methods({"sessions"}, <<Ensure, List("session"), Echo("session"), Adopt("session")>>)
HonchoAioWorkspaces ==
  [workspaces |-> {<<Reads>>}, delete_workspace |-> {<<Delete("workspace")>>}]
HonchoAioQueries ==
  [search |-> {<<Check, Ensure, Reads>>}, queue_status |-> {<<Ensure, Reads>>},
   schedule_dream |-> {<<Check, Ensure, Reads>>}]

PeerAioChat ==
  [chat |-> {<<Check, Ensure, Creates({"peer"})>>},
   chat_stream |-> {<<Check, Ensure>>, <<Check, Ensure, Creates({"peer"})>>},
   sessions |-> {<<Ensure, Reads>>, <<Ensure, Reads, Bare("session")>>}]
PeerAioQueries ==
  [search |-> {<<Check, Ensure, Reads>>}, get_card |-> {<<Check, Ensure, Reads>>},
   set_card |-> {<<Check, Ensure, Creates({"peer"})>>},
   representation |-> {<<Check, Ensure, Reads>>}, context |-> {<<Check, Ensure, Reads>>}]

SessionAioPeers ==
  [add_peers |-> {<<Ensure, Creates({"peer", "session"})>>},
   set_peers |-> {<<Ensure, Creates({"peer"})>>}, remove_peers |-> {<<Ensure, Reads>>},
   peers |-> {<<Ensure, Reads>>, <<Ensure, Reads, Bare("peer")>>},
   get_peer_configuration |-> {<<Ensure, Reads>>},
   set_peer_configuration |-> {<<Ensure, Reads>>}]
SessionAioMessages ==
  [add_messages |-> {<<Check, Ensure, Creates({"peer", "session"})>>},
   messages |-> {<<Ensure, Reads>>}]
SessionAioLife ==
  [delete |-> {<<Ensure, Delete("session")>>},
   clone |-> {<<Ensure, Clone, Echo("session"), Adopt("session")>>}]
SessionAioContext ==
  [context |-> {<<Check, Ensure, Check, Reads>>}, summaries |-> {<<Ensure, Reads>>}]
SessionAioQueries ==
  [search |-> {<<Check, Ensure, Reads>>},
   upload_file |-> {<<Check, Ensure, Check, Creates({"peer", "session"})>>},
   representation |-> {<<Check, Ensure, Reads>>}, queue_status |-> {<<Ensure, Reads>>},
   update_message |-> {<<Check, Ensure, Reads>>}]
ConclusionScopeAio ==
  Methods({"list", "query", "delete", "create", "representation"}, <<Ensure, Reads>>)

Aio ==
  UNION {Runs(AsyncMetadataConfigMixin(k)) : k \in {"workspace", "peer", "session"}}
    \union Runs(HonchoAioConfiguration) \union Runs(PeerAioConfiguration)
    \union Runs(SessionAioConfiguration) \union Runs(HonchoAioPeer)
    \union Runs(HonchoAioSession) \union Runs(HonchoAioPeers)
    \union Runs(HonchoAioSessions) \union Runs(HonchoAioWorkspaces)
    \union Runs(HonchoAioQueries) \union Runs(PeerAioChat) \union Runs(PeerAioQueries)
    \union Runs(SessionAioPeers) \union Runs(SessionAioMessages)
    \union Runs(SessionAioLife) \union Runs(SessionAioContext)
    \union Runs(SessionAioQueries) \union Runs(ConclusionScopeAio)
-----------------------------------------------------------------------------
(* The TypeScript SDK.  The client ensures the workspace before it parses    *)
(* the arguments; the requests of the other classes ensure it themselves.    *)

TsHonchoPeer ==
  [peer |-> {<<Ensure, Check, Bare("peer")>>}
     \union {<<Ensure, Check, Create("peer", fs), Adopt("peer")>> : fs \in Given}]
TsHonchoPeers == Methods({"peers"}, <<Ensure, Check, List("peer"), Adopt("peer")>>)
TsHonchoSession ==
  [session |-> {<<Ensure, Check, Bare("session")>>}
     \union {<<Ensure, Check, Create("session", fs), Adopt("session")>> : fs \in Given}]
TsHonchoSessions ==
  Methods({"sessions"}, <<Ensure, Check, List("session"), Adopt("session")>>)
TsHonchoFields ==
  [getMetadata |-> {<<Ensure, Fetch("workspace", {"metadata"})>>},
   setMetadata |-> {<<Ensure, Check, Put("workspace", "metadata")>>},
   getConfiguration |-> {<<Ensure, Fetch("workspace", {"configuration"})>>},
   setConfiguration |-> {<<Ensure, Check, Put("workspace", "configuration")>>},
   refresh |-> {<<Ensure, Fetch("workspace", Fields)>>}]
TsHonchoWorkspaces ==
  [workspaces |-> {<<Check, Reads>>}, deleteWorkspace |-> {<<Delete("workspace")>>}]
TsHonchoQueries ==
  Methods({"search", "queueStatus", "scheduleDream"}, <<Ensure, Check, Reads>>)

\* The private methods of the classes.
TsPeerRequest(step) == <<Ensure, step>>
TsSessionRequest(step) == <<Ensure, step>>
TsMessageRequest(step) == <<Ensure, step>>
TsConclusionRequest(step) == <<Ensure, step>>

TsPeerChat ==
  Methods({"chat", "chatStream"}, <<Check>> \o TsPeerRequest(Creates({"peer"})))
TsPeerSessions ==
  [sessions |-> {<<Check>> \o TsPeerRequest(Reads),
                 <<Check>> \o TsPeerRequest(Reads) \o <<Bare("session")>>},
   message |-> {<<Check>>}]
TsPeerFields ==
  [getMetadata |-> {TsPeerRequest(Fetch("peer", {"metadata"}))},
   setMetadata |-> {<<Check>> \o TsPeerRequest(Put("peer", "metadata"))},
   getConfiguration |-> {TsPeerRequest(Fetch("peer", {"configuration"}))},
   setConfiguration |-> {<<Check>> \o TsPeerRequest(Put("peer", "configuration"))},
   refresh |-> {TsPeerRequest(Fetch("peer", Fields))}]
TsPeerCard ==
  [search |-> {<<Check>> \o TsPeerRequest(Reads)},
   getCard |-> {<<Check>> \o TsPeerRequest(Reads)},
   setCard |-> {<<Check>> \o TsPeerRequest(Creates({"peer"}))}]
TsPeerContext ==
  [representation |-> {<<Check>> \o TsPeerRequest(Reads)}, context |-> {TsPeerRequest(Reads)}]
TsConclusions ==
  Methods({"list", "query", "delete", "create", "representation"}, TsConclusionRequest(Reads))

TsSessionPeers ==
  [addPeers |-> {<<Check>> \o TsSessionRequest(Creates({"peer", "session"}))},
   setPeers |-> {<<Check>> \o TsSessionRequest(Creates({"peer"}))},
   removePeers |-> {<<Check>> \o TsSessionRequest(Reads)},
   peers |-> {TsSessionRequest(Reads), TsSessionRequest(Reads) \o <<Bare("peer")>>},
   getPeerConfiguration |-> {TsSessionRequest(Reads)},
   setPeerConfiguration |-> {<<Check>> \o TsSessionRequest(Reads)}]
TsSessionMessages ==
  [addMessages |-> {<<Check>> \o TsMessageRequest(Creates({"peer", "session"}))},
   messages |-> {<<Check>> \o TsMessageRequest(Reads)}]
TsSessionFields ==
  [getMetadata |-> {TsSessionRequest(Fetch("session", {"metadata"}))},
   setMetadata |-> {<<Check>> \o TsSessionRequest(Put("session", "metadata"))},
   getConfiguration |-> {TsSessionRequest(Fetch("session", {"configuration"}))},
   setConfiguration |-> {<<Check>> \o TsSessionRequest(Put("session", "configuration"))},
   refresh |-> {TsSessionRequest(Fetch("session", Fields))}]
TsSessionLife ==
  [delete |-> {TsSessionRequest(Delete("session"))},
   clone |-> {TsSessionRequest(Clone) \o <<Adopt("session")>>}]
TsSessionContext ==
  [context |-> {<<Check>> \o TsSessionRequest(Reads)}, summaries |-> {TsSessionRequest(Reads)}]
TsSessionQueries ==
  Methods({"search", "queueStatus"}, <<Check>> \o TsSessionRequest(Reads))
TsSessionUpload ==
  Methods({"uploadFile"}, <<Check>> \o TsMessageRequest(Creates({"peer", "session"})))
TsSessionUpdates ==
  Methods({"representation", "updateMessage"}, <<Check>> \o TsMessageRequest(Reads))

TypeScript ==
  Runs(TsHonchoPeer) \union Runs(TsHonchoPeers) \union Runs(TsHonchoSession)
    \union Runs(TsHonchoSessions) \union Runs(TsHonchoFields)
    \union Runs(TsHonchoWorkspaces) \union Runs(TsHonchoQueries)
    \union Runs(TsPeerChat) \union Runs(TsPeerSessions) \union Runs(TsPeerFields)
    \union Runs(TsPeerCard) \union Runs(TsPeerContext) \union Runs(TsConclusions)
    \union Runs(TsSessionPeers) \union Runs(TsSessionMessages)
    \union Runs(TsSessionFields) \union Runs(TsSessionLife) \union Runs(TsSessionContext)
    \union Runs(TsSessionQueries) \union Runs(TsSessionUpload)
    \union Runs(TsSessionUpdates)
-----------------------------------------------------------------------------
(* What of a run matters to the record of a behaviour. *)

Kind == {"workspace", "peer", "session"}
RunsOf == [python |-> Python, aio |-> Aio, typescript |-> TypeScript]

\* Requests about another kind of record create a workspace; a check or any other request
\* may only end the call, as may the request after it.
Relevant(k, s) ==
  IF k = "workspace" /\ s.name \in {"fetch", "put", "create", "creates", "echo"}
       /\ "workspace" \notin s.kinds
    THEN Creates({"workspace"}) ELSE s
Plan(k, run) ==
  SelectSeq([i \in DOMAIN run |-> Relevant(k, run[i])], LAMBDA s : k \in s.kinds)
Plans(k, sdk) == {Plan(k, run) : run \in RunsOf[sdk]} \ {<<>>}

\* What uses an answer comes right after the request that was answered.
Answers == {"list", "clone", "create"}
WellOrdered(plan) ==
  \A i \in DOMAIN plan :
    /\ plan[i].name = "echo" => i > 1 /\ plan[i-1].name \in Answers
    /\ plan[i].name = "adopt" => i > 1 /\ plan[i-1].name \in Answers \union {"echo"}
Echoes(plan) == \E i \in DOMAIN plan : plan[i].name = "echo"

\* What the tables above say of every plan: a fact about finitely many sequences.
PlansAssumption ==
  \A k \in Kind, sdk \in DOMAIN RunsOf : \A plan \in Plans(k, sdk) :
    /\ plan \in Seq([name : StepNames, kinds : SUBSET Kind, fields : SUBSET Fields])
    /\ WellOrdered(plan) /\ (Echoes(plan) => sdk # "typescript")

\* What the instances that use this module assume.
HandlesAssumption ==
  /\ Languages \subseteq [Programs -> DOMAIN RunsOf] /\ Records \subseteq Kind
  /\ MaxUses \in Nat /\ None \notin Nat /\ PlansAssumption
-----------------------------------------------------------------------------
(* Records and what the server does with a request. *)

\* Keys of a configuration: observe_me of a peer, two of the others'.
Key == IF recordKind = "peer" THEN {"k1"} ELSE {"k1", "k2"}
\* Metadata is the number of the use that wrote it, 0 for {}; so is each key.
Nothing == [f \in Fields |-> None]
Empty == [metadata |-> 0, configuration |-> [k \in Key |-> 0]]
Absent == [state |-> "absent", value |-> Empty]
NoRecords == [r \in Rec |-> Absent]

\* A peer's configuration is replaced, the others' are merged.
Configured(old, new) ==
  IF recordKind = "peer" THEN new ELSE [k \in Key |-> IF new[k] = 0 THEN old[k] ELSE new[k]]
Updated(value, body) ==
  [metadata |-> IF body.metadata = None THEN value.metadata ELSE body.metadata,
   configuration |->
     IF body.configuration = None THEN value.configuration
     ELSE Configured(value.configuration, body.configuration)]

\* What a get-or-create leaves.
GotOrCreated(rec, body) ==
  [state |-> IF rec.state = "leaving" THEN "leaving" ELSE "active",
   value |-> Updated(rec.value, body)]

\* mutant: the constructor sends the defaults for the configuration that was listed
BodyOfDefaults(s, t) ==
  CASE s.name = "echo" -> [t.answer EXCEPT !.configuration = [k \in Key |-> 0]]
    [] s.name \in {"put", "create"} ->
         [f \in Fields |-> IF f \in s.fields THEN t.given[f] ELSE None]
    [] OTHER -> Nothing
\* What a request sends.
BodyOf(s, t) ==
  CASE s.name = "echo" -> t.answer
    [] s.name \in {"put", "create"} ->
         [f \in Fields |-> IF f \in s.fields THEN t.given[f] ELSE None]
    [] OTHER -> Nothing
-----------------------------------------------------------------------------
(* The programs. *)

Idle == [todo |-> <<>>, on |-> "original", handled |-> FALSE, current |-> FALSE,
         raced |-> FALSE, given |-> Nothing, answer |-> Nothing, during |-> {}]

TypeOK ==
  /\ recordKind \in Records /\ language \in Languages
  /\ \A r \in Rec : record[r].state \in {"absent", "active", "inactive", "leaving"}
  /\ ensured \in [Programs -> {"no", "yes", "failed"}]
  /\ DOMAIN object = Programs /\ DOMAIN task = Programs
  /\ uses \in 0..MaxUses /\ overtaken \subseteq Programs \X Rec

Init ==
  /\ recordKind \in Records /\ language \in Languages
  /\ record \in {[NoRecords EXCEPT !["original"].state = state] : state \in {"absent", "active"}}
  /\ intended = record
  /\ ensured = [p \in Programs |-> "no"]
  /\ object = [p \in Programs |-> [r \in Rec |-> Nothing]]
  /\ task = [p \in Programs |-> [t \in Task |-> Idle]]
  /\ uses = 0 /\ overtaken = {}

\* A synchronous program makes one call at a time.
MayCall(p, t) ==
  /\ uses < MaxUses /\ t = Min({u \in Task : task[p][u] = Idle} \union {3})
  /\ language[p] = "python" => \A u \in Task : task[p][u] = Idle

\* Asynchronous calls of one program share its event loop, which a synchronous
\* constructor holds until its answer is there.
HoldsLoop(p, t) ==
  language[p] = "aio" /\ task[p][t].handled /\ Head(task[p][t].todo).name = "echo"
MayRun(p, t) == task[p][t] # Idle /\ \A u \in Task \ {t} : ~HoldsLoop(p, u)

Writes(plan, f) ==
  \E i \in DOMAIN plan : plan[i].name \in {"put", "create"} /\ f \in plan[i].fields

Call(p, t, r) ==
  /\ MayCall(p, t) /\ uses' = uses + 1
  /\ r = "clone" => record[r] # Absent
  /\ \E plan \in Plans(recordKind, language[p]) :
       \E keys \in (IF Writes(plan, "configuration") THEN (SUBSET Key) \ {{}} ELSE {{}}) :
         LET given == [metadata |-> uses + 1,
                       configuration |-> [k \in Key |-> IF k \in keys THEN uses + 1 ELSE 0]]
         IN task' = [task EXCEPT ![p][t] =
                      [Idle EXCEPT !.todo = plan, !.on = r, !.current = TRUE,
                                   !.given = [f \in Fields |->
                                                IF Writes(plan, f) THEN given[f] ELSE None],
                                   !.during = {record[r].value}]]
  /\ UNCHANGED <<recordKind, language, record, ensured, object, intended, overtaken>>

\* The call goes on after its first step, or returns.
Onward(tk) ==
  IF Len(tk.todo) = 1 THEN Idle
  ELSE [tk EXCEPT !.todo = Tail(@), !.handled = FALSE]

\* The workspace is ensured already.
Pass(p, t) ==
  /\ MayRun(p, t) /\ ~task[p][t].handled
  /\ Head(task[p][t].todo) = Ensure /\ ensured[p] = "yes"
  /\ task' = [task EXCEPT ![p][t] = Onward(@)]
  /\ UNCHANGED <<recordKind, language, record, ensured, object, uses, intended, overtaken>>

\* Who is inside a call that has read r and may write it back has been overtaken by any
\* other change of r; and each call notes the values r has had since it began.
Noted(tk, r, new) ==
  IF tk = Idle \/ tk.on # r THEN tk
  ELSE [tk EXCEPT !.raced = @ \/ new # record[r], !.during = @ \union {new.value}]
NotedBy(p, t, r, new, own) ==
  [q \in Programs |-> [u \in Task |->
     IF q = p /\ u = t THEN own ELSE Noted(task[q][u], r, new)]]

\* The server handles a request that it can answer.
HandleUpdate(p, t) ==
  LET s == Head(task[p][t].todo)
      r == task[p][t].on
      body == BodyOf(s, task[p][t])
      new == GotOrCreated(record[r], body)
  IN /\ \/ s.name \in {"fetch", "put", "create", "creates", "echo"}
        \/ s = Ensure /\ ensured[p] = "no"
     /\ record[r].state # "inactive"
     /\ record' = [record EXCEPT ![r] = new]
     /\ intended' = [intended EXCEPT ![r] =
                       IF s.name = "echo" THEN @ ELSE GotOrCreated(@, body)]
     /\ overtaken' = IF s.name = "echo" /\ task[p][t].raced
                       THEN overtaken \union {<<p, r>>} ELSE overtaken
     /\ task' = NotedBy(p, t, r, new,
                  [task[p][t] EXCEPT !.handled = TRUE, !.raced = FALSE, !.answer = new.value,
                                     !.during = @ \union {new.value}])
     /\ UNCHANGED <<recordKind, language, ensured, object, uses>>

\* A session is copied; it is no longer there when its deletion was requested.
HandleClone(p, t) ==
  LET r == task[p][t].on IN
  /\ Head(task[p][t].todo) = Clone /\ r = "original"
  /\ record[r].state = "active" /\ record["clone"] = Absent
  /\ record' = [record EXCEPT !["clone"] = record[r]]
  /\ intended' = [intended EXCEPT !["clone"] = record[r]]
  /\ task' = NotedBy(p, t, "clone", record[r],
                [task[p][t] EXCEPT !.handled = TRUE, !.raced = FALSE, !.on = "clone",
                                   !.current = TRUE, !.answer = record[r].value,
                                   !.during = {record[r].value}])
  /\ UNCHANGED <<recordKind, language, ensured, object, uses, overtaken>>

\* A deletion is accepted; a session is inactive until it is carried out.
HandleDelete(p, t) ==
  LET r == task[p][t].on
      gone == IF recordKind = "session" THEN "inactive" ELSE "leaving"
  IN /\ Head(task[p][t].todo).name = "delete" /\ record[r].state = "active"
     /\ record' = [record EXCEPT ![r].state = gone]
     /\ intended' = [intended EXCEPT ![r].state = gone]
     /\ task' = NotedBy(p, t, r, record'[r], [task[p][t] EXCEPT !.handled = TRUE])
     /\ UNCHANGED <<recordKind, language, ensured, object, uses, overtaken>>

\* A listing has what there is and is not being deleted.
HandleList(p, t) ==
  LET r == task[p][t].on IN
  /\ Head(task[p][t].todo).name = "list" /\ record[r].state = "active"
  /\ task' = [task EXCEPT ![p][t].handled = TRUE, ![p][t].raced = FALSE,
                          ![p][t].answer = record[r].value]
  /\ UNCHANGED <<recordKind, language, record, ensured, object, uses, intended, overtaken>>

Handle(p, t) ==
  /\ MayRun(p, t) /\ ~task[p][t].handled
  /\ HandleUpdate(p, t) \/ HandleClone(p, t) \/ HandleDelete(p, t) \/ HandleList(p, t)

\* The server's deletion task.
Purge(r) ==
  /\ record[r].state \in {"inactive", "leaving"}
  /\ record' = [record EXCEPT ![r] = Absent]
  /\ intended' = [intended EXCEPT ![r] = Absent]
  /\ task' = [q \in Programs |-> [u \in Task |-> Noted(task[q][u], r, Absent)]]
  /\ UNCHANGED <<recordKind, language, ensured, object, uses, overtaken>>

\* What an object caches once a request is answered.
Cached(cache, tk) ==
  LET s == Head(tk.todo) IN
  [f \in Fields |-> IF f \notin s.fields THEN cache[f]
                    ELSE CASE s.name = "put" -> tk.given[f]
                           [] s.name = "fetch" -> tk.answer[f]
                           [] OTHER -> cache[f]]

Answer(p, t) ==
  LET tk == task[p][t] IN
  /\ MayRun(p, t) /\ tk.handled
  /\ task' = [task EXCEPT ![p][t] = Onward(@)]
  /\ object' = IF tk.current THEN [object EXCEPT ![p][tk.on] = Cached(@, tk)] ELSE object
  /\ ensured' = IF Head(tk.todo) = Ensure THEN [ensured EXCEPT ![p] = "yes"] ELSE ensured
  /\ UNCHANGED <<recordKind, language, record, uses, intended, overtaken>>

\* The program goes on with a new object; calls under way keep the one they were made on.
NewObject(p, t) ==
  LET tk == task[p][t] IN
  /\ MayRun(p, t) /\ Head(tk.todo).name \in {"adopt", "bare"}
  /\ object' = [object EXCEPT ![p][tk.on] =
                  IF Head(tk.todo).name = "adopt" THEN tk.answer ELSE Nothing]
  /\ task' = [task EXCEPT ![p] = [u \in Task |->
                IF u = t THEN Onward(tk)
                ELSE IF @[u].on = tk.on /\ @[u] # Idle THEN [@[u] EXCEPT !.current = FALSE] ELSE @[u]]]
  /\ UNCHANGED <<recordKind, language, record, ensured, uses, intended, overtaken>>

\* mutant: what is to be set is cached before the request
CachedInAdvance(cache, tk) ==
  [f \in Fields |-> IF Head(tk.todo).name = "put" /\ f \in Head(tk.todo).fields
                    THEN tk.given[f] ELSE cache[f]]
\* A call that raises has cached nothing.
CachedOnError(cache, tk) == cache

\* Arguments are refused, or a request fails before or after it was handled.  The
\* TypeScript client keeps the promise of the workspace, also when it was rejected.
Raise(p, t) ==
  LET tk == task[p][t] IN
  /\ MayRun(p, t) /\ Head(tk.todo).name \in Requests
  /\ task' = [task EXCEPT ![p][t] = Idle]
  /\ object' = IF tk.current THEN [object EXCEPT ![p][tk.on] = CachedOnError(@, tk)] ELSE object
  /\ ensured' = IF Head(tk.todo) = Ensure /\ language[p] = "typescript" /\ ensured[p] = "no"
                THEN [ensured EXCEPT ![p] = "failed"] ELSE ensured
  /\ UNCHANGED <<recordKind, language, record, uses, intended, overtaken>>

Next ==
  \/ \E p \in Programs, t \in Task :
       \/ \E r \in Rec : Call(p, t, r)
       \/ Pass(p, t) \/ Handle(p, t) \/ Answer(p, t) \/ NewObject(p, t) \/ Raise(p, t)
  \/ \E r \in Rec : Purge(r)

Spec == Init /\ [][Next]_vars
-----------------------------------------------------------------------------
(* Properties. *)

IsPartOf(cache, value) ==
  /\ cache.metadata \in {None, value.metadata}
  /\ cache.configuration = None \/
       \A k \in DOMAIN cache.configuration :
         cache.configuration[k] \in {0, value.configuration[k]}

\* What a call puts into the cache of an object was the server's at some moment of that
\* call ("update the cache", mixins.py:80): of a configuration at least the part that was given.
CachesWereTrue ==
  [][\A p \in Programs, r \in Rec :
       object'[p][r] # object[p][r] =>
         \E t \in Task : LET old == object[p][r]
                              new == object'[p][r]
                              fresh == [f \in Fields |-> IF new[f] = old[f] THEN None ELSE new[f]]
                          IN \E value \in task[p][t].during : IsPartOf(fresh, value)]_vars

\* Whatever the programs do at the same time, a record is what their updates and their
\* deletions have made of it, except after a Python program iterated over a listing, or
\* used the answer of a clone or of an asynchronous get-or-create: its constructor sends
\* what it was told, and overwrites what another call wrote meanwhile, or brings back a
\* session that was deleted.
UpdatesSurvive ==
  \A r \in Rec :
    (record[r] # intended[r]) =>
      \E p \in Programs : language[p] # "typescript" /\ <<p, r>> \in overtaken
=============================================================================
