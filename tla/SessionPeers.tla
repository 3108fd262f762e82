---------------------------- MODULE SessionPeers ----------------------------
(***************************************************************************)
(* The members of one session (src/src/crud/session.py, the table          *)
(* session_peers): peers are added, replaced, removed, configured and      *)
(* copied into a clone by requests that count the observers in one         *)
(* statement of their transaction and write in another (READ COMMITTED).   *)
(* Of a configuration only observe_others is modelled; null counts as      *)
(* FALSE.                                                                  *)
(***************************************************************************)
EXTENDS Integers, FiniteSets

CONSTANTS
  Peer,
  Request,    \* API requests under way
  Limit,      \* SESSION_OBSERVERS_LIMIT
  MaxOps      \* bound: requests

Absent == [row |-> "none", others |-> FALSE]
Member == [row : {"none", "left", "active"}, others : BOOLEAN]

VARIABLES
  member,     \* [Peer -> its row of session_peers, as committed]
  clone,      \* the same of the last clone
  written,    \* the session has messages
  proc,       \* [Request -> what it was asked for, where it stands, what it has read]
  ops,        \* requests so far
  raced       \* history: the requests since whose count somebody else has written

vars == <<member, clone, written, proc, ops, raced>>

Kind == {"none", "add", "post", "set", "configure"}
Step == {"idle", "select", "clear", "count", "write"}
Resting == [pc |-> "idle", kind |-> "none",
            peers |-> {}, observers |-> {},   \* whom it names, and who of them shall observe
            saw |-> [x \in Peer |-> Absent],  \* the rows it has read
            cleared |-> {}]                   \* the rows it has set left_at of and locks

Doing == [pc : Step, kind : Kind, peers : SUBSET Peer, observers : SUBSET Peer,
          saw : [Peer -> Member], cleared : SUBSET Peer]

TypeOK ==
  /\ member \in [Peer -> Member] /\ clone \in [Peer -> Member]
  /\ written \in BOOLEAN /\ raced \subseteq Request /\ ops \in 0..MaxOps
  /\ proc \in [Request -> Doing]
  /\ \A p \in Request :
       /\ proc[p].observers \subseteq proc[p].peers
       /\ proc[p].kind = "configure" => \E x \in Peer : proc[p].peers = {x}

ActiveIn(m)  == {x \in Peer : m[x].row = "active"}
Observers(m) == {x \in ActiveIn(m) : m[x].others}

At(p, l) == proc[p].pc = l
Goto(p, l) == proc' = [proc EXCEPT ![p].pc = l]
Finish(p) == proc' = [proc EXCEPT ![p] = Resting]
\* Everybody else may have counted what is no longer so.
Writes(p) == raced' = Request \ {p}
\* Nobody else's transaction holds the row locks of these peers.
Unlocked(p, peers) == \A q \in Request \ {p} : peers \cap proc[q].cleared = {}

Init ==
  /\ member = [x \in Peer |-> Absent] /\ clone = member
  /\ written = FALSE /\ ops = 0 /\ raced = {}
  /\ proc = [p \in Request |-> Resting]
-----------------------------------------------------------------------------
Begin(p, kind, peers, observers, step) ==
  /\ At(p, "idle") /\ ops < MaxOps
  /\ ops' = ops + 1
  /\ proc' = [proc EXCEPT ![p] = [Resting EXCEPT !.pc = step, !.kind = kind,
                                    !.peers = peers, !.observers = observers]]
  /\ UNCHANGED <<member, clone, written, raced>>

\* Without peers get_or_create_session does not touch the members.
BeginAdd(p, peers, observers) == peers # {} /\ Begin(p, "add", peers, observers, "count")

\* create_messages adds the senders with a default configuration.
BeginPost(p, senders) == senders # {} /\ Begin(p, "post", senders, {}, "count")

\* set_peers_for_session rejects a list that is too long by itself.
BeginSet(p, peers, observers) ==
  Cardinality(observers) <= Limit /\ Begin(p, "set", peers, observers, "select")

BeginConfigure(p, x, observers) == Begin(p, "configure", {x}, observers, "select")
-----------------------------------------------------------------------------
(* set_peers_for_session: all active rows are ended before the new ones are added. *)

\* The statement works on the rows that were active when it began...
SelectActive(p) ==
  /\ At(p, "select") /\ proc[p].kind = "set"
  /\ proc' = [proc EXCEPT ![p].pc = "clear", ![p].saw = member]
  /\ UNCHANGED <<member, clone, written, ops, raced>>

\* ... and still are when their locks are free.
Clear(p) ==
  /\ At(p, "clear")
  /\ Unlocked(p, ActiveIn(proc[p].saw))
  /\ proc' = [proc EXCEPT ![p].pc = "count",
                          ![p].cleared = ActiveIn(proc[p].saw) \cap ActiveIn(member)]
  /\ UNCHANGED <<member, clone, written, ops, raced>>
-----------------------------------------------------------------------------
(* _get_or_add_peers_to_session. *)

\* The observers that its transaction sees and that it does not name.
Remaining(p) == Observers(member) \ (proc[p].peers \union proc[p].cleared)

\* Only new observers make it count; too many and everything is rolled back.
Count(p) ==
  /\ At(p, "count") /\ proc[p].kind # "configure"
  /\ IF proc[p].observers # {}
        /\ Cardinality(Remaining(p)) + Cardinality(proc[p].observers) > Limit
     THEN Finish(p)
     ELSE Goto(p, "write")
  /\ raced' = raced \ {p}
  /\ UNCHANGED <<member, clone, written, ops>>

\* INSERT ... ON CONFLICT DO UPDATE: who is active keeps the configuration of before.
Keeps(p, x) == member[x].row = "active" /\ x \notin proc[p].cleared
Upserted(p) == [x \in Peer |->
  IF x \in proc[p].peers
  THEN [row |-> "active",
        others |-> IF Keeps(p, x) THEN member[x].others ELSE x \in proc[p].observers]
  ELSE IF x \in proc[p].cleared THEN [member[x] EXCEPT !.row = "left"] ELSE member[x]]

\* The observers among those it names whom the count took for none.
Overlooked(p) == {x \in proc[p].peers \ proc[p].observers : Keeps(p, x) /\ member[x].others}

Upsert(p) ==
  /\ At(p, "write") /\ proc[p].kind # "configure"
  /\ Unlocked(p, proc[p].peers)
  /\ member' = Upserted(p)
  /\ written' = (written \/ proc[p].kind = "post")
  /\ Writes(p)
  /\ Finish(p)
  /\ UNCHANGED <<clone, ops>>
-----------------------------------------------------------------------------
(* set_peer_config of one peer, in the session or not. *)

Asks(p) == CHOOSE x \in Peer : proc[p].peers = {x}

\* Who observes already, be it before it left, needs no count.
ReadMember(p) ==
  /\ At(p, "select") /\ proc[p].kind = "configure"
  /\ proc' = [proc EXCEPT
       ![p].saw = member,
       ![p].pc = IF proc[p].observers # {} /\ ~member[Asks(p)].others THEN "count" ELSE "write"]
  /\ raced' = raced \ {p}
  /\ UNCHANGED <<member, clone, written, ops>>

CountOne(p) ==
  /\ At(p, "count") /\ proc[p].kind = "configure"
  /\ IF Cardinality(Observers(member) \ proc[p].peers) + 1 > Limit
     THEN Finish(p)
     ELSE Goto(p, "write")
  /\ UNCHANGED <<member, clone, written, ops, raced>>

\* The whole configuration that was read is written back, with the change in it (which
\* may only be one of observe_me).  The row of a peer that has left stays that way.
WriteMember(p, others) ==
  LET x == Asks(p) IN
  /\ At(p, "write") /\ proc[p].kind = "configure"
  /\ others \in {proc[p].saw[x].others, proc[p].observers # {}}
  /\ proc[p].observers # {} => others
  /\ Unlocked(p, {x})
  /\ IF proc[p].saw[x].row # "none"
     THEN member' = [member EXCEPT ![x].others = others]
     ELSE IF member[x].row = "none"
     THEN member' = [member EXCEPT ![x] = [row |-> "active", others |-> others]]
     ELSE UNCHANGED member                 \* IntegrityError
  /\ Writes(p) /\ Finish(p)
  /\ UNCHANGED <<clone, written, ops>>
-----------------------------------------------------------------------------
(* The others. *)

\* A wait for a row lock ends in a deadlock or a timeout: the transaction is undone.
Abort(p) ==
  /\ \/ At(p, "clear") /\ ~Unlocked(p, ActiveIn(proc[p].saw))
     \/ At(p, "write") /\ ~Unlocked(p, proc[p].peers)
  /\ Finish(p)
  /\ UNCHANGED <<member, clone, written, ops, raced>>

\* remove_peers_from_session, in one statement.
Remove(p, peers) ==
  /\ At(p, "idle") /\ ops < MaxOps /\ Unlocked(p, peers)
  /\ ops' = ops + 1
  /\ member' = [x \in Peer |-> IF x \in peers \cap ActiveIn(member)
                               THEN [member[x] EXCEPT !.row = "left"] ELSE member[x]]
  /\ Writes(p)
  /\ UNCHANGED <<clone, written, proc>>

\* clone_session copies every row without its left_at; of a session without messages
\* it returns a copy that is never committed.
Clone(p) ==
  /\ At(p, "idle") /\ ops < MaxOps
  /\ written
  /\ ops' = ops + 1
  /\ clone' = [x \in Peer |-> IF member[x].row = "none" THEN Absent
                              ELSE [member[x] EXCEPT !.row = "active"]]
  /\ UNCHANGED <<member, written, proc, raced>>

Next == \E p \in Request :
  \/ \E peers \in SUBSET Peer :
       \/ BeginPost(p, peers) \/ Remove(p, peers)
       \/ \E observers \in SUBSET peers :
            BeginAdd(p, peers, observers) \/ BeginSet(p, peers, observers)
  \/ \E x \in Peer, observers \in SUBSET Peer :
       observers \subseteq {x} /\ BeginConfigure(p, x, observers)
  \/ SelectActive(p) \/ Clear(p) \/ Count(p) \/ Upsert(p)
  \/ ReadMember(p) \/ CountOne(p) \/ \E others \in BOOLEAN : WriteMember(p, others)
  \/ Abort(p) \/ Clone(p)

Spec == Init /\ [][Next]_vars
-----------------------------------------------------------------------------
Within(m) == Cardinality(Observers(m)) <= Limit

\* "Maximum number of observers per session" (docs/v3/contributing/configuration.mdx:128),
\* whatever sequence of requests has filled it, in a clone as well.
ObserverLimit == Within(member) /\ Within(clone)

\* A request that adds observers leaves no more than the limit, but for the active observers
\* that it names as non-observers (the upsert keeps the flag that its count did not see), if
\* nobody has written since it counted.  This is so whatever was there before, and says
\* nothing of a clone, which revives the observers who had left.
CountedLimit ==
  [][\A p \in Request \ raced :
       proc'[p] # proc[p] /\ Observers(member') \ Observers(member) # {}
         => Cardinality(Observers(member') \ Overlooked(p)) <= Limit]_vars
=============================================================================
