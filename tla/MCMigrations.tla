---------------------------- MODULE MCMigrations ----------------------------
(* Three users of one application, of whom the second and the third have    *)
(* names with the first in them, a collection with documents, one without    *)
(* whose name two pairs share, a user of another application with the name   *)
(* of the first, three messages before the peers.                            *)
EXTENDS Migrations, TLC

CONSTANTS w1, w2, u1, u2, u3, u4, s1, s2, c1, c2, a, b, nn, agent1, agent2

MCAgents == w1 :> <<agent1>> @@ w2 :> <<agent2>>
MCGlobalName == <<nn, Underscore, nn>>
PeerB == <<b>>
PeerBA == <<b, Underscore, a>>
PeerAB == <<a, Underscore, b>>
MCPeers == {PeerB, PeerBA, PeerAB}

\* Of a_b: a name that LIKE takes for no pair, and one it takes for that with a nameless peer.
MCNames == {<<nn>>, <<a, nn, b, nn>>}

User(i, name, w) == [id |-> i, name |-> name, ws |-> w]
OldSession(i, u) == [id |-> i, name |-> NoValue, ws |-> NoValue, user |-> u]
OldMessage(i, s, isUser) ==
  [id |-> i, ws |-> NoValue, session |-> s, author |-> NoValue, isUser |-> isUser,
   counted |-> FALSE, seq |-> NoValue]
OldCollection(i, u, name) ==
  [id |-> i, ws |-> NoValue, name |-> name, peer |-> u,
   observer |-> NoValue, observed |-> NoValue]
OldDocument(i, c, level) ==
  [id |-> i, ws |-> NoValue, session |-> NoValue, collection |-> c, peer |-> NoValue,
   observer |-> NoValue, observed |-> NoValue, level |-> level, deleted |-> FALSE]
OldRow(i) ==
  [id |-> i, task |-> "representation", key |-> NoValue, ws |-> NoValue, message |-> NoValue,
   payload |-> [ws |-> NoValue, message |-> NoValue]]

MCInitial ==
  {[peers |-> {User(u1, PeerB, w1), User(u2, PeerBA, w1), User(u4, PeerAB, w1), User(u3, PeerB, w2)},
    sessions |-> {OldSession(s1, u1), OldSession(s2, u3)},
    members |-> {},
    messages |-> {OldMessage(1, s1, TRUE), OldMessage(2, s1, FALSE), OldMessage(3, s2, TRUE)},
    collections |-> {OldCollection(c1, u4, name), OldCollection(c2, u1, <<b, Underscore, a, Underscore, b>>)},
    documents |-> {OldDocument(1, c1, NoValue), OldDocument(2, c1, "deductive")},
    queue |-> {OldRow(1)}, leases |-> leases] :
     name \in MCNames, leases \in {{}, {<<"representation", w1>>}}}
=============================================================================
