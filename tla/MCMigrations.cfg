SPECIFICATION Spec
CONSTANTS
  w1 = w1
  w2 = w2
  a = a
  b = b
  nn = nn
  u1 = u1
  u2 = u2
  u3 = u3
  u4 = u4
  s1 = s1
  s2 = s2
  c1 = c1
  c2 = c2
  agent1 = agent1
  agent2 = agent2
  Workspace = {w1, w2}
  Letter = {a, b, nn, Underscore, agent1, agent2}
  Underscore = Underscore
  Peer <- MCPeers
  GlobalName <- MCGlobalName
  AgentOf <- MCAgents
  GlobalObservations = GlobalObservations
  Orphaned = Orphaned
  NoValue = NoValue
  BatchSize = 3
  Initial <- MCInitial
  MaxWrites = 2
INVARIANTS MessagesKept DocumentsKeepTheirPair WorkIsKept
CHECK_DEADLOCK FALSE
