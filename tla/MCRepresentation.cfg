SPECIFICATION BothSpec
CONSTANTS
  alice = alice
  bob = bob
  plain = plain
  custom = custom
  Peer = {alice, bob}
  Observed = alice
  Config = {plain, custom}
  TokenCount = {1, 3}
  BatchMaxTokens = 3
  MaxMessages = 3
  w1 = w1
  w2 = w2
  p1 = p1
  p2 = p2
  short = short
  long = long
  other = other
  Writer = {w1, w2}
  Home = {p1, p2}
  Staffs <- MCStaffs
  Content = {short, long, other}
  TokensOf <- MCTokens
  Similar <- MCSimilar
  MaxCalls = 2
  MaxDeletes = 1
  Batches <- MCBatches
  None = None
INVARIANTS
  ContextIsTheConversation
  DuplicatesMerge
PROPERTIES
  BatchIsLongestRun
  RowsDrain
CHECK_DEADLOCK FALSE
