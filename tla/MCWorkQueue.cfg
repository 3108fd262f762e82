SPECIFICATION FairSpec
CONSTANTS
  p1 = p1
  p2 = p2
  rep = rep
  hook = hook
  Process = {p1, p2}
  Key = {rep, hook}
  Item = {1, 2, 3}
  WorkUnitOf <- MCWorkUnitOf
  Kind <- MCKind
  Tokens <- MCTokens
  BatchMaxTokens = 2
  FlushEnabled = FALSE
  Workers = 1
  OrderedKeys = {rep}
  EventItem = {3}
  Scopes = {}
  MaxLeases = 5
  MaxDeletions = 0
  MaxFaults = 1
INVARIANTS
  OneLeasePerUnit
  WithinCapacity
  NoRowLost
PROPERTIES
  EveryRowIsResolved
  AbandonedLeasesEnd
CHECK_DEADLOCK FALSE
