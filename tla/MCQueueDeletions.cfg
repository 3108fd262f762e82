SPECIFICATION Spec
CONSTANTS
  p1 = p1
  p2 = p2
  rep = rep
  Process = {p1, p2}
  Key = {rep}
  Item = {1, 2, 3}
  WorkUnitOf <- MCWorkUnitOf
  Kind <- MCKind
  Tokens <- MCTokens
  BatchMaxTokens = 2
  FlushEnabled = FALSE
  Workers = 1
  OrderedKeys = {rep}
  EventItem = {}
  Scopes <- MCScopes
  MaxLeases = 4
  MaxDeletions = 1
  MaxFaults = 1
INVARIANTS
  FinishedInOrder
PROPERTIES
  OnlyOwnersRelease
  ImplementsLedger
CHECK_DEADLOCK FALSE
