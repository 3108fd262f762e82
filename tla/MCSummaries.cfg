SPECIFICATION MCSpec
CONSTANTS
  r1 = r1
  r2 = r2
  short = short
  long = long
  slow = slow
  Request = {r1, r2}
  Saver = {short, long}
  Worker = worker
  Key = {k1}
  Batch = 2
  NoRow = NoRow
  Nobody = Nobody
  Caching = {TRUE, FALSE}
  MaxOps = 3
  Straggler = {slow}
  KindOf <- MCKindOf
  Intervals <- MCIntervals
  MaxSweeps = 1
INVARIANTS StaleHasACause NumbersAreFree MarkedIsQueued WindowsJoin
PROPERTIES MarkIsFinal SummariesAdvance
SYMMETRY Clients
CHECK_DEADLOCK FALSE
