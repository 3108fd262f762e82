SPECIFICATION Spec
CONSTANTS
  a = a
  b = b
  Peer = {a, b}
  Request = {r1}
  Limit = 1
  MaxOps = 3
INVARIANT ObserverLimit
CHECK_DEADLOCK FALSE
