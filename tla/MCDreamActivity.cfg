SPECIFICATION Spec
CONSTANTS
  p1 = p1
  s1 = s1
  s2 = s2
  c1 = c1
  dream = dream
  Process = {p1}
  Key = {dream}
  Saver = {s1, s2}
  HomeOf <- MCHomeOf
  Caller = {c1}
  TargetOf <- MCTargetOf
  Timer = {1, 2}
  DocumentThreshold = 1
  MaxDocuments = 3
  MaxFaults = 1
PROPERTY ActivityCancels
CHECK_DEADLOCK FALSE
