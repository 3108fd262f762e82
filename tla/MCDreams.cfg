SPECIFICATION DreamsSpec
CONSTANTS
  p1 = p1
  s1 = s1
  s2 = s2
  c1 = c1
  dream = dream
  Process = {p1}
  Key = {dream}
  Saver = {s1, s2}
  HomeOf <- MCHomeOf
  Caller = {c1}
  TargetOf <- MCTargetOf
  Timer = {1, 2}
  DocumentThreshold = 1
  MaxDocuments = 2
  MaxFaults = 1
  none = none
  NoBackup = none
  NoLimit = none
  Configs <- MCConfigs
  DreamConfigs <- MCDreamConfigs
  Attempts = 3
  MaxTools = 2
  Sizes = {1, 3}
INVARIANTS
  DreamsAreSingle
  PairsKept
  PrimaryFirst
  ContextIsRecent
  ReportAddsUp
PROPERTIES
  CancellersResume
  TimersLeadToDreams
  AgentsEnd
CHECK_DEADLOCK FALSE
