SPECIFICATION Spec
CONSTANTS
  i1 = i1
  i2 = i2
  cleanup = cleanup
  spawned = spawned
  Instance = {i1, i2}
  Self = i1
  Task = {cleanup}
  Cleanup = cleanup
  NoTask = NoTask
  Spawned = {spawned}
  Unlocked = Unlocked
  MaxBuffer = 2
  BatchSize = 2
  Threshold = 2
  MaxRetries = 2
  MaxEvents = 3
INVARIANTS EventsAccounted
PROPERTY TasksKeepRunning
CHECK_DEADLOCK FALSE
