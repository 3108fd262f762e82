SPECIFICATION FairSpec
CONSTANTS
  doc = doc
  msg = msg
  w1 = w1
  w2 = w2
  Record = {doc, msg}
  Document = {doc}
  SessionRecord = {doc}
  NamespaceOf <- MCNamespaceOf
  StoreInPostgres = FALSE
  Reconciler = {w1, w2}
  BatchSize = 2
  MaxSyncAttempts = 2
  MaxErasures = 1
  MaxFaults = 1
INVARIANTS
  SyncedIsStored
  NoOrphanVectors
PROPERTIES
  SyncedIsFinal
  RecordsSettle
CHECK_DEADLOCK FALSE
