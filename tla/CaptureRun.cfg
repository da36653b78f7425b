SPECIFICATION Spec
CONSTANTS
  None = None
  Unavailable = Unavailable
  Fatal = Fatal
  Stream <- MCStream
  Settings <- MCSettings
  MaxAttempts = 2
  Records <- CaptureRecords
CHECK_DEADLOCK FALSE
INVARIANTS
  TypeOK
  RecordsAreInOrder
  ConnectionIsWhole
  SnapshotIsBridged
  QuotaIsKept
  EverythingIsWritten
PROPERTIES
  ImplementsAppendLog
  RunEnds
  RecordsReachTheFile
