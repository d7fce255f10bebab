SPECIFICATION Spec
CONSTANTS
  Source = {s1, s2}
  Object = {o1}
  ReassignInterval = 2
  WorkerMayFail = TRUE
  MaxAttempts = 3
  MaxGeneration = 1
  MaxQueue = 0
CHECK_DEADLOCK FALSE
PROPERTY ImplementsService
INVARIANTS
  TypeOK
  SequencingNeverRefused
  FusedUnderReceiptGenerations
  SnapshotNeverStale
  UnfinishedMatchesWork
  LineInv
  ShutdownMapComplete
  NoIdBeforeBumpApplied
