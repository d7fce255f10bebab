SPECIFICATION FairSpec
CONSTANTS
  Source = {s1}
  Object = {o1}
  ReassignInterval = 2
  WorkerMayFail = TRUE
  MaxAttempts = 1
  MaxGeneration = 0
  MaxQueue = 0
CHECK_DEADLOCK FALSE
PROPERTY FailureSurfaces
