SPECIFICATION FairSpec
CONSTANTS
  Source = {s1}
  Object = {o1}
  ReassignInterval = 2
  WorkerMayFail = FALSE
  MaxAttempts = 2
  MaxGeneration = 1
  MaxQueue = 1
CHECK_DEADLOCK FALSE
PROPERTIES
  AttemptsReachFuser
  ShutdownReturns
  IdleReturnsOrRaises
