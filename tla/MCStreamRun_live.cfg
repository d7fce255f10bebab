SPECIFICATION RunSpec
CONSTANTS
  Source = {s1}
  LivenessWindow = 1
  MaxFrames = 2
  MaxTime = 2
CHECK_DEADLOCK FALSE
PROPERTY EndRequestEndsRun
PROPERTY StalledReportSettles
