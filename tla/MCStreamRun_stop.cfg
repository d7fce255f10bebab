SPECIFICATION RunSpec
CONSTANTS
  Source = {s1, s2}
  LivenessWindow = 0
  MaxFrames = 1
  MaxTime = 1
CHECK_DEADLOCK FALSE
PROPERTY StopShutsDown
