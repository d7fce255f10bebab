SPECIFICATION ContainerSpec
CONSTANTS
  Source = {s1}
  LivenessWindow = 0
  MaxFrames = 1
  MaxTime = 1
  MaxStarts = 2
  CommandLines <- ThreeCommandLines
CHECK_DEADLOCK FALSE
INVARIANT ReidOnnxNeverPartial
