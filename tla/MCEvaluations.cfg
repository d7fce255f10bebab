SPECIFICATION Spec
CONSTANTS
  Gt = {1, 2}
  MaxDet = 3
  MaxLevel = 2
  Tracklets <- FourTracklets
  Frames = {0, 1}
  OfflineIds = {a1, a2}
  OnlineIds = {b1, b2}
  Warmup = 0
  Camera = {0, 1}
  Object = {1}
  MaxImages = 2
  Source = {0, 1}
  Annotated <- ThreeBoxes
  MinTrain = 1
SYMMETRY Renamings
CHECK_DEADLOCK FALSE
INVARIANT RecallFallsWithThreshold
INVARIANT AgreementPreservesMetrics
INVARIANT OfflineUsesOnlineEvidence
INVARIANT StartsOnWellMeasured
