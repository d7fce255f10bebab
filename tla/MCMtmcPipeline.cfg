SPECIFICATION Spec
CONSTANTS
  s1 = s1
  s2 = s2
  Source <- Cameras
  PadName = {p1, p2}
  NoPad = NoPad
  NoReceipt = NoReceipt
  MaxPending = 2
  MaxFrames <- FramesDecoded
  MaxUpstream = 1
  MaxReconnects = 1
  Unsteady <- Flaky
SYMMETRY Symmetry
CHECK_DEADLOCK FALSE
INVARIANTS
  TypeOK
  OwnReceiptOrNone
  LossCostsOneDrainedFrame
  RowGenerationNotOlder
  AcceptedRowWasSubmitted
  AttemptsOnlyGrow
