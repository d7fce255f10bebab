SPECIFICATION Spec
CONSTANTS
  Detection <- Bridge
  MinCooccurrence = 1
  MinSupport = 1
  AffinityNum = 1
  AffinityDen = 2
  TrackletTtl = 3
  ReassignInterval = 1
  MaxAttempts = 4
  MaxReconnects = 0
CHECK_DEADLOCK FALSE
INVARIANT LiveMapSeparatesOverlaps
