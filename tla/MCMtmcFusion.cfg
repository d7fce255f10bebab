SPECIFICATION FusionSpec
CONSTANTS
  Detection <- Bridge
  MinCooccurrence = 1
  MinSupport = 1
  AffinityNum = 1
  AffinityDen = 2
  TrackletTtl = 2
  ReassignInterval = 2
  MaxAttempts = 4
  MaxReconnects = 1
  Left <- LeftKeys
  Right <- RightKeys
  Cost = {0, 1, 2}
  KeySets <- TwoAndThreeCameras
  Span <- EarlyLateBoth
  Opportunities = 3
CHECK_DEADLOCK FALSE
INVARIANTS TypeOK WindowMatchesLive PublicMapInStep HistoryMatchesStream AuthoritativeSeparatesOverlaps
INVARIANTS SupportWithinGreedy ClustersSound ClustersMaximal StrongestPairJoined
PROPERTIES IdsNeverReused OneIdPerCluster MajorityIdKept RuntimeAbstraction
