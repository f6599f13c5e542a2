SPECIFICATION Spec
CONSTANTS
  None = None
  Length = 4
  Points <- Row
  Near <- RowNear
  Inputs <- AnyInput
CHECK_DEADLOCK FALSE
INVARIANTS TypeOK PointsAndClusters ClustersAreComponents OriginalsOnce
PROPERTIES GroupsGrowTogether Ends
