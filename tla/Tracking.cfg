SPECIFICATION FairSpec
CONSTANTS
  Runs <- TheRuns
  MaxId = 99
  NoId = 100
  ContinueIDs = TRUE
  UseOverlapConstraint = TRUE
  MaxVelocity = 1
  MaxDeltaT = 2
  MaxSizeDeviation = 3
  MergeSplitThreshold <- OneThird
  ContinuationThreshold <- ThreeQuarters
INVARIANTS TypeOK DistinctIds StableMatching NoTrackLost OneMergePerCluster
PROPERTIES AssignsIds RunEnds
