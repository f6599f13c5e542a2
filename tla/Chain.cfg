SPECIFICATION Spec
CONSTANTS
  NoId = NoId
  NoUuid = NoUuid
  Frames = 3
  MaxClusters = 2
  MaxCollated = 3
  Gaps = {}
  StackMayBeZero = TRUE
  Modes = {TRUE, FALSE}
INVARIANTS TypeOK IdNamesOneTrack UuidsDiffer
CHECK_DEADLOCK FALSE
