SPECIFICATION Spec
CONSTANTS
  Torn = Torn
  Partial = Partial
  Other = Other
  Inputs <- MCInputs
  Cells <- MCCells
  Bins <- MCBins
CHECK_DEADLOCK FALSE
INVARIANTS TypeOK LinksJoinSteps LinkedAsTracked StatisticsCoverTracks
