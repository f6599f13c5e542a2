SPECIFICATION ExperimentSpec
CONSTANTS
  Absent = Absent
  Torn = Torn
  Partial = Partial
  Detected = Detected
  Tracked = Tracked
  Start = 0
  End = 3
  NoFile = NoFile
  Modes <- AnyMode
  Wanted <- MCWanted
  Interrupts = 2
  Launches = 3
CHECK_DEADLOCK FALSE
INVARIANTS TypeOK FreshTrackedIsLinked FreshIsComplete NoGaps StatisticsAreOfLists
PROPERTY LaunchEnds
