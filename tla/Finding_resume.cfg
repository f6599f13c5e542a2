SPECIFICATION ExperimentSpec
CONSTANTS
  Absent = Absent
  Torn = Torn
  Partial = Partial
  Detected = Detected
  Tracked = Tracked
  Start = 0
  End = 4
  NoFile = NoFile
  Wanted <- DictionaryOnly
  Modes <- FilesInline
  Interrupts = 1
  Launches = 2
CHECK_DEADLOCK FALSE
INVARIANT ResumedIsComplete
