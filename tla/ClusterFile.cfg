SPECIFICATION Spec
CONSTANTS
  Absent = Absent
  Torn = Torn
  Partial = Partial
  MaxWrites = 8
CHECK_DEADLOCK FALSE
INVARIANTS TypeOK SavedOrNewer
PROPERTIES ReplacedByNewer WritesResultFile
