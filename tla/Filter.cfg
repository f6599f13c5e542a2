SPECIFICATION Spec
CONSTANTS
  None = None
  Length = 5
  New = 3
  Olds = 2
  Levels = {"silent", "normal", "details"}
  Points <- Row
  Near <- RowNear
  Inputs <- AnyInput
CHECK_DEADLOCK FALSE
INVARIANTS TypeOK NothingLost SplitsTogether OwnersListed CanBeWritten
