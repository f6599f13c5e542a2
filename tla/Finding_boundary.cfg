SPECIFICATION Spec
CONSTANTS
  None = None
  Length = 5
  New = 2
  Olds = 1
  Levels = {"normal"}
  Points <- Row
  Near <- RowNear
  Inputs <- AnyInput
CHECK_DEADLOCK FALSE
INVARIANT OnlyNeighboursMerged
