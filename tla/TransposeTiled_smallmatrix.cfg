SPECIFICATION Spec
CONSTANTS
  RowCount = 2
  ColCount = 2
  TileSize = 4
  MaxThreads = 2
  Outside = Outside
  Old = Old
INVARIANT Correct
CHECK_DEADLOCK FALSE
