SPECIFICATION FairSpec
CONSTANTS
  RowCount = 4
  ColCount = 8
  TileSize = 2
  MaxThreads = 4
  Outside = Outside
  Old = Old
INVARIANTS WritersDisjoint Correct
PROPERTIES Returns
CHECK_DEADLOCK FALSE
