SPECIFICATION MatSpec
CONSTANTS
  MaxObjects = 3
  Sizes = {0, 1, 2, 4, 8, 16, 32}
  FaultsAllowed = TRUE
  WordBits = 4
  MaxExponent = 9
INVARIANTS NoBusError NoWriteErased OwnerHoldsName NameReleased CountsMatchObject
CHECK_DEADLOCK FALSE
