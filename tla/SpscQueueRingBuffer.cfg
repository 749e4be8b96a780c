SPECIFICATION RetryingSpec
CONSTANTS
  Items = {x, y}
  Capacity = 4
  None = None
INVARIANTS NoSlotRace IInv
PROPERTIES ImplementsFifo EventuallyServed
