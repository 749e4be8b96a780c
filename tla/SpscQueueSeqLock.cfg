SPECIFICATION FairSpec
CONSTANTS
  Items = {x, y}
  Capacity = 4
  SeqMod = 4
  None = None
INVARIANTS NoSlotRace IInv
PROPERTIES ImplementsFifo FailsOnlyOnOverlap EventuallyServed
