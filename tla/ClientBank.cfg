SPECIFICATION FairSpec
CONSTANTS
  Clients = {c1, c2, c3}
  NumSlots = 2
  None = None
  DeathAllowed = FALSE
  StopAllowed = TRUE
INVARIANTS NoUseAfterReset HandoffExclusive RemovesOwnSlot LimitSuffices IInv
PROPERTIES HandlerReturns EveryClientPolled
CHECK_DEADLOCK FALSE
