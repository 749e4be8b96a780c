SPECIFICATION FairSpec
CONSTANTS
  Clients = {c1}
  NumSlots = 2
  None = None
  DeathAllowed = FALSE
  StopAllowed = TRUE
PROPERTIES StopsOnEnter
CHECK_DEADLOCK FALSE
