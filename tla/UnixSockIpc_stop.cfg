SPECIFICATION FairSpec
CONSTANTS
  Clients = {c1}
  Base = Base
  None = None
  Chunks = 2
  MaxEvents = 2
  CountMod = 4
  MaxSends = 2
  CallsMayFail = FALSE
PROPERTIES StopsOnEnter
CHECK_DEADLOCK FALSE
