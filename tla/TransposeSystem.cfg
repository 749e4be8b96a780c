SPECIFICATION SysFairSpec
CONSTANTS
  Clients = {c1, c2}
  NumSlots = 2
  None = None
  DeathAllowed = TRUE
  StopAllowed = TRUE
  NumBuffers = 2
  Repetitions = 1
  QueueCapacity = 1
  PromptServer = TRUE
  SetupMayFail = TRUE
  ServerPid = ServerPid
INVARIANTS OneRequestPerWait ResultsComplete ServesOwnSize LoggedTotals
PROPERTIES EveryClientFinishes WaitersWoken
CHECK_DEADLOCK FALSE
