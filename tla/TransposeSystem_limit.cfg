SPECIFICATION SysSpec
CONSTANTS
  Clients = {c1, c2}
  NumSlots = 1
  None = None
  DeathAllowed = TRUE
  StopAllowed = FALSE
  NumBuffers = 1
  Repetitions = 1
  QueueCapacity = 1
  PromptServer = FALSE
  SetupMayFail = FALSE
  ServerPid = ServerPid
INVARIANTS LimitSuffices
