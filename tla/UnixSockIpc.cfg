SPECIFICATION FairSpec
CONSTANTS
  Clients = {c1, c2}
  Base = Base
  None = None
  Chunks = 2
  MaxEvents = 2
  CountMod = 4
  MaxSends = 2
  CallsMayFail = TRUE
INVARIANTS HandlerGetsNext RepliesReachSender ReadNeverSpins CountExact KilledByDeserter
PROPERTIES MessagesHandled StopsUnlessPending
CHECK_DEADLOCK FALSE
