SPECIFICATION FairSpec
CONSTANTS
  Waiters = {w1, w2, w3}
  Wakers = {k1, k2}
INVARIANTS NoLostWakeup
PROPERTIES ImplementsEvent SignalConsumed
