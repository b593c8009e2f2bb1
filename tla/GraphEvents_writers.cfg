CONSTANTS
  Writers = {w1, w2}
  Batching = {w1, w2}
  Observers = {o1, o2}
  MaxEvents = 2
  MayThrow = TRUE
SPECIFICATION FairSpec
INVARIANTS TypeOK OnceInOrder NothingLost NoMissedWakeup
PROPERTIES AllDispatched ImplementsStream
CHECK_DEADLOCK FALSE
