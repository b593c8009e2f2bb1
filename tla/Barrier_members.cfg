CONSTANTS
  Agents = {a1, a2}
  MaxSuperstep = 2
  MaxCopies = 2
  MaxStarts = 1
  MaxLosses = 1
  Lossy = {"subscribe", "cancel", "inform", "superstep", "timeout"}
SPECIFICATION FairSpec
INVARIANTS TypeOK NobodyForgotten TimerArmed
PROPERTIES SynchronousRelease SuperstepsGoOn ImplementsRounds
CHECK_DEADLOCK FALSE
