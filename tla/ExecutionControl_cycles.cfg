CONSTANTS
  Agents = {a1, a2}
  MaxCycle = 2
  MaxStarts = 2
  MaxViews = 1
  MaxLosses = 1
  MayStop = TRUE
  MayCrash = TRUE
SPECIFICATION WorkSpec
INVARIANTS TypeOK NobodyForgotten Attended Lockstep
PROPERTIES CyclesGoOnOtherwise ImplementsRounds
CHECK_DEADLOCK FALSE
