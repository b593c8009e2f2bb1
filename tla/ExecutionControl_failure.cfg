CONSTANTS
  Agents = {a1, a2}
  MaxCycle = 2
  MaxStarts = 1
  MaxViews = 1
  MaxLosses = 0
  MayStop = FALSE
  MayCrash = TRUE
SPECIFICATION FairSpec
PROPERTY CyclesGoOn
CHECK_DEADLOCK FALSE
