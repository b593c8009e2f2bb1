CONSTANTS
  Ants = {a1, a2}
  Nodes = {0, 1, 2, 3}
  Dist <- RectangleDist
  Tours <- ShortestAndLongest
  MaxValue = 99
  MaxStationary = 1
  MaxLost = 1
  StopWhenDone = FALSE
SPECIFICATION FairSpec
INVARIANTS TypeOK BestIsTour BestOfReported EveryEdgeOnce LinesGoOn
PROPERTY SearchEnds
CHECK_DEADLOCK FALSE
