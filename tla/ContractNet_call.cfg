CONSTANTS
  Participants = {p1, p2, p3, p4}
  NoOptimal = {"throws", "null"}
  MaxLosses = 2
SPECIFICATION FairSpec
INVARIANTS TypeOK NoMixedAnswers OneAtATime SuccessOnce TaskInHand
PROPERTY TaskDone
CHECK_DEADLOCK FALSE
