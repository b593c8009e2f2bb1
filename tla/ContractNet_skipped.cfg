CONSTANTS
  Participants = {p1, p2}
  NoOptimal = {"null"}
  MaxLosses = 0
SPECIFICATION Spec
INVARIANT AwaitsResponse
CHECK_DEADLOCK FALSE
