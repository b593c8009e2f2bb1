CONSTANTS
  Aids = {x}
  Threads = {t1, t2}
  MaxInstances = 2
  InitOutcomes = {"ok", "fail", "stopSelf"}
  Serial = FALSE
  MayUndeploy = TRUE
  MayLoseEvents = TRUE
  FirstPages = {"requested", "loaded"}
SPECIFICATION Spec
SYMMETRY ThreadSymmetry
INVARIANTS TypeOK ReplyFindsAgent NoOverwrite ConsoleExactOtherwise
CHECK_DEADLOCK FALSE
