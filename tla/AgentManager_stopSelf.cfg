CONSTANTS
  Aids = {x}
  Threads = {t1}
  MaxInstances = 2
  InitOutcomes = {"ok", "stopSelf"}
  Serial = TRUE
  MayUndeploy = FALSE
  MayLoseEvents = FALSE
  FirstPages = {"loaded"}
SPECIFICATION Spec
INVARIANT ConsoleExact
CHECK_DEADLOCK FALSE
