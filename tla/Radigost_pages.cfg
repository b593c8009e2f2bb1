CONSTANTS
  a = a
  b = b
  s = s
  Names = {a, b}
  Mobile = {b}
  ServerAgents <- MCServerAgents
  Hosts = {"xjaf", "Examples"}
  ServerHost = "xjaf"
  Platforms = {p1, p2}
  Options <- MCOptions
  Messages = {m1}
  ReceiverLists <- MCReceiverLists
  MaxWorkers = 2
SPECIFICATION Spec
SYMMETRY PlatformSymmetry
INVARIANTS TypeOK OncePerReceiver 
PROPERTY NotLostWhileSettled
CHECK_DEADLOCK FALSE
