SPECIFICATION RateSpec
CONSTANTS
  Hosts = {h1}
  Agents = {a1, a2}
  HostLimit = 4
  AgentLimit = 2
  Window = 2
  MaxTime = 4
  Entries <- BothEntries
  MayDeny = TRUE
INVARIANTS
  WindowRespected
  AgentStoppedByItself
CHECK_DEADLOCK FALSE
