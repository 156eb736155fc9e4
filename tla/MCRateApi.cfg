SPECIFICATION RateSpec
CONSTANTS
  Hosts = {h1}
  Agents = {a1, a2}
  HostLimit = 2
  AgentLimit = 0
  Window = 2
  MaxTime = 3
  Entries <- BothEntries
  MayDeny = FALSE
INVARIANTS
  HostBudgetIsUsable
CHECK_DEADLOCK FALSE
