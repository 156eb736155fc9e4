SPECIFICATION FairSpec
CONSTANTS
  h1 = h1
  h2 = h2
  Threads = {t1, t2}
  Hosts = {h1, h2}
  Keys = {k1, k2}
  None = None
  MaxCalls = 3
  MaxRekeys = 1
  FirstKey = k1
  AlsoCleared <- Ports
INVARIANTS
  NothingLeaks
PROPERTIES
  PinsAreVerified
  NotClosedInUse
  LockIsFreed
CHECK_DEADLOCK FALSE
