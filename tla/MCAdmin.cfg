SPECIFICATION Spec
CONSTANTS
  Slots = {s1}
  MaxStep = 2
  MaxBatches = 2
  BatchSize = 1
  MaxEpoch = 1
INVARIANTS
  RevokedStayOutUnlessUndone
  RecoveryOnceUnlessUndone
  TotpOncePerRun
CHECK_DEADLOCK FALSE
