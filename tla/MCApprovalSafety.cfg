SPECIFICATION Spec
CONSTANTS
  a1 = a1
  h1 = h1
  Agents = {a1}
  NoAgent = NoAgent
  Hosts = {h1}
  Operators = {o1, o2}
  Loop = Loop
  MaxItems = 2
  Requests <- AllRequests
  Changeable = {"agents", "hosts", "policy"}
  Deletable = {h1}
  MaxChanges = 1
  MaxCrashes = 1
  MaxErrors = 1
INVARIANTS
  AtMostOnce
  ResultIsTruthful
  RejectedNeverRan
  UnattendedRunsAreOptimistic
  AnswersHold
  NoLostWakeup
PROPERTIES
  LifecycleSpec
CHECK_DEADLOCK FALSE
SYMMETRY Symmetry
