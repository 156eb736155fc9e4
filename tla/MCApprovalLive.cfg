SPECIFICATION FairSpec
CONSTANTS
  a1 = a1
  h1 = h1
  Agents = {a1}
  NoAgent = NoAgent
  Hosts = {h1}
  Operators = {o1}
  Loop = Loop
  MaxItems = 2
  Requests <- TimedRequests
  Changeable = {"agents"}
  Deletable = {}
  MaxChanges = 1
  MaxCrashes = 0
  MaxErrors = 1
PROPERTIES
  WaiterReturns
  ExpiredIsResolved
  SettledWithoutFaults
CHECK_DEADLOCK FALSE
