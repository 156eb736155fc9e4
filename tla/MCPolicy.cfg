SPECIFICATION FairSpec
CONSTANTS
  Sets = {s1, s2}
  Commands = {c1}
  MaxNamed = 1
  MaxRestores = 1
INVARIANTS
  DecisionFollowsFile
  AssignedSetsExist
PROPERTIES
  DenyStands
  RestoreTakesEffect
CHECK_DEADLOCK FALSE
