SPECIFICATION FairSpec
CONSTANTS
  Keys = {k1}
  MaxRows = 2
  MaxSeen = 2
  MaxTries = 2
  Limit = 1
  Legacy <- AllLegacy
  Ng <- NgOnOff
  MaxCrashes = 1
  MaxErrors = 1
INVARIANTS
  MarksAreTrue
  PostsBounded
  NoNeedlessDuplicate
  NothingReportedTwice
PROPERTIES
  EveryRowSettles
CHECK_DEADLOCK FALSE
