SPECIFICATION Spec
CONSTANTS
  Ids <- IdSet
  Legacy <- OldEntries
  LegacyTime = 2
  MaxRows = 2
  Retention = 3
  MaxEntries = 6
  MaxFaults = 2
INVARIANTS
  KeptOrArchived
  ArchivedOnce
PROPERTIES
  TrimTakesOldest
CHECK_DEADLOCK FALSE
