SPECIFICATION FairSpec
CONSTANTS
  Agents = {a1, a2}
  NoAgent = NoAgent
  MaxKeys = 2
  MaxTokens = 1
  MaxChanges = 3
  MaxCrashes = 1
  MaxErrors = 1
INVARIANTS
  RetiredKeysStayOut
  KeyIdentifiesAgent
  RevokedStaysRevoked
  OneTokenPerCode
PROPERTIES
  GrantsEnd
CHECK_DEADLOCK FALSE
