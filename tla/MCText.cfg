SPECIFICATION TextSpec
CONSTANTS
  Order <- Names
  Secrets <- Ids
  SecretVals <- Passwords
  Whitelist <- MCWhitelist
  Values <- Arguments
  Undefined = Undefined
  MaxEdits = 1
  MaxPieces = 2
INVARIANTS
  OneWordEach
  ScrubIsComplete
CHECK_DEADLOCK FALSE
