SPECIFICATION Spec
CONSTANTS
  Order <- TwoPaths
  Ids = {"X", "Y"}
  Fresh <- Generated
  Calls <- Pushes
  Setups <- OnlyEnv
  MaxEdits = 2
  MaxCalls = 3
  MaxFaults = 0
  Patience = 0
PROPERTY SyncIsIdempotent
CHECK_DEADLOCK FALSE
