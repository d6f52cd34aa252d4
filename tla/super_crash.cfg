CONSTANTS
  NrBlocks = 13
  InodesPerBlock = 3
  BitsPerBlock = 12
  MaxCalls = 2
SPECIFICATION Spec
INVARIANTS InPlace SyncedIsDurable Consistent
CHECK_DEADLOCK FALSE
