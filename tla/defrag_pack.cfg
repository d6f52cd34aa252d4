CONSTANTS
  NumberMask = 16
  BlockSize = 3
  NrBlocks = 6
  FirstData = 1
  MaxBlocks = 4
  Inodes = {f1, f2}
  Byte = {0, 1, 2, 3}
  Payloads <- MCPayloads
  Offsets <- MCOffsets
  ReadLens = {}
SPECIFICATION PackSpec
INVARIANTS PackKeepsContent PackFills PackCounts NoSharing FreeCountExact
PROPERTY PackEnds
CHECK_DEADLOCK FALSE
