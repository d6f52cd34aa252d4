CONSTANTS
  NumberMask = 16
  BlockSize = 3
  NrBlocks = 7
  FirstData = 2
  MaxBlocks = 4
  Inodes = {f1}
  Byte = {0, 1, 2, 3, 4}
  Payloads <- MCPayloads
  Offsets <- MCOffsets
  ReadLens = {3}
SPECIFICATION SupportedSpec
INVARIANTS SizeIsSum SupportedInBounds
PROPERTY RefinesStore
CHECK_DEADLOCK FALSE
