CONSTANTS
  NumberMask = 16
  BlockSize = 3
  NrBlocks = 8
  FirstData = 2
  MaxBlocks = 3
  Inodes = {f1, f2}
  Byte = {0, 1, 2}
  Payloads <- MCPayloads
  Offsets <- MCOffsets
  ReadLens = {}
SYMMETRY MCSymmetry
SPECIFICATION Spec
INVARIANTS TypeOK NoSharing FreeCountExact
PROPERTY OneFileChanges
CHECK_DEADLOCK FALSE
