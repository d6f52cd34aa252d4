CONSTANTS
  NrInodes = 4
  MaxSubfiles = 2
  Names = {a, b, c}
  NoName = none
  LongNames = {}
  Cut <- MCNoCut
  Readers = {r1}
  Listed = {1}
SYMMETRY MCSymmetry
SPECIFICATION Spec
INVARIANTS EntriesDense OneParent LinkCounts FreeInodesFollow CacheTrue ListingComplete
PROPERTY RefinesNamespace
CHECK_DEADLOCK FALSE
