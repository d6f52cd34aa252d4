CONSTANTS
  t1 = t1
  t2 = t2
  t3 = t3
  f1 = f1
  f2 = f2
  Threads = {t1, t2, t3}
  Files = {f1}
  Nobody = Nobody
  FileOf <- OneFile
  DataBlocks <- MCDataBlocks
  WordBits = 2
SPECIFICATION LockedSpec
SYMMETRY MCSymmetry
INVARIANTS TypeOK GetsUnused Conserved
