CONSTANTS
  t1 = t1
  t2 = t2
  t3 = t3
  f1 = f1
  f2 = f2
  Threads = {t1, t2}
  Files = {f1, f2}
  Nobody = Nobody
  FileOf <- TwoFiles
  DataBlocks <- MCDataBlocks
  WordBits = 2
SPECIFICATION LockedSpec
INVARIANTS GetsUnused
