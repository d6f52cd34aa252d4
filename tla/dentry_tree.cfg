\* Two threads, a root and three more entries, two names, two directories besides the root.
SPECIFICATION Spec
CONSTANTS
  Root = root
  RootInode = i0
  Dentries = {root, d1, d2, d3}
  Inodes = {i1, i2}
  Names = {n1, n2}
  Threads = {t1, t2}
  Nobody = nobody
SYMMETRY Same3
INVARIANTS
  NamesOnce
  OneAlias
  NoLoops
PROPERTIES
  InvalidateOrMount
