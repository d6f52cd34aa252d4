\* shrink_lock_dentry against an entry that becomes positive.
SPECIFICATION Spec
CONSTANTS
  Root = root
  Dentries = {root, d1, d2}
  Inodes = {i1}
  Threads = {t1, t2}
  Nobody = nobody
  MaxHeld = 2
SYMMETRY Same
INVARIANTS
  ReturnsLocked
