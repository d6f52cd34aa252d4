\* Two threads on a root and two more entries, of a file and of the negative or positive rest.
SPECIFICATION Spec
CONSTANTS
  Root = root
  Dentries = {root, d1, d2}
  Inodes = {i1}
  Threads = {t1, t2}
  Nobody = nobody
  MaxHeld = 2
SYMMETRY Same
INVARIANTS
  CountsExact
  NoUseAfterFree
  ListsExact
  NoneForgotten
