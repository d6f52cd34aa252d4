\* The monitor of lab 6: a writer, a reader, the thread, the shrinker, start and stop.
SPECIFICATION Spec
CONSTANTS
  Pids = {p1}
  Monitors = {m1, m2}
  Threads = {t1, t2}
  Clients = {c1, c2}
  Controllers = {s1}
  Reader = reader
  Module = module
  Nobody = nobody
  Fit = 1
  MaxNum = 1
INVARIANTS
  NewestKept
  PassComplete
PROPERTIES
  StopReturns
