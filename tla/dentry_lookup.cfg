\* Two threads, three entries, two names in two directories, two chains, two long names.
SPECIFICATION Spec
CONSTANTS
  p1 = p1
  p2 = p2
  n1 = n1
  n2 = n2
  Dentries = {d1, d2, d3}
  Dirs = {p1, p2}
  Comparing = {p2}
  Names = {n1, n2}
  Long = {n2}
  Keys <- SomeKeys
  Chains = {1, 2}
  Chain <- ChainOf
  Storages = {s1, s2}
  Walkers = {w1}
  Movers = {m1}
  Nobody = nobody
  Inline = inline
SYMMETRY Same
INVARIANTS
  NoFalseNegative
  NamesHeld
PROPERTIES
  RcuTrue
