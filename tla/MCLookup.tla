------------------------------- MODULE MCLookup -------------------------------
(* Instances of DentryLookup for TLC. *)
EXTENDS DentryLookup, TLC

CONSTANTS p1, p2, n1, n2

\* n1 is in both directories with one hash value, the long n2 in one.
SomeKeys == {<<p1, n1>>, <<p2, n1>>, <<p2, n2>>}
ChainOf == [k \in SomeKeys |-> IF k[2] = n1 THEN 1 ELSE 2]

Same == Permutations(Dentries) \cup Permutations(Storages)
=============================================================================
