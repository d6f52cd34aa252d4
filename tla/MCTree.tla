-------------------------------- MODULE MCTree --------------------------------
(* Instances of DentryTree for TLC. *)
EXTENDS DentryTree, TLC

Same3 == Permutations(Threads) \cup Permutations(Dentries \ {Root}) \cup Permutations(Inodes) \cup Permutations(Names)
=============================================================================
