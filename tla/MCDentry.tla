------------------------------ MODULE MCDentry ------------------------------
(* Instances of DentryRefs for TLC. *)
EXTENDS DentryRefs, TLC

Same == Permutations(Threads) \cup Permutations(Dentries \ {Root})
=============================================================================
