------------------------------ MODULE MCRecovery ------------------------------
(* Instances of Recovery for TLC. *)
EXTENDS Recovery, TLC
Symmetry == Permutations(Servers) \cup Permutations(Versions) \cup Permutations(KeyVersions)
=============================================================================
