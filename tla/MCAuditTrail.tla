---------------------------- MODULE MCAuditTrail ----------------------------
(* Instances of AuditTrail for TLC. *)
EXTENDS AuditTrail, TLC
Symmetry == Permutations(Tenants) \cup Permutations(Exporters)
=============================================================================
