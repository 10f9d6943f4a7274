----------------------------- MODULE MCExternalMcp -----------------------------
(* Small instances of ExternalMcp: connections, items, tenants and clients  *)
(* are interchangeable.                                                     *)
EXTENDS ExternalMcp, TLC

Symmetry ==
  Permutations(Tenants) \cup Permutations(Conns) \cup Permutations(Items)
    \cup Permutations(Clients)
==============================================================================
