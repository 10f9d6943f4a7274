--------------------------- MODULE MCArtifactStore ---------------------------
(* Instances of ArtifactStore for TLC. *)
EXTENDS ArtifactStore, TLC

(* The sets a run gives model values to are interchangeable: no definition *)
(* tells two tenants, actors, artifacts, contents or clients apart.  Not   *)
(* used by the liveness run.                                               *)
Symmetry ==
  Permutations(Tenants) \cup Permutations(Actors) \cup Permutations(Artifacts)
    \cup Permutations(Contents) \cup Permutations(Clients) \cup Permutations(EdgeNotes)
==============================================================================
