----------------------------- MODULE MCTagSync -----------------------------
(* Model values of TagSync for TLC. *)
EXTENDS TagSync, TLC

MCTagSets == SUBSET Tags

\* Mounts differ in nothing but their names, nor do replayers.
Symmetry == Permutations(Mounts) \cup Permutations(Replayers)
=============================================================================
