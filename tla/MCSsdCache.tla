---------------------------- MODULE MCSsdCache ----------------------------
(* Symmetry of SsdCache for TLC: passes run the same code, and so do files. *)
EXTENDS SsdCache, TLC

Symmetry == Permutations(Paths) \cup Permutations(Passes)
=============================================================================
