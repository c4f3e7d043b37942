----------------------------- MODULE MCTagIndex -----------------------------
(* Symmetry of TagIndex for TLC: processes, paths and tags are alike.  The  *)
(* names of temporary files are not permuted: CHOOSE picks among them.      *)
EXTENDS TagIndex, TLC

Symmetry == Permutations(Procs) \cup Permutations(Paths) \cup Permutations(Tags)
=============================================================================
