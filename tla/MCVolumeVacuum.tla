---------------------------- MODULE MCVolumeVacuum ----------------------------
(* Symmetry of VolumeVacuum for TLC: contents are only compared. *)
EXTENDS VolumeVacuum, TLC

Symmetry == Permutations(Data)
=============================================================================
