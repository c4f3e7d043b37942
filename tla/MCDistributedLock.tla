-------------------------- MODULE MCDistributedLock --------------------------
(* Instance of DistributedLock for TLC: clients with different seed filers. *)
EXTENDS DistributedLock, TLC

CONSTANTS c1, c2

MCSeed == c1 :> 1 @@ c2 :> 2
=============================================================================
