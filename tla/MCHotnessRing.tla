--------------------------- MODULE MCHotnessRing ---------------------------
(* Model values of HotnessRing for TLC. *)
EXTENDS HotnessRing

MCEvents ==
    {[path |-> "a", op |-> "open",  ts |-> 1, bytes |-> 0],
     [path |-> "a", op |-> "read",  ts |-> 2, bytes |-> 2],
     [path |-> "b", op |-> "write", ts |-> 1, bytes |-> 1],
     [path |-> "b", op |-> "close", ts |-> 2, bytes |-> 0]}

MCKindMixed == [w \in Writers |-> IF w = "server" THEN "store" ELSE "mount"]
=============================================================================
