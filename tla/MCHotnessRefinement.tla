------------------------ MODULE MCHotnessRefinement ------------------------
(* Model values of HotnessRefinement for TLC. *)
EXTENDS HotnessRefinement

\* Times that do not follow the order of recording, and a path whose events
\* all leave the window while another's stay.
MCEvents ==
    {[path |-> "a", op |-> "open",  ts |-> 3, bytes |-> 0],
     [path |-> "a", op |-> "read",  ts |-> 2, bytes |-> 2],
     [path |-> "a", op |-> "read",  ts |-> 1, bytes |-> 1],
     [path |-> "b", op |-> "write", ts |-> 1, bytes |-> 1]}

MCKindMixed == [w \in Writers |-> IF w = "server" THEN "store" ELSE "mount"]
=============================================================================
