--------------------------- MODULE MCTagEventLog ---------------------------
(* Model values of TagEventLog for TLC. *)
EXTENDS TagEventLog

MCTagSets == {{"x"}}
=============================================================================
