-------------------------- MODULE MCUploadPipeline --------------------------
(* Model values of UploadPipeline for TLC. *)
EXTENDS UploadPipeline

CONSTANTS c1, c2, c3

\* Two parts of a chunk, the whole of another, and one more to have too many.
MCRequests ==
    {[lc |-> c1, span |-> {1}], [lc |-> c1, span |-> {2}],
     [lc |-> c2, span |-> {1, 2}], [lc |-> c3, span |-> {1}]}
=============================================================================
