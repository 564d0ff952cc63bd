--------------------------- MODULE MCEventStream ---------------------------
(* EventStream on a small instance. Its liveness property rules out        *)
(* symmetry.                                                               *)
EXTENDS EventStream
=============================================================================
