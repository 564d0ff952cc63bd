--------------------------- MODULE MCSearchEngine ---------------------------
(* SearchEngine on a small instance. Its liveness property rules out       *)
(* symmetry.                                                               *)
EXTENDS SearchEngine
=============================================================================
