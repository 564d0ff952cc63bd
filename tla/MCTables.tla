------------------------------ MODULE MCTables ------------------------------
(* Tables on a small instance.                                             *)
EXTENDS Tables, TLC

\* Ids are random and compared for equality alone; so are answers and texts.
Interchangeable == Permutations(Ids) \cup Permutations(Fabrics) \cup Permutations(Queries)
=============================================================================
