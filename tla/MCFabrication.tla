--------------------------- MODULE MCFabrication ---------------------------
(* Fabrication on small instances.                                         *)
EXTENDS Fabrication, TLC

\* The answers of the language model, the workers and the visitors are
\* interchangeable: no action tells two of them apart.
Interchangeable ==
    Permutations(Fabrics) \cup Permutations(Workers) \cup Permutations(Visitors)
=============================================================================
