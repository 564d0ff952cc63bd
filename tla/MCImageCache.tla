---------------------------- MODULE MCImageCache ----------------------------
(* ImageCache on small instances: one image of each of two formats.        *)
EXTENDS ImageCache, TLC

CONSTANTS png1, jpeg1

TwoImages == {png1, jpeg1}

TwoFormats == png1 :> "png" @@ jpeg1 :> "jpeg"

\* Requests are interchangeable, and so are prompts (safety only).
Interchangeable == Permutations(Requests) \cup Permutations(Hashes)
=============================================================================
