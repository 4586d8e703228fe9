----------------------------- MODULE MCMergeDir -----------------------------
(* Up to four entries of the layer's directory, over two names.              *)
EXTENDS MergeDir, TLC

CONSTANTS a, b

Names == {a, b}
Same  == Permutations(Names)
=============================================================================
