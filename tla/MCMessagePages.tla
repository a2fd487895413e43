----------------------------- MODULE MCMessagePages -----------------------------
(* Instances of MessagePages for TLC.                                      *)
EXTENDS MessagePages, TLC

Symmetry == Permutations(Posts)
===================================================================================
