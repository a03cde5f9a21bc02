-------------------------- MODULE MCSessionReceipt --------------------------
(* Two commands at a time over three branches; which of the two is which      *)
(* makes no difference, nor does the name of a branch.                        *)
EXTENDS SessionReceipt, TLC

Interchangeable == Permutations(Callers) \union Permutations(Branches)
=============================================================================
