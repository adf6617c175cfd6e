--------------------------- MODULE MCLinkManager ---------------------------
(* LinkManager for TLC: the links of the pool are interchangeable.         *)
EXTENDS LinkManager, TLC

LinkSymmetry == Permutations(Links)
=============================================================================
