------------------------- MODULE MCReliableSession -------------------------
(* ReliableSession for TLC: nothing is asked after one of the things that  *)
(* spoil delivery.                                                         *)
EXTENDS ReliableSession

Unspoiled == ~spoiled
=============================================================================
