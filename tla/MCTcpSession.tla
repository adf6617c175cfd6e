---------------------------- MODULE MCTcpSession ----------------------------
(* TcpSession for TLC: connections and session keys are interchangeable.   *)
EXTENDS TcpSession, TLC

Symmetry == Permutations(Links) \cup Permutations(Sessions)
=============================================================================
