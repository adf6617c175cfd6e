------------------------------ MODULE MCRouter ------------------------------
(***************************************************************************)
(* Instances of Router for TLC: three sessions, so that two links to one   *)
(* server and a third to another are set up at once, two peers, and users  *)
(* that send a few requests.                                               *)
(***************************************************************************)
EXTENDS Router, TLC

RouterSymmetry == Permutations(Sessions) \cup Permutations(Peers) \cup Permutations(Users)
=============================================================================
