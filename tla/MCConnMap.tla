------------------------------ MODULE MCConnMap -----------------------------
(* Instances of ConnMap for TLC.                                           *)
EXTENDS ConnMap, TLC

(* Neither the endpoints of the game nor its servers are told apart.       *)
Alike == Permutations(GameEps) \cup Permutations(Origins)
=============================================================================
