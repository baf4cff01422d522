----------------------------- MODULE MCMitmC2S -----------------------------
(* Instances of MitmC2S for TLC.                                           *)
EXTENDS MitmC2S, TLC

CONSTANTS r, s, k1, k2

(* A client that changes its key, with a heartbeat under the second one and *)
(* bodies of odd length.                                                   *)
TwoKeys == {[sid |-> r, key |-> k1], [sid |-> s, key |-> k2], Odd}

(* A client with one key that sends DATA and control packets.              *)
OneKey == {[sid |-> r, key |-> k1], Control}
=============================================================================
