------------------------------- MODULE MCHost -------------------------------
(* An instance of RFNHost for TLC.  No state of one half is read by the    *)
(* properties of the other, so every behaviour of the host projects to a   *)
(* behaviour of each (Host_proofs, HalvesAreAlone); TLC explores the       *)
(* projections one at a time (half) instead of their product.              *)
EXTENDS Host, TLC

VARIABLE half

HalfInit == HostInit /\ half \in {"db", "memory"}
HalfNext ==
    \/ half = "db" /\ DbStep /\ UNCHANGED half
    \/ half = "memory" /\ MemStep /\ UNCHANGED half
HalfSpec == HalfInit /\ [][HalfNext]_<<vars, memory, half>>

ScriptSymmetry == Permutations(Scripts)
=============================================================================
