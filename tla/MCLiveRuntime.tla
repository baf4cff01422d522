--------------------------- MODULE MCLiveRuntime ---------------------------
(* Instances of LiveRuntime for TLC.                                       *)
EXTENDS LiveRuntime, TLC

(* Callers do the same calls and differ in nothing but their names.        *)
CallerSymmetry == Permutations(Callers)
=============================================================================
