----------------------------- MODULE MCS2CPath -----------------------------
(* Instances of S2CPath for TLC.                                           *)
EXTENDS S2CPath

=============================================================================
