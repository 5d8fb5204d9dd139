----------------------------- MODULE MCNetInit -----------------------------
(* Instances of NetInit for TLC.                                           *)
EXTENDS NetInit
=============================================================================
