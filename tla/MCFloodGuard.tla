---------------------------- MODULE MCFloodGuard -----------------------------
(* Instance of FloodGuard for TLC.                                         *)
EXTENDS FloodGuard

CONSTANTS s1, s2, s3
=============================================================================
