------------------------------- MODULE MCBot -------------------------------
(***************************************************************************)
(* One configured network beside the home network, two commands at a time  *)
(* and two managers in a life of the process.                              *)
(***************************************************************************)
EXTENDS Bot

CONSTANTS home, efnet, m1, m2, k1, k2, none
=============================================================================
