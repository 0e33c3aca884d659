------------------------------ MODULE MCClient ------------------------------
(* Instance of Client for TLC: the home client, which retries for ever.    *)
EXTENDS Client

CONSTANTS w1, w2
=============================================================================
