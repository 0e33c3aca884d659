------------------------- MODULE MCNetworkManager --------------------------
(* Instances of NetworkManager for TLC.                                    *)
EXTENDS NetworkManager, TLC

CONSTANTS p1, p2, c1, c2, c3, k1, k2, efnet

ManagerSymmetry == Permutations(Addr) \cup Permutations(Client) \cup Permutations(Cmd)
=============================================================================
