----------------------------- MODULE MCKeepNick -----------------------------
(* Instances of KeepNick for TLC.                                          *)
EXTENDS KeepNick, TLC

CONSTANTS kn1, kn2, own, goal

ProcSymmetry == Permutations(Proc)
=============================================================================
