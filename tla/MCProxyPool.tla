---------------------------- MODULE MCProxyPool -----------------------------
(* Instances of ProxyPool for TLC.                                         *)
EXTENDS ProxyPool, TLC

CONSTANTS p1, p2, efnet, undernet, e1, e2, u1

\* Two callers compete on one network, a third uses the pool for another.
MCNetOf == (e1 :> efnet) @@ (e2 :> efnet) @@ (u1 :> undernet)

PoolSymmetry == Permutations({p1, p2})
=============================================================================
