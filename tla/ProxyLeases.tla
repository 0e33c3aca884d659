---------------------------- MODULE ProxyLeases -----------------------------
(***************************************************************************)
(* What the pool promises the clients of several networks, without saying  *)
(* how: on each network a proxy is lent to at most one client at a time,   *)
(* and a lease ends when its client gives it back.  Leases are forfeited   *)
(* only where a proxy is shared: one of its clients gives it up for dead,  *)
(* and the pool forgets the others.                                        *)
(***************************************************************************)
CONSTANTS Resource, Client, NetOf, None

VARIABLE held   \* the lease of each client, or None

Init == held = [c \in Client |-> None]

Lend(c, r) ==
    /\ held[c] = None
    /\ \A d \in Client : NetOf[d] = NetOf[c] => held[d] # r
    /\ held' = [held EXCEPT ![c] = r]

GiveBack(c) ==
    /\ held[c] # None
    /\ held' = [held EXCEPT ![c] = None]

Forfeit(r) ==
    /\ \E c, d \in Client : /\ held[c] = r /\ held[d] = r
                            /\ NetOf[c] # NetOf[d]
    /\ held' = [c \in Client |-> IF held[c] = r THEN None ELSE held[c]]

Next ==
    \/ \E c \in Client : GiveBack(c) \/ \E r \in Resource : Lend(c, r)
    \/ \E r \in Resource : Forfeit(r)

Spec == Init /\ [][Next]_held
=============================================================================
