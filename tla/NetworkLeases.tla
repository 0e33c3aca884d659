--------------------------- MODULE NetworkLeases ----------------------------
(***************************************************************************)
(* What a manager and the pool promise each other on one network, without  *)
(* saying how, as long as no client is removed: a proxy is lent to a       *)
(* client that has none, has that one holder until the holder gives it     *)
(* back or hands it over to another, and only then is it lent again.       *)
(* Holders disappear only after the manager's context has ended; what they *)
(* had then stays lent.                                                    *)
(***************************************************************************)
CONSTANTS Resource, Client, None

VARIABLES
    lent,     \* what the pool takes for lent on the network
    holder,   \* who has it, or None
    ended     \* the manager's context has ended

leaseVars == <<lent, holder, ended>>

Init ==
    /\ lent = {}
    /\ holder = [r \in Resource |-> None]
    /\ ended = FALSE

HasNone(c) == \A r \in Resource : holder[r] # c

Lend(r, c) ==
    /\ r \notin lent /\ holder[r] = None /\ HasNone(c)
    /\ lent' = lent \cup {r}
    /\ holder' = [holder EXCEPT ![r] = c]
    /\ UNCHANGED ended

GiveBack(r) ==
    /\ r \in lent /\ holder[r] # None
    /\ lent' = lent \ {r}
    /\ holder' = [holder EXCEPT ![r] = None]
    /\ UNCHANGED ended

HandOver(r, c) ==
    /\ r \in lent /\ holder[r] # None /\ HasNone(c)
    /\ holder' = [holder EXCEPT ![r] = c]
    /\ UNCHANGED <<lent, ended>>

End ==
    /\ ended' = TRUE
    /\ UNCHANGED <<lent, holder>>

Disappear(r) ==
    /\ ended /\ holder[r] # None
    /\ holder' = [holder EXCEPT ![r] = None]
    /\ UNCHANGED <<lent, ended>>

Next ==
    \/ \E r \in Resource :
        \/ GiveBack(r)
        \/ Disappear(r)
        \/ \E c \in Client : Lend(r, c) \/ HandOver(r, c)
    \/ End

Spec == Init /\ [][Next]_leaseVars
=============================================================================
