-------------------------------- MODULE Pool --------------------------------
(***************************************************************************)
(* The operations of the shared proxy pool (internal/proxy/proxy.go) when  *)
(* proxies come from the proxy-scanner API.  Every operation of the code   *)
(* runs under Pool.mu, so each is one function from pool to pool here; the *)
(* modules that extend this one interleave them.                           *)
(*                                                                         *)
(* A pool maps the address of each loaded proxy to its entry.  The second  *)
(* piece of state, order, stands for the LastUsed times: it relates b to a *)
(* if LastUsed of b is no later than that of a and neither is zero.        *)
(*                                                                         *)
(* Assumed of the API: one answer lists an endpoint at most once, so an    *)
(* address identifies an entry.  Country, UseCount, LastFail and the       *)
(* credentials are data that no decision of the code reads.                *)
(***************************************************************************)
EXTENDS Naturals, FiniteSets

CONSTANTS
    Addr,        \* endpoints the API may list
    Network,     \* IRC networks that borrow proxies
    MaxRetries   \* failures a proxy survives: Pool.maxRetries

ASSUME AddrAssumption == IsFiniteSet(Addr)
ASSUME MaxRetriesAssumption == MaxRetries \in Nat

-----------------------------------------------------------------------------
(* Entries and what is read from them.                                     *)

Entry == [healthy : BOOLEAN, networks : SUBSET Network, fails : 0 .. MaxRetries]

PoolType(pool) == DOMAIN pool \subseteq Addr /\ pool \in [DOMAIN pool -> Entry]

Fresh == [healthy |-> TRUE, networks |-> {}, fails |-> 0]

InUse(pool) == {a \in DOMAIN pool : pool[a].networks # {}}

Marked(pool, a, n) == a \in DOMAIN pool /\ n \in pool[a].networks

Available(pool, n) ==
    {a \in DOMAIN pool : pool[a].healthy /\ n \notin pool[a].networks}

AvailableForNetwork(pool, n) == Cardinality(Available(pool, n))

HealthyCount(pool) == Cardinality({a \in DOMAIN pool : pool[a].healthy})

(* LastUsed is set, of a; and that of b lies before that of a.             *)
Used(order) == {a \in Addr : <<a, a>> \in order}

UsedBefore(order, b, a) == <<a, a>> \in order /\ <<a, b>> \notin order

(* What AcquireForNetwork may return: ties between entries that were never *)
(* used go to the order of the API's answer, which is arbitrary.           *)
Candidates(pool, order, n) ==
    {a \in Available(pool, n) :
        \A b \in Available(pool, n) : ~ UsedBefore(order, b, a)}

-----------------------------------------------------------------------------
(* FetchFromAPI, once the answer is decoded: in-use proxies are kept with  *)
(* their networks and failures, healthy only if the API lists them alive;  *)
(* every other entry is forgotten and each new address starts fresh.       *)
Relisted(px, listed) ==
    [healthy |-> listed, networks |-> px.networks, fails |-> px.fails]

\* Faulty variant: an in-use proxy the API no longer lists is dropped.
FetchedDroppingUnlisted(pool, alive) ==
    [a \in alive |->
        IF a \in InUse(pool) THEN Relisted(pool[a], TRUE) ELSE Fresh]

\* Faulty variant: listed proxies are rebuilt even when they are in use.
FetchedRebuilding(pool, alive) ==
    [a \in alive \cup InUse(pool) |->
        IF a \in alive THEN Fresh ELSE Relisted(pool[a], FALSE)]

Fetched(pool, alive) ==
    [a \in alive \cup InUse(pool) |->
        IF a \in InUse(pool) THEN Relisted(pool[a], a \in alive) ELSE Fresh]

FetchedOrder(pool, order) == order \cap (InUse(pool) \X InUse(pool))

-----------------------------------------------------------------------------
(* What forgets the time of the entry a, or replaces it.                   *)
RemovedOrder(order, a) == order \cap ((Addr \ {a}) \X (Addr \ {a}))

(* AcquireForNetwork, once the entry a is chosen.                          *)
Borrowed(px, n) ==
    [healthy |-> px.healthy, networks |-> px.networks \cup {n}, fails |-> px.fails]

\* Faulty variant: the assignment to the network is not recorded.
AcquiredUnmarked(pool, a, n) == pool

Acquired(pool, a, n) == [pool EXCEPT ![a] = Borrowed(pool[a], n)]

AcquiredOrder(order, a) ==
    RemovedOrder(order, a) \cup ((Used(order) \cup {a}) \X {a})

-----------------------------------------------------------------------------
(* removeProxyLocked.                                                      *)
Removed(pool, a) == [b \in DOMAIN pool \ {a} |-> pool[b]]

(* A failed release that takes FailCount over the limit purges the entry.  *)
\* Faulty variant: the limit is compared before the failure is counted.
PurgesLate(pool, a, failed) ==
    /\ failed
    /\ a \in DOMAIN pool
    /\ pool[a].fails > MaxRetries

Purges(pool, a, failed) ==
    /\ failed
    /\ a \in DOMAIN pool
    /\ pool[a].fails + 1 > MaxRetries

\* Faulty variant: the network stays recorded on a failed release.
ReturnedStillMarked(px, n, failed) ==
    IF failed
    THEN [healthy |-> FALSE, networks |-> px.networks, fails |-> px.fails + 1]
    ELSE [healthy |-> px.healthy, networks |-> px.networks \ {n}, fails |-> 0]

\* Faulty variant: a successful use leaves the failures counted.
ReturnedUnforgiven(px, n, failed) ==
    [healthy |-> px.healthy /\ ~ failed,
     networks |-> px.networks \ {n},
     fails |-> IF failed THEN px.fails + 1 ELSE px.fails]

Returned(px, n, failed) ==
    IF failed
    THEN [healthy |-> FALSE, networks |-> px.networks \ {n}, fails |-> px.fails + 1]
    ELSE [healthy |-> px.healthy, networks |-> px.networks \ {n}, fails |-> 0]

(* ReleaseByAddressFromNetwork: nothing when no entry has this address.    *)
Released(pool, a, n, failed) ==
    IF a \notin DOMAIN pool THEN pool
    ELSE IF Purges(pool, a, failed) THEN Removed(pool, a)
    ELSE [pool EXCEPT ![a] = Returned(pool[a], n, failed)]

ReleasedOrder(pool, order, a, failed) ==
    IF Purges(pool, a, failed) THEN RemovedOrder(order, a) ELSE order
=============================================================================
