----------------------------- MODULE ProxyPool ------------------------------
(***************************************************************************)
(* The proxy pool with the goroutines that use it: callers that borrow     *)
(* one proxy for one network and give it back (AddClients and the client   *)
(* goroutines of the network managers), and the background refresher.      *)
(* Pool.mu is held inside one pool operation only, so EnsureAvailable and  *)
(* RefillIfNeeded, which call several of them, are broken up at each call. *)
(***************************************************************************)
EXTENDS Pool

CONSTANTS
    Caller,       \* goroutines that borrow proxies
    NetOf,        \* the network each caller works for
    MinPoolSize,  \* Pool.minPoolSize, 0 disables the refill
    MaxNeed,      \* bound on the count passed to EnsureAvailable
    NoAddr        \* the nil proxy

ASSUME NetOfAssumption == NetOf \in [Caller -> Network]
ASSUME NoAddrAssumption == NoAddr \notin Addr
ASSUME NeedAssumption == MaxNeed \in Nat \ {0} /\ MinPoolSize \in Nat

VARIABLES
    pool,         \* Pool.proxies, by address
    order,        \* order of the LastUsed times
    pc,           \* where each caller is
    lease,        \* the address each caller is using, or NoAddr
    ask,          \* locals of each caller's EnsureAvailable
    refresher,    \* where the StartRefresher goroutine is
    purgedInUse   \* history: addresses purged while a network still used them

callerVars == <<pc, lease, ask>>
poolVars   == <<pool, order>>
vars       == <<pool, order, pc, lease, ask, refresher, purgedInUse>>

MaxAttempts == 3   \* proxy.go, the constant of EnsureAvailable

Ask == [need : 0 .. MaxNeed, available : Nat, attempt : 0 .. MaxAttempts - 1]

NoAsk == [need |-> 0, available |-> 0, attempt |-> 0]

-----------------------------------------------------------------------------
(* Bot.Run fetches once before any network starts; that fetch may fail.    *)
Init ==
    /\ \E alive \in SUBSET Addr : pool = [a \in alive |-> Fresh]
    /\ order = {}
    /\ pc = [c \in Caller |-> "idle"]
    /\ lease = [c \in Caller |-> NoAddr]
    /\ ask = [c \in Caller |-> NoAsk]
    /\ refresher = "sleep"
    /\ purgedInUse = {}

(* The answer of the API lists any set of endpoints as alive.              *)
Fetch ==
    \E alive \in SUBSET Addr :
        /\ pool' = Fetched(pool, alive)
        /\ order' = FetchedOrder(pool, order)

-----------------------------------------------------------------------------
(* EnsureAvailable: first count, then up to three rounds of fetch, count.  *)
Ensure(c, k) ==
    LET now == AvailableForNetwork(pool, NetOf[c]) IN
    /\ pc[c] = "idle"
    /\ IF now >= k
       THEN /\ pc' = [pc EXCEPT ![c] = "acquire"]
            /\ UNCHANGED ask
       ELSE /\ pc' = [pc EXCEPT ![c] = "fetch"]
            /\ ask' = [ask EXCEPT ![c] =
                         [need |-> k, available |-> now, attempt |-> 0]]
    /\ UNCHANGED <<poolVars, lease, refresher, purgedInUse>>

(* The later acquisitions of one AddClients call do not ask again.         *)
AcquireNext(c) ==
    /\ pc[c] = "idle"
    /\ pc' = [pc EXCEPT ![c] = "acquire"]
    /\ UNCHANGED <<poolVars, lease, ask, refresher, purgedInUse>>

EnsureFetch(c) ==
    /\ pc[c] = "fetch"
    /\ Fetch
    /\ pc' = [pc EXCEPT ![c] = "recount"]
    /\ UNCHANGED <<lease, ask, refresher, purgedInUse>>

(* The error of the request is logged and the caller goes on to acquire.   *)
EnsureFetchFails(c) ==
    /\ pc[c] = "fetch"
    /\ pc' = [pc EXCEPT ![c] = "acquire"]
    /\ ask' = [ask EXCEPT ![c] = NoAsk]
    /\ UNCHANGED <<poolVars, lease, refresher, purgedInUse>>

EnsureRecount(c) ==
    LET now == AvailableForNetwork(pool, NetOf[c])
        again == /\ now < ask[c].need
                 /\ now > ask[c].available
                 /\ ask[c].attempt + 1 < MaxAttempts
    IN
    /\ pc[c] = "recount"
    /\ IF again
       THEN /\ pc' = [pc EXCEPT ![c] = "fetch"]
            /\ ask' = [ask EXCEPT ![c].available = now, ![c].attempt = @ + 1]
       ELSE /\ pc' = [pc EXCEPT ![c] = "acquire"]
            /\ ask' = [ask EXCEPT ![c] = NoAsk]
    /\ UNCHANGED <<poolVars, lease, refresher, purgedInUse>>

-----------------------------------------------------------------------------
(* AcquireForNetwork and ReleaseByAddressFromNetwork.                      *)
Acquire(c) ==
    \E a \in Candidates(pool, order, NetOf[c]) :
        /\ pc[c] = "acquire"
        /\ pool' = Acquired(pool, a, NetOf[c])
        /\ order' = AcquiredOrder(order, a)
        /\ lease' = [lease EXCEPT ![c] = a]
        /\ pc' = [pc EXCEPT ![c] = "using"]
        /\ UNCHANGED <<ask, refresher, purgedInUse>>

AcquireNil(c) ==
    /\ pc[c] = "acquire"
    /\ Candidates(pool, order, NetOf[c]) = {}
    /\ pc' = [pc EXCEPT ![c] = "idle"]
    /\ UNCHANGED <<poolVars, lease, ask, refresher, purgedInUse>>

Release(c, failed) ==
    LET a == lease[c] IN
    /\ pc[c] = "using"
    /\ pool' = Released(pool, a, NetOf[c], failed)
    /\ order' = ReleasedOrder(pool, order, a, failed)
    /\ purgedInUse' = IF Purges(pool, a, failed) /\ pool[a].networks \ {NetOf[c]} # {}
                      THEN purgedInUse \cup {a} ELSE purgedInUse
    /\ lease' = [lease EXCEPT ![c] = NoAddr]
    /\ pc' = [pc EXCEPT ![c] = "idle"]
    /\ UNCHANGED <<ask, refresher>>

-----------------------------------------------------------------------------
(* StartRefresher: on each tick a fetch, then RefillIfNeeded, whose count  *)
(* and whose fetch are separate critical sections.                         *)
RefreshTick ==
    /\ refresher = "sleep"
    /\ refresher' = "refill"
    /\ Fetch \/ UNCHANGED poolVars
    /\ UNCHANGED <<callerVars, purgedInUse>>

RefillIfNeeded ==
    /\ refresher = "refill"
    /\ refresher' = IF MinPoolSize > 0 /\ HealthyCount(pool) < MinPoolSize
                    THEN "fetch" ELSE "sleep"
    /\ UNCHANGED <<poolVars, callerVars, purgedInUse>>

RefillFetch ==
    /\ refresher = "fetch"
    /\ refresher' = "sleep"
    /\ Fetch \/ UNCHANGED poolVars
    /\ UNCHANGED <<callerVars, purgedInUse>>

-----------------------------------------------------------------------------
CallerStep(c) ==
    \/ \E k \in 1 .. MaxNeed : Ensure(c, k)
    \/ AcquireNext(c)
    \/ EnsureFetch(c)
    \/ EnsureFetchFails(c)
    \/ EnsureRecount(c)
    \/ Acquire(c)
    \/ AcquireNil(c)
    \/ \E failed \in BOOLEAN : Release(c, failed)

Next ==
    \/ \E c \in Caller : CallerStep(c)
    \/ RefreshTick
    \/ RefillIfNeeded
    \/ RefillFetch

Spec == Init /\ [][Next]_vars

-----------------------------------------------------------------------------
(* Shape of the state.  It also says that no loaded proxy has more failures *)
(* on record than MaxRetries allows (Entry).                               *)
TypeOK ==
    /\ PoolType(pool)
    /\ pc \in [Caller -> {"idle", "fetch", "recount", "acquire", "using"}]
    /\ lease \in [Caller -> Addr \cup {NoAddr}]
    /\ ask \in [Caller -> Ask]
    /\ refresher \in {"sleep", "refill", "fetch"}
    /\ purgedInUse \subseteq Addr

(* Failures add up only while some network keeps the proxy in use: one that  *)
(* may be handed out and that nobody uses has none on record.  A release    *)
(* that fails takes the proxy off the list of the healthy, and only a fetch *)
(* brings it back: with its count if another network still uses it, and     *)
(* without if not (proxy.go:248-277).  The count that proxy.go:163-164      *)
(* compares with the limit is therefore not that of consecutive failures.   *)
IdleIsForgiven ==
    \A a \in DOMAIN pool :
        pool[a].healthy /\ pool[a].fails > 0 => pool[a].networks # {}

Holds(c, a, n) == lease[c] = a /\ NetOf[c] = n

(* Nothing leaks: while the pool records that a proxy serves a network,    *)
(* some caller really uses it there and will release it.                   *)
NoLeakedMark ==
    \A a \in Addr, n \in Network :
        Marked(pool, a, n) => \E c \in Caller : Holds(c, a, n)

(* AcquireForNetwork never hands out a proxy that already serves the       *)
(* network: two callers share a proxy on one network only if the pool had  *)
(* purged that proxy while another network was using it.                   *)
ExclusiveUnlessPurged ==
    \A a \in Addr \ purgedInUse, n \in Network : \A c, d \in Caller :
        Holds(c, a, n) /\ Holds(d, a, n) => c = d

(* The record of a proxy in use is only touched on behalf of its users: a  *)
(* step in which none of them releases it keeps the entry, all its         *)
(* networks and its failure count, however many fetches land meanwhile.    *)
InUsePreserved ==
    [][\A a \in InUse(pool) :
         (\A c \in Caller : lease[c] = a => lease'[c] = a) =>
            /\ a \in DOMAIN pool'
            /\ pool[a].networks \subseteq pool'[a].networks
            /\ pool'[a].fails = pool[a].fails]_vars

(* A release only ends the releaser's own use of the proxy.  Another       *)
(* network loses it only through a purge, when the failure count was       *)
(* already at the limit.                                                   *)
OthersKeepTheirMarks ==
    [][\A c \in Caller, a \in Addr, n \in Network :
         /\ lease[c] = a /\ lease'[c] # a
         /\ n # NetOf[c]
         /\ Marked(pool, a, n) /\ ~ Marked(pool', a, n)
         => pool[a].fails = MaxRetries]_vars

-----------------------------------------------------------------------------
(* The pool implements leases that are exclusive on each network; those of *)
(* a proxy that was purged in use are forfeited for good.                  *)
Held == [c \in Caller |-> IF lease[c] \in purgedInUse THEN NoAddr ELSE lease[c]]

Leases == INSTANCE ProxyLeases WITH Resource <- Addr, Client <- Caller,
                                    None <- NoAddr, held <- Held
LeaseSpec == Leases!Spec
=============================================================================
