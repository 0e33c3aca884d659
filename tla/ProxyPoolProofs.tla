-------------------------- MODULE ProxyPoolProofs ---------------------------
(***************************************************************************)
(* Proofs about ProxyPool, for every set of addresses, networks and        *)
(* callers and every MaxRetries.  The inductive invariant ties the two     *)
(* records of a loan together: the networks of the pool's entries and the  *)
(* addresses the callers remember.                                         *)
(***************************************************************************)
EXTENDS ProxyPool, PoolProofs

-----------------------------------------------------------------------------
(* Type correctness.                                                       *)

LEMMA InitTypeOK == Init => TypeOK
<1> SUFFICES ASSUME Init PROVE TypeOK
  OBVIOUS
<1>1. PoolType(pool)
  BY MaxRetriesAssumption DEF Init, PoolType, Fresh, Entry
<1>3. ask \in [Caller -> Ask]
  BY NeedAssumption DEF Init, NoAsk, Ask, MaxAttempts
<1> QED
  BY <1>1, <1>3 DEF Init, TypeOK

(* The effect of a fetch on the types, for the actions that contain one.   *)
LEMMA FetchTypeOK ==
    ASSUME PoolType(pool), Fetch
    PROVE  PoolType(pool')
  BY FetchedFacts DEF Fetch

LEMMA NextTypeOK == TypeOK /\ [Next]_vars => TypeOK'
<1> SUFFICES ASSUME TypeOK, [Next]_vars PROVE TypeOK'
  OBVIOUS
<1> USE DEF TypeOK
<1>0. NoAsk \in Ask
  BY NeedAssumption DEF NoAsk, Ask, MaxAttempts
<1>1. ASSUME NEW c \in Caller, NEW k \in 1 .. MaxNeed, Ensure(c, k)
      PROVE  TypeOK'
  <2>1. [need |-> k, available |-> AvailableForNetwork(pool, NetOf[c]),
         attempt |-> 0] \in Ask
    BY CountIsNat, NeedAssumption DEF Ask, MaxAttempts
  <2> QED
    BY <1>1, <2>1 DEF Ensure, poolVars
<1>2. ASSUME NEW c \in Caller, AcquireNext(c) PROVE TypeOK'
  BY <1>2 DEF AcquireNext, poolVars
<1>3. ASSUME NEW c \in Caller, EnsureFetch(c) PROVE TypeOK'
  BY <1>3, FetchTypeOK DEF EnsureFetch
<1>4. ASSUME NEW c \in Caller, EnsureFetchFails(c) PROVE TypeOK'
  BY <1>0, <1>4 DEF EnsureFetchFails, poolVars
<1>5. ASSUME NEW c \in Caller, EnsureRecount(c) PROVE TypeOK'
  <2>1. ask' \in [Caller -> Ask]
    <3>1. CASE ask' = [ask EXCEPT ![c] = NoAsk]
      BY <1>0, <3>1
    <3>2. CASE /\ ask[c].attempt + 1 < MaxAttempts
               /\ ask' = [ask EXCEPT
                     ![c].available = AvailableForNetwork(pool, NetOf[c]),
                     ![c].attempt = @ + 1]
      <4>1. ask[c] \in Ask
        OBVIOUS
      <4>2. ask[c].attempt + 1 \in 0 .. MaxAttempts - 1
        BY <3>2, <4>1 DEF Ask, MaxAttempts
      <4> QED
        BY <3>2, <4>1, <4>2, CountIsNat DEF Ask
    <3> QED
      BY <1>5, <3>1, <3>2 DEF EnsureRecount
  <2> QED
    BY <1>5, <2>1 DEF EnsureRecount, poolVars
<1>6. ASSUME NEW c \in Caller, Acquire(c) PROVE TypeOK'
  <2> PICK a \in Candidates(pool, order, NetOf[c]) :
        /\ pool' = Acquired(pool, a, NetOf[c])
        /\ lease' = [lease EXCEPT ![c] = a]
        /\ pc' = [pc EXCEPT ![c] = "using"]
        /\ UNCHANGED <<ask, refresher, purgedInUse>>
    BY <1>6 DEF Acquire
  <2>1. a \in DOMAIN pool /\ a \in Addr
    BY DEF Candidates, Available, PoolType
  <2>2. PoolType(pool')
    BY <2>1, AcquiredFacts, NetOfAssumption
  <2> QED
    BY <2>1, <2>2
<1>7. ASSUME NEW c \in Caller, AcquireNil(c) PROVE TypeOK'
  BY <1>7 DEF AcquireNil, poolVars
<1>8. ASSUME NEW c \in Caller, NEW failed \in BOOLEAN, Release(c, failed)
      PROVE  TypeOK'
  <2>1. PoolType(pool')
    BY <1>8, ReleasedFacts, NetOfAssumption DEF Release
  <2>3. purgedInUse' \subseteq Addr
    BY <1>8 DEF Release, Purges, PoolType
  <2> QED
    BY <1>8, <2>1, <2>3 DEF Release
<1>9. CASE RefreshTick
  BY <1>9, FetchTypeOK DEF RefreshTick, poolVars, callerVars
<1>10. CASE RefillIfNeeded
  BY <1>10 DEF RefillIfNeeded, poolVars, callerVars
<1>11. CASE RefillFetch
  BY <1>11, FetchTypeOK DEF RefillFetch, poolVars, callerVars
<1>12. CASE UNCHANGED vars
  BY <1>12 DEF vars
<1> QED
  BY <1>1, <1>2, <1>3, <1>4, <1>5, <1>6, <1>7, <1>8, <1>9, <1>10, <1>11, <1>12
     DEF Next, CallerStep

(* The state always has its shape; in particular no loaded proxy has more  *)
(* failures on record than MaxRetries.                                     *)
THEOREM TypeCorrect == Spec => []TypeOK
  BY InitTypeOK, NextTypeOK, PTL DEF Spec

-----------------------------------------------------------------------------
(* The order of use: the LastUsed times order the proxies that have one,   *)
(* each proxy in use has one, and none outlives its proxy's entry.         *)

TotalOrder(R, S) ==
    /\ R \subseteq S \X S
    /\ \A a, b \in S : <<a, b>> \in R \/ <<b, a>> \in R
    /\ \A a, b \in S : <<a, b>> \in R /\ <<b, a>> \in R => a = b
    /\ \A a, b, c \in S : <<a, b>> \in R /\ <<b, c>> \in R => <<a, c>> \in R

OrderOfUseOK ==
    /\ InUse(pool) \subseteq Used(order) /\ Used(order) \subseteq DOMAIN pool
    /\ TotalOrder(order, Used(order))

Ordered(R) == TotalOrder(R, Used(R))

LEMMA RestrictedOrder ==
    ASSUME NEW R, Ordered(R), NEW S \in SUBSET Addr
    PROVE  /\ Used(R \cap (S \X S)) = Used(R) \cap S
           /\ Ordered(R \cap (S \X S))
<1> DEFINE Q == R \cap (S \X S)
<1>1. \A a, b : <<a, b>> \in Q <=> <<a, b>> \in R /\ a \in S /\ b \in S
  OBVIOUS
<1>2. Used(Q) = Used(R) \cap S
  BY <1>1 DEF Used
<1>3. Q \subseteq Used(Q) \X Used(Q)
  BY <1>2 DEF Ordered, TotalOrder
<1> HIDE DEF Q
<1>4. TotalOrder(Q, Used(Q))
  BY <1>1, <1>2, <1>3 DEF Ordered, TotalOrder
<1> QED
  BY <1>2, <1>4 DEF Ordered, Q

LEMMA ExtendedOrder ==
    ASSUME NEW R, Ordered(R), NEW a \in Addr
    PROVE  /\ Used(AcquiredOrder(R, a)) = Used(R) \cup {a}
           /\ Ordered(AcquiredOrder(R, a))
<1> DEFINE Q == AcquiredOrder(R, a)
<1>1. \A b, c : <<b, c>> \in Q <=> \/ <<b, c>> \in R /\ b # a /\ c # a
                                   \/ c = a /\ b \in Used(R) \cup {a}
  <2>1. \A b, c : <<b, c>> \in R => b \in Addr /\ c \in Addr
    BY DEF Ordered, TotalOrder, Used
  <2> QED
    BY <2>1 DEF AcquiredOrder, RemovedOrder
<1>2. Used(Q) = Used(R) \cup {a}
  BY <1>1 DEF Used
<1>3. Q \subseteq Used(Q) \X Used(Q)
  <2>1. R \subseteq Used(R) \X Used(R)
    BY DEF Ordered, TotalOrder
  <2> QED
    BY <1>2, <2>1 DEF AcquiredOrder, RemovedOrder
<1> HIDE DEF Q
<1>4. \A b, c \in Used(Q) : <<b, c>> \in Q \/ <<c, b>> \in Q
  BY <1>1, <1>2 DEF Ordered, TotalOrder
<1>5. \A b, c \in Used(Q) : <<b, c>> \in Q /\ <<c, b>> \in Q => b = c
  BY <1>1, <1>2 DEF Ordered, TotalOrder
<1>6. \A b, c, d \in Used(Q) : <<b, c>> \in Q /\ <<c, d>> \in Q => <<b, d>> \in Q
  BY <1>1, <1>2 DEF Ordered, TotalOrder
<1> QED
  BY <1>2, <1>3, <1>4, <1>5, <1>6 DEF Ordered, TotalOrder, Q

OrderInv == TypeOK /\ OrderOfUseOK

LEMMA InitOrder == Init => OrderOfUseOK
<1> SUFFICES ASSUME Init PROVE OrderOfUseOK
  OBVIOUS
<1>1. Used(order) = {} /\ InUse(pool) = {}
  BY DEF Init, Used, InUse, Fresh
<1> QED
  BY <1>1 DEF Init, OrderOfUseOK, TotalOrder

(* A fetch keeps the times of the proxies in use and of no other.          *)
LEMMA FetchOrder ==
    ASSUME OrderInv, Fetch
    PROVE  OrderOfUseOK'
<1>1. PICK alive \in SUBSET Addr : /\ pool' = Fetched(pool, alive)
                                   /\ order' = FetchedOrder(pool, order)
  BY DEF Fetch
<1>2. PoolType(pool) /\ InUse(pool) \subseteq Addr
  BY DEF OrderInv, TypeOK, PoolType, InUse
<1>3. /\ Used(order') = Used(order) \cap InUse(pool)
      /\ Ordered(order')
  BY <1>1, <1>2, RestrictedOrder DEF FetchedOrder, OrderInv, OrderOfUseOK, Ordered
<1>4. InUse(pool') = InUse(pool) /\ InUse(pool) \subseteq DOMAIN pool'
  <2>1. \A a, n : Marked(pool', a, n) <=> Marked(pool, a, n)
    BY <1>1, <1>2, FetchedFacts
  <2>2. \A a : a \in InUse(pool) <=> \E n : Marked(pool, a, n)
    BY DEF InUse, Marked
  <2>3. \A a : a \in InUse(pool') <=> \E n : Marked(pool', a, n)
    BY DEF InUse, Marked
  <2>4. InUse(pool') = InUse(pool)
    BY <2>1, <2>2, <2>3
  <2> QED
    BY <2>4 DEF InUse
<1> QED
  BY <1>3, <1>4 DEF OrderInv, OrderOfUseOK, Ordered

LEMMA AcquireOrder ==
    ASSUME OrderInv, NEW c \in Caller, Acquire(c)
    PROVE  OrderOfUseOK'
<1>1. PICK a \in Candidates(pool, order, NetOf[c]) :
        pool' = Acquired(pool, a, NetOf[c]) /\ order' = AcquiredOrder(order, a)
  BY DEF Acquire
<1>2. PoolType(pool) /\ a \in DOMAIN pool /\ a \in Addr /\ NetOf[c] \in Network
  BY NetOfAssumption DEF OrderInv, TypeOK, PoolType, Candidates, Available
<1>3. Used(order') = Used(order) \cup {a} /\ Ordered(order')
  BY <1>1, <1>2, ExtendedOrder DEF OrderInv, OrderOfUseOK, Ordered
<1>4. DOMAIN pool' = DOMAIN pool /\ InUse(pool') \subseteq InUse(pool) \cup {a}
  BY <1>1, <1>2, AcquiredFacts DEF InUse, Marked
<1> QED
  BY <1>2, <1>3, <1>4 DEF OrderInv, OrderOfUseOK, Ordered

LEMMA ReleaseOrder ==
    ASSUME OrderInv, NEW c \in Caller, NEW failed \in BOOLEAN, Release(c, failed)
    PROVE  OrderOfUseOK'
<1> DEFINE a == lease[c]
<1>1. /\ pool' = Released(pool, a, NetOf[c], failed)
      /\ order' = ReleasedOrder(pool, order, a, failed)
      /\ PoolType(pool) /\ NetOf[c] \in Network
  BY NetOfAssumption DEF Release, OrderInv, TypeOK
<1>2. InUse(pool') \subseteq InUse(pool)
  BY <1>1, ReleasedFacts DEF InUse, Marked
<1>3. CASE Purges(pool, a, failed)
  <2>1. DOMAIN pool' = DOMAIN pool \ {a} /\ a \in DOMAIN pool
    BY <1>1, <1>3 DEF Released, Removed, Purges
  <2>2. Used(order') = Used(order) \cap (Addr \ {a}) /\ Ordered(order')
    BY <1>1, <1>3, RestrictedOrder DEF ReleasedOrder, RemovedOrder, OrderInv, OrderOfUseOK, Ordered
  <2> QED
    BY <1>1, <1>2, <2>1, <2>2 DEF OrderInv, OrderOfUseOK, Ordered, InUse, PoolType
<1>4. CASE ~ Purges(pool, a, failed)
  <2>1. DOMAIN pool' = DOMAIN pool /\ order' = order
    BY <1>1, <1>4 DEF Released, ReleasedOrder
  <2> QED
    BY <1>2, <2>1 DEF OrderInv, OrderOfUseOK
<1> QED
  BY <1>3, <1>4

LEMMA NextOrder == OrderInv /\ [Next]_vars => OrderInv'
<1> SUFFICES ASSUME OrderInv, [Next]_vars PROVE OrderOfUseOK'
  BY NextTypeOK DEF OrderInv
<1>1. CASE UNCHANGED poolVars
  BY <1>1 DEF poolVars, OrderInv, OrderOfUseOK
<1> QED
  BY <1>1, FetchOrder, AcquireOrder, ReleaseOrder
     DEF Next, CallerStep, Ensure, AcquireNext, EnsureFetch, EnsureFetchFails,
         EnsureRecount, AcquireNil, RefreshTick, RefillIfNeeded, RefillFetch,
         vars, poolVars

(* So the search of AcquireForNetwork for the least recently used proxy    *)
(* ends with one if any is available: among the sets of available proxies  *)
(* used before an available one there is a least, and it is empty.         *)
LEMMA SomeCandidate ==
    ASSUME OrderInv, NEW n, Available(pool, n) # {}
    PROVE  Candidates(pool, order, n) # {}
<1> DEFINE S == Available(pool, n)
           Before(a) == {b \in S : UsedBefore(order, b, a)}
           T == {Before(a) : a \in S}
<1>1. S \subseteq Addr /\ S # {}
  BY DEF Available, OrderInv, TypeOK, PoolType
<1> HIDE DEF S
<1>2. T \subseteq FiniteSubsetsOf(Addr)
  BY <1>1, AddrAssumption, FS_FiniteSubsetsOfFinite
<1>3. IsWellFoundedOn(StrictSubsetOrdering(Addr), FiniteSubsetsOf(Addr))
  BY FS_StrictSubsetOrderingWellFounded
<1>4. T # {}
  BY <1>1
<1> HIDE DEF T
<1>5. PICK X \in T : \A Y \in T : <<Y, X>> \notin StrictSubsetOrdering(Addr)
  BY <1>2, <1>3, <1>4, WFMin
<1>6. PICK a \in S : X = Before(a)
  BY <1>5 DEF T
<1>7. ASSUME NEW b \in Before(a) PROVE FALSE
  <2>1. b \in S /\ <<a, a>> \in order /\ <<a, b>> \notin order
    BY <1>7 DEF UsedBefore
  <2>2. CASE <<b, b>> \notin order       \* nothing was used before b
    <3>1. Before(b) = {}
      BY <2>2 DEF UsedBefore
    <3>2. <<Before(b), Before(a)>> \in StrictSubsetOrdering(Addr)
      BY <1>1, <1>7, <3>1 DEF StrictSubsetOrdering
    <3> QED
      BY <1>5, <1>6, <2>1, <3>2 DEF T
  <2>3. CASE <<b, b>> \in order
    <3>1. ASSUME NEW x \in Before(b) PROVE x \in Before(a)
      <4>1. x \in S /\ <<b, x>> \notin order
        BY <3>1 DEF UsedBefore
      <4>2. ASSUME <<a, x>> \in order PROVE FALSE
        <5>1. a \in Used(order) /\ x \in Used(order) /\ b \in Used(order)
          BY <1>1, <1>6, <2>1, <2>3, <4>2 DEF Used, OrderInv, OrderOfUseOK, TotalOrder
        <5> QED
          BY <2>1, <4>1, <4>2, <5>1 DEF OrderInv, OrderOfUseOK, TotalOrder
      <4> QED
        BY <2>1, <4>1, <4>2 DEF UsedBefore
    <3>2. b \notin Before(b)
      BY <2>3 DEF UsedBefore
    <3>3. <<Before(b), Before(a)>> \in StrictSubsetOrdering(Addr)
      BY <1>1, <1>7, <3>1, <3>2 DEF StrictSubsetOrdering
    <3> QED
      BY <1>5, <1>6, <2>1, <3>3 DEF T
  <2> QED
    BY <2>2, <2>3
<1>8. \A b \in S : ~ UsedBefore(order, b, a)
  BY <1>7
<1> QED
  BY <1>6, <1>8 DEF Candidates, S

(* A caller is told that there is no proxy only if none is available.      *)
THEOREM NilMeansNone ==
    Spec => [][\A c \in Caller : AcquireNil(c) => Available(pool, NetOf[c]) = {}]_vars
<1>1. OrderInv /\ [Next]_vars =>
        [\A c \in Caller : AcquireNil(c) => Available(pool, NetOf[c]) = {}]_vars
  BY SomeCandidate DEF AcquireNil
<1>2. Init => OrderInv
  BY InitTypeOK, InitOrder DEF OrderInv
<1> QED
  BY <1>1, <1>2, NextOrder, PTL DEF Spec

-----------------------------------------------------------------------------
(* Who uses which proxy.  ExclusiveUnlessPurged is not inductive: that an  *)
(* available proxy has no user on the network follows only from            *)
(* HoldersMarked, and HoldersMarked survives a release only because the    *)
(* releaser was the proxy's one user on that network.                      *)

UsingHasLease == \A c \in Caller : pc[c] = "using" <=> lease[c] # NoAddr

HoldersMarked ==
    \A c \in Caller : lease[c] \in Addr \ purgedInUse
                        => Marked(pool, lease[c], NetOf[c])

LeaseInv ==
    /\ TypeOK
    /\ UsingHasLease
    /\ NoLeakedMark
    /\ HoldersMarked
    /\ ExclusiveUnlessPurged

LEMMA InitLeaseInv == Init => LeaseInv
<1> SUFFICES ASSUME Init PROVE LeaseInv
  OBVIOUS
<1>1. \A a, n : ~ Marked(pool, a, n)
  BY DEF Init, Marked, Fresh
<1>2. \A c \in Caller : lease[c] = NoAddr /\ pc[c] = "idle"
  BY DEF Init
<1> QED
  BY <1>1, <1>2, InitTypeOK, NoAddrAssumption
     DEF LeaseInv, UsingHasLease, NoLeakedMark, HoldersMarked,
         ExclusiveUnlessPurged, Holds

(* Steps that move no mark and no lease.                                   *)
LEMMA QuietStep ==
    ASSUME LeaseInv, TypeOK', UNCHANGED <<lease, purgedInUse>>,
           \A a, n : Marked(pool', a, n) <=> Marked(pool, a, n),
           \A c \in Caller : pc'[c] = "using" <=> pc[c] = "using"
    PROVE  LeaseInv'
<1>1. UsingHasLease'
  BY DEF LeaseInv, UsingHasLease
<1>2. NoLeakedMark'
  <2>1. \A a, n : Marked(pool, a, n)' <=> Marked(pool', a, n)
    BY DEF Marked
  <2> QED
    BY <2>1 DEF LeaseInv, NoLeakedMark, Holds
<1>3. HoldersMarked'
  BY DEF LeaseInv, HoldersMarked, Marked
<1>4. ExclusiveUnlessPurged'
  BY DEF LeaseInv, ExclusiveUnlessPurged, Holds
<1> QED
  BY <1>1, <1>2, <1>3, <1>4 DEF LeaseInv

LEMMA FetchMarks ==
    ASSUME PoolType(pool), Fetch \/ UNCHANGED pool
    PROVE  \A a, n : Marked(pool', a, n) <=> Marked(pool, a, n)
  BY FetchedFacts DEF Fetch

LEMMA NextLeaseInv == LeaseInv /\ [Next]_vars => LeaseInv'
<1> SUFFICES ASSUME LeaseInv, [Next]_vars PROVE LeaseInv'
  OBVIOUS
<1>1. TypeOK /\ TypeOK'
  BY NextTypeOK DEF LeaseInv
<1>2. ASSUME NEW c \in Caller, Acquire(c) PROVE LeaseInv'
  <2> PICK a \in Candidates(pool, order, NetOf[c]) :
        /\ pc[c] = "acquire"
        /\ pool' = Acquired(pool, a, NetOf[c])
        /\ lease' = [lease EXCEPT ![c] = a]
        /\ pc' = [pc EXCEPT ![c] = "using"]
        /\ UNCHANGED <<ask, refresher, purgedInUse>>
    BY <1>2 DEF Acquire
  <2>1. /\ a \in DOMAIN pool /\ a \in Addr
        /\ ~ Marked(pool, a, NetOf[c])
    BY <1>1 DEF Candidates, Available, Marked, TypeOK, PoolType
  <2>2. \A b, n : Marked(pool', b, n)
                    <=> (Marked(pool, b, n) \/ (b = a /\ n = NetOf[c]))
    BY <1>1, <2>1, AcquiredFacts, NetOfAssumption DEF TypeOK
  <2>3. /\ lease[c] = NoAddr /\ lease'[c] = a
        /\ \A d \in Caller \ {c} : lease'[d] = lease[d] /\ pc'[d] = pc[d]
        /\ pc'[c] = "using"
    BY <1>1 DEF TypeOK, LeaseInv, UsingHasLease
  <2>4. UsingHasLease'
    BY <2>1, <2>3, NoAddrAssumption DEF LeaseInv, UsingHasLease
  <2>5. NoLeakedMark'
    <3> SUFFICES ASSUME NEW b \in Addr, NEW n \in Network, Marked(pool', b, n)
                 PROVE  \E d \in Caller : lease'[d] = b /\ NetOf[d] = n
      BY DEF NoLeakedMark, Holds, Marked
    <3>1. CASE b = a /\ n = NetOf[c]
      BY <2>3, <3>1
    <3>2. CASE Marked(pool, b, n)
      <4>1. PICK d \in Caller : lease[d] = b /\ NetOf[d] = n
        BY <3>2 DEF LeaseInv, NoLeakedMark, Holds
      <4> QED
        BY <2>3, <4>1, NoAddrAssumption
    <3> QED
      BY <2>2, <3>1, <3>2
  <2>6. HoldersMarked'
    <3> SUFFICES ASSUME NEW d \in Caller, lease'[d] \in Addr \ purgedInUse
                 PROVE  Marked(pool', lease'[d], NetOf[d])
      BY DEF HoldersMarked, Marked
    <3>1. CASE d = c
      BY <2>2, <2>3, <3>1
    <3>2. CASE d # c
      BY <2>2, <2>3, <3>2 DEF LeaseInv, HoldersMarked
    <3> QED
      BY <3>1, <3>2
  <2>7. ExclusiveUnlessPurged'
    <3> SUFFICES ASSUME NEW b \in Addr \ purgedInUse, NEW n \in Network,
                        NEW d \in Caller, NEW e \in Caller,
                        lease'[d] = b, NetOf[d] = n,
                        lease'[e] = b, NetOf[e] = n
                 PROVE  d = e
      BY DEF ExclusiveUnlessPurged, Holds
    <3>1. ASSUME NEW f \in Caller \ {c}, lease[f] = a, a \notin purgedInUse
          PROVE  NetOf[f] # NetOf[c]
      BY <2>1, <3>1 DEF LeaseInv, HoldersMarked
    <3> QED
      BY <2>3, <3>1 DEF LeaseInv, ExclusiveUnlessPurged, Holds
  <2> QED
    BY <1>1, <2>4, <2>5, <2>6, <2>7 DEF LeaseInv
<1>3. ASSUME NEW c \in Caller, NEW failed \in BOOLEAN, Release(c, failed)
      PROVE  LeaseInv'
  <2> DEFINE a == lease[c]
  <2>1. a \in Addr
    BY <1>1, <1>3 DEF Release, TypeOK, LeaseInv, UsingHasLease
  <2>2. \A b, n : Marked(pool', b, n)
          <=> /\ Marked(pool, b, n)
              /\ ~ (b = a /\ (n = NetOf[c] \/ Purges(pool, a, failed)))
    <3>1. PoolType(pool) /\ NetOf[c] \in Network
      BY <1>1, NetOfAssumption DEF TypeOK
    <3>2. pool' = Released(pool, a, NetOf[c], failed)
      BY <1>3 DEF Release
    <3>3. \A b, n : Marked(Released(pool, a, NetOf[c], failed), b, n)
            <=> /\ Marked(pool, b, n)
                /\ ~ (b = a /\ (n = NetOf[c] \/ Purges(pool, a, failed)))
      BY <3>1, ReleasedFacts
    <3> QED
      BY <3>2, <3>3
  <2>3. /\ lease'[c] = NoAddr /\ pc'[c] = "idle"
        /\ \A d \in Caller \ {c} : lease'[d] = lease[d] /\ pc'[d] = pc[d]
    BY <1>1, <1>3 DEF Release, TypeOK
  <2>4. purgedInUse \subseteq purgedInUse'
    BY <1>3 DEF Release
  <2>5. UsingHasLease'
    BY <2>3 DEF LeaseInv, UsingHasLease
  <2>6. NoLeakedMark'
    <3> SUFFICES ASSUME NEW b \in Addr, NEW n \in Network, Marked(pool', b, n)
                 PROVE  \E d \in Caller : lease'[d] = b /\ NetOf[d] = n
      BY DEF NoLeakedMark, Holds, Marked
    <3>1. PICK d \in Caller : lease[d] = b /\ NetOf[d] = n
      BY <2>2 DEF LeaseInv, NoLeakedMark, Holds
    <3>2. d # c
      BY <2>2, <3>1
    <3> QED
      BY <2>3, <3>1, <3>2
  <2>7. HoldersMarked'
    <3> SUFFICES ASSUME NEW d \in Caller, lease'[d] \in Addr \ purgedInUse'
                 PROVE  Marked(pool', lease'[d], NetOf[d])
      BY DEF HoldersMarked, Marked
    <3>1. d # c /\ lease'[d] = lease[d] /\ lease[d] \in Addr \ purgedInUse
      BY <2>3, <2>4, NoAddrAssumption
    <3>2. Marked(pool, lease[d], NetOf[d])
      BY <3>1 DEF LeaseInv, HoldersMarked
    <3>3. CASE lease[d] = a
      <4>1. NetOf[d] # NetOf[c]
        BY <3>1, <3>3, NetOfAssumption DEF LeaseInv, ExclusiveUnlessPurged, Holds
      <4>2. ~ Purges(pool, a, failed)
        <5>1. ASSUME Purges(pool, a, failed) PROVE FALSE
          <6>1. NetOf[d] \in pool[a].networks \ {NetOf[c]}
            BY <3>2, <3>3, <4>1 DEF Marked
          <6>2. purgedInUse' = purgedInUse \cup {a}
            BY <1>3, <5>1, <6>1 DEF Release
          <6> QED
            BY <3>1, <3>3, <6>2
        <5> QED
          BY <5>1
      <4> QED
        BY <2>2, <3>1, <3>2, <4>1, <4>2
    <3>4. CASE lease[d] # a
      BY <2>2, <3>1, <3>2, <3>4
    <3> QED
      BY <3>3, <3>4
  <2>8. ExclusiveUnlessPurged'
    <3> SUFFICES ASSUME NEW b \in Addr \ purgedInUse', NEW n \in Network,
                        NEW d \in Caller, NEW e \in Caller,
                        lease'[d] = b, NetOf[d] = n,
                        lease'[e] = b, NetOf[e] = n
                 PROVE  d = e
      BY DEF ExclusiveUnlessPurged, Holds
    <3>1. d # c /\ e # c
      BY <2>3, NoAddrAssumption
    <3> QED
      BY <2>3, <2>4, <3>1 DEF LeaseInv, ExclusiveUnlessPurged, Holds
  <2> QED
    BY <1>1, <2>5, <2>6, <2>7, <2>8 DEF LeaseInv
<1>4. ASSUME NEW c \in Caller,
             \/ \E k \in 1 .. MaxNeed : Ensure(c, k)
             \/ AcquireNext(c)
             \/ EnsureFetchFails(c)
             \/ EnsureRecount(c)
             \/ AcquireNil(c)
      PROVE  LeaseInv'
  <2>1. \A d \in Caller : pc'[d] = "using" <=> pc[d] = "using"
    BY <1>1, <1>4 DEF TypeOK, Ensure, AcquireNext, EnsureFetchFails,
                      EnsureRecount, AcquireNil
  <2>2. UNCHANGED <<pool, lease, purgedInUse>>
    BY <1>4 DEF Ensure, AcquireNext, EnsureFetchFails, EnsureRecount,
                AcquireNil, poolVars
  <2> QED
    BY <1>1, <2>1, <2>2, QuietStep
<1>5. ASSUME NEW c \in Caller, EnsureFetch(c) PROVE LeaseInv'
  <2>1. \A d \in Caller : pc'[d] = "using" <=> pc[d] = "using"
    BY <1>1, <1>5 DEF TypeOK, EnsureFetch
  <2>2. \A a, n : Marked(pool', a, n) <=> Marked(pool, a, n)
    BY <1>1, <1>5, FetchMarks DEF EnsureFetch, TypeOK
  <2> QED
    BY <1>1, <1>5, <2>1, <2>2, QuietStep DEF EnsureFetch
<1>6. CASE RefreshTick \/ RefillIfNeeded \/ RefillFetch
  <2>1. UNCHANGED <<pc, lease, purgedInUse>>
    BY <1>6 DEF RefreshTick, RefillIfNeeded, RefillFetch, callerVars
  <2>2. \A a, n : Marked(pool', a, n) <=> Marked(pool, a, n)
    BY <1>1, <1>6, FetchMarks
       DEF RefreshTick, RefillIfNeeded, RefillFetch, poolVars, TypeOK
  <2> QED
    BY <1>1, <2>1, <2>2, QuietStep
<1>7. CASE UNCHANGED vars
  BY <1>1, <1>7, QuietStep DEF vars
<1> QED
  BY <1>2, <1>3, <1>4, <1>5, <1>6, <1>7 DEF Next, CallerStep

THEOREM LeaseInvariant == Spec => []LeaseInv
  BY InitLeaseInv, NextLeaseInv, PTL DEF Spec

(* AcquireForNetwork never lends a proxy to two users on one network,      *)
(* unless the pool purged it while another network was using it.           *)
THEOREM LeasesAreExclusive == Spec => []ExclusiveUnlessPurged
  BY LeaseInvariant, PTL DEF LeaseInv

(* Every network recorded on a proxy has a user that will release it.      *)
THEOREM NoMarkLeaks == Spec => []NoLeakedMark
  BY LeaseInvariant, PTL DEF LeaseInv

-----------------------------------------------------------------------------
(* The failures on record.                                                 *)

FailsInv == TypeOK /\ IdleIsForgiven

(* What the operations do to the failures and the health of an entry.      *)
LEMMA FetchedFails ==
    ASSUME TypeOK, Fetch, NEW a \in DOMAIN pool', pool'[a].fails > 0
    PROVE  /\ a \in InUse(pool) /\ a \in DOMAIN pool
           /\ pool'[a].networks = pool[a].networks
           /\ pool'[a].fails = pool[a].fails
<1>1. PICK alive \in SUBSET Addr : pool' = Fetched(pool, alive)
  BY DEF Fetch
<1>2. CASE a \in InUse(pool)
  <2>1. a \in DOMAIN pool
    BY <1>2 DEF InUse
  <2> QED
    BY <1>1, <1>2, <2>1 DEF Fetched, Relisted
<1>3. CASE a \notin InUse(pool)
  <2>1. pool'[a].fails = 0
    BY <1>1, <1>3 DEF Fetched, Fresh
  <2> QED
    BY <2>1
<1> QED
  BY <1>2, <1>3

LEMMA AcquiredFails ==
    ASSUME TypeOK, NEW c \in Caller, Acquire(c), NEW a \in DOMAIN pool'
    PROVE  /\ a \in DOMAIN pool
           /\ pool'[a].fails = pool[a].fails
           /\ pool'[a].healthy = pool[a].healthy
           /\ \/ pool'[a].networks = pool[a].networks
              \/ /\ a \in Available(pool, NetOf[c])
                 /\ pool'[a].networks = pool[a].networks \cup {NetOf[c]}
<1>1. PICK b \in Available(pool, NetOf[c]) : pool' = Acquired(pool, b, NetOf[c])
  BY DEF Acquire, Candidates
<1>2. a \in DOMAIN pool
  BY <1>1 DEF Acquired
<1> QED
  BY <1>1, <1>2 DEF Acquired, Borrowed

LEMMA ReleasedFails ==
    ASSUME TypeOK, NEW c \in Caller, NEW failed \in BOOLEAN, Release(c, failed),
           NEW a \in DOMAIN pool'
    PROVE  /\ a \in DOMAIN pool
           /\ \/ pool'[a] = pool[a]
              \/ a = lease[c] /\ pool'[a] = Returned(pool[a], NetOf[c], failed)
<1>1. pool' = Released(pool, lease[c], NetOf[c], failed)
  BY DEF Release
<1>2. a \in DOMAIN pool
  BY <1>1 DEF Released, Removed
<1> QED
  BY <1>1, <1>2 DEF Released, Removed

LEMMA NextFails == FailsInv /\ [Next]_vars => FailsInv'
<1> SUFFICES ASSUME FailsInv, [Next]_vars, NEW a \in DOMAIN pool',
                    pool'[a].healthy, pool'[a].fails > 0
             PROVE  pool'[a].networks # {}
  BY NextTypeOK DEF FailsInv, IdleIsForgiven
<1>1. CASE Fetch
  BY <1>1, FetchedFails DEF FailsInv, InUse
<1>2. CASE UNCHANGED pool
  BY <1>2 DEF FailsInv, IdleIsForgiven
<1>3. ASSUME NEW c \in Caller, Acquire(c) PROVE pool'[a].networks # {}
  BY <1>3, AcquiredFails DEF FailsInv, IdleIsForgiven
<1>4. ASSUME NEW c \in Caller, NEW failed \in BOOLEAN, Release(c, failed)
      PROVE  pool'[a].networks # {}
  BY <1>4, ReleasedFails DEF FailsInv, IdleIsForgiven, Returned
<1> QED
  BY <1>1, <1>2, <1>3, <1>4
     DEF Next, CallerStep, Ensure, AcquireNext, EnsureFetch, EnsureFetchFails,
         EnsureRecount, AcquireNil, RefreshTick, RefillIfNeeded, RefillFetch,
         poolVars, vars

(* A proxy that may be handed out and that nobody uses has no failures on  *)
(* record (ReleaseByAddressFromNetwork, FetchFromAPI).                     *)
THEOREM FailuresAreForgotten == Spec => []IdleIsForgiven
<1>1. Init => FailsInv
  <2>1. ASSUME Init PROVE IdleIsForgiven
    <3>1. \A a \in DOMAIN pool : pool[a].fails = 0
      BY <2>1 DEF Init, Fresh
    <3> QED
      BY <3>1 DEF IdleIsForgiven
  <2> QED
    BY <2>1, InitTypeOK DEF FailsInv
<1> QED
  BY <1>1, NextFails, PTL DEF Spec, FailsInv

-----------------------------------------------------------------------------
(* What a step may do to a proxy in use.                                   *)

LEMMA StepKeepsInUse ==
    ASSUME LeaseInv, [Next]_vars, NEW a \in InUse(pool),
           \A c \in Caller : lease[c] = a => lease'[c] = a
    PROVE  /\ a \in DOMAIN pool'
           /\ pool[a].networks \subseteq pool'[a].networks
           /\ pool'[a].fails = pool[a].fails
<1> DEFINE Kept == /\ a \in DOMAIN pool'
                   /\ pool[a].networks \subseteq pool'[a].networks
                   /\ pool'[a].fails = pool[a].fails
<1>1. /\ TypeOK /\ PoolType(pool)
      /\ a \in DOMAIN pool /\ a \in Addr
  BY DEF LeaseInv, TypeOK, InUse, PoolType
<1>2. CASE Fetch
  BY <1>1, <1>2, FetchedFacts DEF Fetch
<1>3. CASE UNCHANGED pool
  BY <1>1, <1>3
<1>4. ASSUME NEW c \in Caller, Acquire(c) PROVE Kept
  <2> PICK b \in Candidates(pool, order, NetOf[c]) :
        pool' = Acquired(pool, b, NetOf[c])
    BY <1>4 DEF Acquire
  <2>1. b \in DOMAIN pool /\ NetOf[c] \in Network
    BY NetOfAssumption DEF Candidates, Available
  <2>2. /\ DOMAIN pool' = DOMAIN pool
        /\ \A d, n : Marked(pool', d, n)
                       <=> (Marked(pool, d, n) \/ (d = b /\ n = NetOf[c]))
        /\ \A d \in DOMAIN pool : pool'[d].fails = pool[d].fails
    BY <1>1, <2>1, AcquiredFacts
  <2> QED
    BY <1>1, <2>2 DEF Marked
<1>5. ASSUME NEW c \in Caller, NEW failed \in BOOLEAN, Release(c, failed)
      PROVE  Kept
  <2>1. pool' = Released(pool, lease[c], NetOf[c], failed)
    BY <1>5 DEF Release
  <2>2. lease[c] # a
    BY <1>1, <1>5, NoAddrAssumption DEF Release, TypeOK
  <2>3. a \in DOMAIN pool' /\ pool'[a] = pool[a]
    BY <1>1, <2>1, <2>2, ReleasedFacts, NetOfAssumption
  <2> QED
    BY <2>3
<1> QED
  BY <1>2, <1>3, <1>4, <1>5
     DEF Next, CallerStep, Ensure, AcquireNext, EnsureFetch, EnsureFetchFails,
         EnsureRecount, AcquireNil, RefreshTick, RefillIfNeeded, RefillFetch,
         poolVars, vars

(* A proxy in use keeps its entry, its networks and its failure count      *)
(* through every fetch and every other caller's acquire and release.       *)
THEOREM InUseIsPreserved == Spec => InUsePreserved
<1>1. LeaseInv /\ [Next]_vars =>
        [\A a \in InUse(pool) :
           (\A c \in Caller : lease[c] = a => lease'[c] = a) =>
              /\ a \in DOMAIN pool'
              /\ pool[a].networks \subseteq pool'[a].networks
              /\ pool'[a].fails = pool[a].fails]_vars
  BY StepKeepsInUse
<1> QED
  BY <1>1, LeaseInvariant, PTL DEF Spec, InUsePreserved

(* A release takes the proxy away from other networks only by a purge at   *)
(* the limit.                                                              *)
THEOREM ReleasesSpareOthers == Spec => OthersKeepTheirMarks
<1>1. LeaseInv /\ [Next]_vars =>
        [\A c \in Caller, a \in Addr, n \in Network :
           /\ lease[c] = a /\ lease'[c] # a
           /\ n # NetOf[c]
           /\ Marked(pool, a, n) /\ ~ Marked(pool', a, n)
           => pool[a].fails = MaxRetries]_vars
  <2> SUFFICES ASSUME LeaseInv, Next,
                      NEW c \in Caller, NEW a \in Addr, NEW n \in Network,
                      lease[c] = a, lease'[c] # a, n # NetOf[c],
                      Marked(pool, a, n), ~ Marked(pool', a, n)
               PROVE  pool[a].fails = MaxRetries
    OBVIOUS
  <2>1. TypeOK /\ a # NoAddr /\ pc[c] = "using" /\ pool[a] \in Entry
    BY NoAddrAssumption
       DEF LeaseInv, UsingHasLease, TypeOK, PoolType, Marked
  <2>2. PICK failed \in BOOLEAN : Release(c, failed)
    <3>1. ASSUME NEW d \in Caller, d # c, CallerStep(d) PROVE lease'[c] = lease[c]
      BY <2>1, <3>1
         DEF CallerStep, Ensure, AcquireNext, EnsureFetch, EnsureFetchFails,
             EnsureRecount, Acquire, AcquireNil, Release, TypeOK
    <3>2. ~ (RefreshTick \/ RefillIfNeeded \/ RefillFetch)
      BY DEF RefreshTick, RefillIfNeeded, RefillFetch, callerVars
    <3>3. CallerStep(c)
      BY <3>1, <3>2 DEF Next
    <3> QED
      BY <2>1, <3>3
         DEF CallerStep, Ensure, AcquireNext, EnsureFetch, EnsureFetchFails,
             EnsureRecount, Acquire, AcquireNil
  <2>3. pool' = Released(pool, a, NetOf[c], failed)
    BY <2>2 DEF Release
  <2>4. Purges(pool, a, failed)
    BY <2>1, <2>3, ReleasedFacts, NetOfAssumption DEF TypeOK
  <2> QED
    BY <2>1, <2>4, MaxRetriesAssumption DEF Purges, Entry
<1> QED
  BY <1>1, LeaseInvariant, PTL DEF Spec, OthersKeepTheirMarks

-----------------------------------------------------------------------------
(* The pool implements ProxyLeases, on any number of networks.             *)
LEMMA HeldFacts ==
    ASSUME LeaseInv
    PROVE  /\ Held \in [Caller -> Addr \cup {NoAddr}]
           /\ \A c \in Caller : lease[c] \notin purgedInUse => Held[c] = lease[c]
           /\ \A c \in Caller : lease[c] \in purgedInUse => Held[c] = NoAddr
BY DEF Held, LeaseInv, TypeOK

LEMMA AcquireRefines ==
    ASSUME LeaseInv, NEW c \in Caller, Acquire(c)
    PROVE  [Leases!Next]_Held
<1>1. PICK a \in Candidates(pool, order, NetOf[c]) :
        pc[c] = "acquire" /\ lease' = [lease EXCEPT ![c] = a]
  BY DEF Acquire
<1>2. a \in Addr /\ ~ Marked(pool, a, NetOf[c])
  BY DEF Candidates, Available, Marked, LeaseInv, TypeOK, PoolType
<1>3. lease[c] = NoAddr /\ purgedInUse' = purgedInUse /\ NoAddr \notin purgedInUse
  BY <1>1, NoAddrAssumption DEF LeaseInv, UsingHasLease, Acquire, TypeOK
<1>4. Held[c] = NoAddr
  BY <1>3, HeldFacts
<1>5. Held' = [Held EXCEPT ![c] = IF a \in purgedInUse THEN NoAddr ELSE a]
  BY <1>1, <1>3 DEF Held, LeaseInv, TypeOK
<1>6. CASE a \in purgedInUse
  <2>1. Held' = Held
    BY <1>4, <1>5, <1>6, HeldFacts
  <2> QED BY <2>1
<1>7. CASE a \notin purgedInUse
  <2>1. \A d \in Caller : NetOf[d] = NetOf[c] => Held[d] # a
    BY <1>2, <1>7, HeldFacts, NoAddrAssumption DEF LeaseInv, HoldersMarked
  <2> QED
    BY <1>2, <1>4, <1>5, <1>7, <2>1 DEF Leases!Next, Leases!Lend
<1> QED BY <1>6, <1>7

(* A release gives the lease back, unless it purges the proxy under        *)
(* another network: then all its leases end.                               *)
LEMMA ReleaseRefines ==
    ASSUME LeaseInv, NEW c \in Caller, NEW failed \in BOOLEAN, Release(c, failed)
    PROVE  [Leases!Next]_Held
<1> DEFINE a == lease[c]
<1>1. a \in Addr /\ lease' = [lease EXCEPT ![c] = NoAddr]
  BY DEF Release, LeaseInv, TypeOK, UsingHasLease
<1>2. NoAddr \notin purgedInUse /\ NoAddr \notin purgedInUse'
  BY <1>1, NoAddrAssumption DEF LeaseInv, TypeOK, Release
<1>3. CASE purgedInUse' = purgedInUse
  <2>1. Held' = [Held EXCEPT ![c] = NoAddr]
    BY <1>1, <1>2, <1>3 DEF Held, LeaseInv, TypeOK
  <2>2. CASE Held[c] = NoAddr
    <3>1. Held' = Held
      BY <2>1, <2>2, HeldFacts
    <3> QED BY <3>1
  <2>3. CASE Held[c] # NoAddr
    BY <2>1, <2>3 DEF Leases!Next, Leases!GiveBack
  <2> QED BY <2>2, <2>3
<1>4. CASE purgedInUse' # purgedInUse
  <2>1. /\ purgedInUse' = purgedInUse \cup {a} /\ a \notin purgedInUse
        /\ Purges(pool, a, failed) /\ pool[a].networks \ {NetOf[c]} # {}
    BY <1>4 DEF Release
  <2>2. PICK n \in pool[a].networks : n # NetOf[c]
    BY <2>1
  <2>3. n \in Network /\ Marked(pool, a, n)
    BY <1>1, <2>1, <2>2 DEF Purges, Marked, LeaseInv, TypeOK, PoolType, Entry
  <2>4. PICK d \in Caller : lease[d] = a /\ NetOf[d] = n
    BY <1>1, <2>3 DEF LeaseInv, NoLeakedMark, Holds
  <2>5. Held[c] = a /\ Held[d] = a
    BY <2>1, <2>4, HeldFacts
  <2>6. Held' = [x \in Caller |-> IF Held[x] = a THEN NoAddr ELSE Held[x]]
    <3>1. \A x \in Caller :
            (IF lease'[x] \in purgedInUse' THEN NoAddr ELSE lease'[x])
              = IF Held[x] = a THEN NoAddr ELSE Held[x]
      BY <1>1, <1>2, <2>1, HeldFacts, NoAddrAssumption DEF LeaseInv, TypeOK
    <3> QED BY <3>1 DEF Held
  <2> QED
    BY <1>1, <2>2, <2>4, <2>5, <2>6 DEF Leases!Next, Leases!Forfeit
<1> QED BY <1>3, <1>4

LEMMA StepRefines ==
    ASSUME LeaseInv, [Next]_vars
    PROVE  [Leases!Next]_Held
<1>1. ASSUME UNCHANGED <<lease, purgedInUse>> PROVE [Leases!Next]_Held
  <2>1. Held' = Held
    BY <1>1 DEF Held
  <2> QED BY <2>1
<1> QED
  BY <1>1, AcquireRefines, ReleaseRefines
     DEF Next, CallerStep, Ensure, AcquireNext, EnsureFetch, EnsureFetchFails,
         EnsureRecount, AcquireNil, RefreshTick, RefillIfNeeded, RefillFetch,
         callerVars, vars

(* Every behaviour of the pool and its callers is one of exclusive leases  *)
(* per network, in which only a proxy that two networks share is forfeited *)
(* (AcquireForNetwork, ReleaseByAddressFromNetwork, FetchFromAPI).         *)
THEOREM PoolImplementsLeases == Spec => LeaseSpec
<1>1. Init => LeaseInv
  BY InitLeaseInv
<1>2. Init => Leases!Init
  <2> SUFFICES ASSUME Init PROVE Leases!Init
    OBVIOUS
  <2>1. \A c \in Caller : lease[c] = NoAddr /\ purgedInUse = {}
    BY DEF Init
  <2> QED BY <2>1 DEF Held, Leases!Init
<1>3. LeaseInv /\ [Next]_vars => LeaseInv'
  BY NextLeaseInv
<1>4. LeaseInv /\ [Next]_vars => [Leases!Next]_Held
  BY StepRefines
<1> QED
  BY <1>1, <1>2, <1>3, <1>4, PTL DEF Spec, LeaseSpec, Leases!Spec

(* With one network there is nothing to forfeit: no proxy is purged while  *)
(* it is in use, so leases are exclusive without exception.                *)
OneNetwork == \A c, d \in Caller : NetOf[c] = NetOf[d]

LEMMA StepOneNetwork ==
    ASSUME OneNetwork, LeaseInv, purgedInUse = {}, [Next]_vars
    PROVE  purgedInUse' = {}
<1>1. ASSUME NEW c \in Caller, NEW failed \in BOOLEAN, Release(c, failed)
      PROVE  purgedInUse' = {}
  <2>1. lease[c] \in Addr
    BY <1>1 DEF LeaseInv, TypeOK, UsingHasLease, Release
  <2>2. ASSUME Purges(pool, lease[c], failed),
               NEW n \in pool[lease[c]].networks \ {NetOf[c]}
        PROVE  FALSE
    <3>1. n \in Network /\ Marked(pool, lease[c], n)
      BY <2>1, <2>2 DEF Purges, Marked, LeaseInv, TypeOK, PoolType, Entry
    <3>2. PICK d \in Caller : NetOf[d] = n
      BY <2>1, <3>1 DEF LeaseInv, NoLeakedMark, Holds
    <3> QED
      BY <2>2, <3>2 DEF OneNetwork
  <2> QED
    BY <1>1, <2>2 DEF Release
<1> QED
  BY <1>1
     DEF Next, CallerStep, Ensure, AcquireNext, EnsureFetch,
         EnsureFetchFails, EnsureRecount, Acquire, AcquireNil, RefreshTick,
         RefillIfNeeded, RefillFetch, poolVars, vars

(* ReleaseByAddressFromNetwork purges nothing in use.                      *)
THEOREM OneNetworkForfeitsNothing ==
    ASSUME OneNetwork
    PROVE  Spec => [](purgedInUse = {})
<1>1. Init => LeaseInv /\ purgedInUse = {}
  BY InitLeaseInv DEF Init
<1>2. LeaseInv /\ purgedInUse = {} /\ [Next]_vars => LeaseInv' /\ (purgedInUse = {})'
  BY NextLeaseInv, StepOneNetwork
<1> QED
  BY <1>1, <1>2, PTL DEF Spec

(* Nor is the limit ever reached: the first failure takes the one user     *)
(* away, and the fetch that must bring the proxy back forgets the failure. *)
FailedIsIdle ==
    \A a \in DOMAIN pool :
        pool[a].fails > 0 => ~ pool[a].healthy /\ pool[a].networks = {}

OneNetworkInv == LeaseInv /\ purgedInUse = {} /\ FailedIsIdle

(* The proxy a caller uses is loaded, for this network alone.              *)
LEMMA OneUser ==
    ASSUME OneNetwork, OneNetworkInv, NEW c \in Caller, lease[c] # NoAddr
    PROVE  /\ lease[c] \in DOMAIN pool
           /\ pool[lease[c]].networks = {NetOf[c]}
           /\ pool[lease[c]].fails = 0
<1>1. Marked(pool, lease[c], NetOf[c]) /\ lease[c] \in Addr
  BY DEF OneNetworkInv, LeaseInv, HoldersMarked, TypeOK
<1>2. ASSUME NEW n \in pool[lease[c]].networks PROVE n = NetOf[c]
  <2>1. n \in Network /\ Marked(pool, lease[c], n)
    BY <1>1, <1>2 DEF Marked, OneNetworkInv, LeaseInv, TypeOK, PoolType, Entry
  <2> QED
    BY <1>1, <2>1 DEF OneNetworkInv, LeaseInv, NoLeakedMark, Holds, OneNetwork
<1>3. pool[lease[c]].networks # {} /\ pool[lease[c]].fails \in Nat
  BY <1>1, MaxRetriesAssumption
     DEF Marked, OneNetworkInv, LeaseInv, TypeOK, PoolType, Entry
<1> QED
  BY <1>1, <1>2, <1>3 DEF Marked, OneNetworkInv, FailedIsIdle

LEMMA NextFailedIsIdle ==
    ASSUME OneNetwork, OneNetworkInv, [Next]_vars
    PROVE  FailedIsIdle'
<1> SUFFICES ASSUME NEW a \in DOMAIN pool', pool'[a].fails > 0
             PROVE  ~ pool'[a].healthy /\ pool'[a].networks = {}
  BY DEF FailedIsIdle
<1>1. CASE Fetch
  BY <1>1, FetchedFails DEF OneNetworkInv, LeaseInv, FailedIsIdle, InUse
<1>2. CASE UNCHANGED pool
  BY <1>2 DEF OneNetworkInv, FailedIsIdle
<1>3. ASSUME NEW c \in Caller, Acquire(c)
      PROVE  ~ pool'[a].healthy /\ pool'[a].networks = {}
  BY <1>3, AcquiredFails DEF OneNetworkInv, LeaseInv, FailedIsIdle, Available
<1>4. ASSUME NEW c \in Caller, NEW failed \in BOOLEAN, Release(c, failed)
      PROVE  ~ pool'[a].healthy /\ pool'[a].networks = {}
  <2>1. lease[c] # NoAddr
    BY <1>4 DEF Release, OneNetworkInv, LeaseInv, UsingHasLease
  <2> QED
    BY <1>4, <2>1, OneUser, ReleasedFails
       DEF OneNetworkInv, LeaseInv, FailedIsIdle, Returned
<1> QED
  BY <1>1, <1>2, <1>3, <1>4
     DEF Next, CallerStep, Ensure, AcquireNext, EnsureFetch, EnsureFetchFails,
         EnsureRecount, AcquireNil, RefreshTick, RefillIfNeeded, RefillFetch,
         poolVars, vars

(* While one network uses the pool, no release ever purges a proxy, however *)
(* often in a row it fails, unless the first failure does (MaxRetries 0):   *)
(* the limit that proxy.go:163-164 speaks of has no effect.                 *)
THEOREM OneNetworkPurgesNothing ==
    ASSUME OneNetwork, MaxRetries > 0
    PROVE  Spec => [][\A c \in Caller, failed \in BOOLEAN :
                        Release(c, failed) => ~ Purges(pool, lease[c], failed)]_vars
<1>1. Init => OneNetworkInv
  <2>1. ASSUME Init PROVE FailedIsIdle
    <3>1. \A a \in DOMAIN pool : pool[a].fails = 0
      BY <2>1 DEF Init, Fresh
    <3> QED
      BY <3>1 DEF FailedIsIdle
  <2> QED
    BY <2>1, InitLeaseInv DEF OneNetworkInv, Init
<1>2. OneNetworkInv /\ [Next]_vars => OneNetworkInv'
  BY NextLeaseInv, StepOneNetwork, NextFailedIsIdle DEF OneNetworkInv
<1>3. OneNetworkInv /\ [Next]_vars =>
        [\A c \in Caller, failed \in BOOLEAN :
           Release(c, failed) => ~ Purges(pool, lease[c], failed)]_vars
  <2> SUFFICES ASSUME OneNetworkInv, NEW c \in Caller, NEW failed \in BOOLEAN,
                      Release(c, failed)
               PROVE  ~ Purges(pool, lease[c], failed)
    OBVIOUS
  <2>1. lease[c] # NoAddr
    BY DEF Release, OneNetworkInv, LeaseInv, UsingHasLease
  <2>2. pool[lease[c]].fails = 0
    BY <2>1, OneUser
  <2> QED
    BY <2>2, MaxRetriesAssumption DEF Purges
<1> QED
  BY <1>1, <1>2, <1>3, PTL DEF Spec
=============================================================================
