----------------------------- MODULE PoolProofs ------------------------------
(***************************************************************************)
(* What the operations of the pool return, for every set of addresses and  *)
(* networks and every MaxRetries.  The modules with the proofs about the   *)
(* users of the pool extend this one.                                      *)
(***************************************************************************)
EXTENDS Pool, FiniteSetTheorems, TLAPS

LEMMA CountIsNat ==
    ASSUME NEW p, PoolType(p), NEW n
    PROVE  AvailableForNetwork(p, n) \in Nat
<1>1. Available(p, n) \subseteq Addr
  BY DEF Available, PoolType
<1>2. IsFiniteSet(Available(p, n))
  BY <1>1, AddrAssumption, FS_Subset
<1> QED
  BY <1>2, FS_CardinalityType DEF AvailableForNetwork

LEMMA FetchedFacts ==
    ASSUME NEW p, PoolType(p), NEW alive \in SUBSET Addr
    PROVE  /\ PoolType(Fetched(p, alive))
           /\ \A a, n : Marked(Fetched(p, alive), a, n) <=> Marked(p, a, n)
           /\ \A a \in InUse(p) : /\ a \in DOMAIN Fetched(p, alive)
                                  /\ Fetched(p, alive)[a].fails = p[a].fails
                                  /\ Fetched(p, alive)[a].networks = p[a].networks
<1> DEFINE q == Fetched(p, alive)
<1>1. DOMAIN q = alive \cup InUse(p)
  BY DEF Fetched
<1>2. InUse(p) \subseteq DOMAIN p
  BY DEF InUse
<1>3. ASSUME NEW a \in InUse(p)
      PROVE  /\ q[a] \in Entry
             /\ q[a].fails = p[a].fails
             /\ q[a].networks = p[a].networks
  <2>1. q[a] = Relisted(p[a], a \in alive)
    BY <1>1 DEF Fetched
  <2>2. p[a] \in Entry
    BY <1>2 DEF PoolType
  <2> HIDE DEF q
  <2> QED
    BY <2>1, <2>2 DEF Relisted, Entry
<1>4. \A a \in alive \ InUse(p) : q[a] = Fresh
  BY <1>1 DEF Fetched
<1>5. Fresh \in Entry /\ Fresh.networks = {}
  BY MaxRetriesAssumption DEF Fresh, Entry
<1>6. q = [a \in DOMAIN q |-> q[a]]
  BY DEF Fetched
<1> HIDE DEF q
<1>7. PoolType(q)
  <2>1. DOMAIN q \subseteq Addr
    BY <1>1, <1>2 DEF PoolType
  <2>2. \A a \in DOMAIN q : q[a] \in Entry
    BY <1>1, <1>3, <1>4, <1>5
  <2> QED
    BY <1>6, <2>1, <2>2 DEF PoolType
<1>8. ASSUME NEW a, NEW n
      PROVE  Marked(q, a, n) <=> Marked(p, a, n)
  <2>1. CASE a \in InUse(p)
    BY <2>1, <1>1, <1>2, <1>3 DEF Marked
  <2>2. CASE a \in alive \ InUse(p)
    BY <2>2, <1>1, <1>4, <1>5 DEF Marked, InUse
  <2>3. CASE a \notin DOMAIN q
    BY <2>3, <1>1 DEF Marked, InUse
  <2> QED
    BY <1>1, <2>1, <2>2, <2>3
<1> QED
  BY <1>1, <1>3, <1>7, <1>8 DEF q

(* Replacing the entry of b by one of the right type.                      *)
LEMMA ReplacedEntry ==
    ASSUME NEW p, PoolType(p), NEW b \in DOMAIN p, NEW px \in Entry
    PROVE  LET q == [p EXCEPT ![b] = px] IN
           /\ PoolType(q)
           /\ DOMAIN q = DOMAIN p
           /\ q[b] = px
           /\ \A a \in DOMAIN p \ {b} : q[a] = p[a]
  BY DEF PoolType

LEMMA AcquiredFacts ==
    ASSUME NEW p, PoolType(p), NEW b \in DOMAIN p, NEW m \in Network
    PROVE  /\ PoolType(Acquired(p, b, m))
           /\ DOMAIN Acquired(p, b, m) = DOMAIN p
           /\ \A a, n : Marked(Acquired(p, b, m), a, n)
                          <=> (Marked(p, a, n) \/ (a = b /\ n = m))
           /\ \A a \in DOMAIN p : Acquired(p, b, m)[a].fails = p[a].fails
<1>1. /\ Borrowed(p[b], m) \in Entry
      /\ Borrowed(p[b], m).networks = p[b].networks \cup {m}
      /\ Borrowed(p[b], m).fails = p[b].fails
  BY DEF PoolType, Entry, Borrowed
<1> QED
  BY <1>1, ReplacedEntry DEF Acquired, Marked

LEMMA ReleasedFacts ==
    ASSUME NEW p, PoolType(p), NEW b, NEW m \in Network, NEW failed
    PROVE  /\ PoolType(Released(p, b, m, failed))
           /\ \A a, n : Marked(Released(p, b, m, failed), a, n)
                <=> /\ Marked(p, a, n)
                    /\ ~ (a = b /\ (n = m \/ Purges(p, b, failed)))
           /\ \A a \in DOMAIN p \ {b} :
                /\ a \in DOMAIN Released(p, b, m, failed)
                /\ Released(p, b, m, failed)[a] = p[a]
<1>1. CASE b \notin DOMAIN p
  BY <1>1 DEF Released, Marked
<1>2. CASE b \in DOMAIN p /\ Purges(p, b, failed)
  <2>1. Released(p, b, m, failed) = Removed(p, b)
    BY <1>2 DEF Released
  <2>2. /\ DOMAIN Removed(p, b) = DOMAIN p \ {b}
        /\ \A a \in DOMAIN p \ {b} : Removed(p, b)[a] = p[a]
        /\ PoolType(Removed(p, b))
    BY DEF PoolType, Removed
  <2> QED
    BY <1>2, <2>1, <2>2 DEF Marked
<1>3. CASE b \in DOMAIN p /\ ~ Purges(p, b, failed)
  <2>1. p[b] \in Entry
    BY <1>3 DEF PoolType
  <2>2. failed => p[b].fails + 1 \in 0 .. MaxRetries
    BY <1>3, <2>1, MaxRetriesAssumption DEF Purges, Entry
  <2>3. /\ Returned(p[b], m, failed) \in Entry
        /\ Returned(p[b], m, failed).networks = p[b].networks \ {m}
    BY <2>1, <2>2, MaxRetriesAssumption DEF Returned, Entry
  <2>4. Released(p, b, m, failed) = [p EXCEPT ![b] = Returned(p[b], m, failed)]
    BY <1>3 DEF Released
  <2> DEFINE px == Returned(p[b], m, failed)
             q == Released(p, b, m, failed)
  <2> HIDE DEF px, q
  <2>5. /\ PoolType(q)
        /\ DOMAIN q = DOMAIN p
        /\ q[b] = px
        /\ \A a \in DOMAIN p \ {b} : q[a] = p[a]
    <3>1. px \in Entry /\ q = [p EXCEPT ![b] = px]
      BY <2>3, <2>4 DEF px, q
    <3> QED
      BY <1>3, <3>1, ReplacedEntry
  <2>6. \A a, n : Marked(q, a, n) <=> Marked(p, a, n) /\ ~ (a = b /\ n = m)
    BY <2>3, <2>5 DEF Marked, px
  <2> QED
    BY <1>3, <2>5, <2>6 DEF q
<1> QED
  BY <1>1, <1>2, <1>3
=============================================================================
