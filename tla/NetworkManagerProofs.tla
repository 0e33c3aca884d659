------------------------ MODULE NetworkManagerProofs ------------------------
(***************************************************************************)
(* Proofs about a network manager, for any number of clients and commands, *)
(* any proxies, either source and any MaxRetries.                          *)
(***************************************************************************)
EXTENDS NetworkManager, PoolProofs, SequenceTheorems

-----------------------------------------------------------------------------
(* The source decides which proxies there are.                             *)
SourceInv ==
    /\ source \in {"api", "rotating"}
    /\ source = "api" =>
          /\ exits = 0
          /\ \A c \in Client : current[c] # Endpoint
          /\ \A k \in Cmd : cmd[k].px # Endpoint
    /\ source = "rotating" =>
          /\ DOMAIN pool = {}
          /\ \A c \in Client : current[c] \notin Addr
          /\ \A k \in Cmd : cmd[k].px \notin Addr
          /\ ~ ctxDone => \A c \in Client : pc[c] # "gone"
    /\ \A c \in Client : pc[c] \in Owning => current[c] # None

(* What a command has in hand at each step.                                *)
Removing == {"rm", "rmquit", "stop", "stopquit"}

CallInv ==
    \A k \in Cmd :
        /\ cmd[k].op \in Removing <=> mu = k
        /\ cmd[k].op \in {"index", "append"} <=> cmd[k].px # None
        /\ cmd[k].op \in {"rmquit", "stopquit"} <=> cmd[k].client # None
        /\ cmd[k].op \in {"index", "append", "rmquit", "stopquit"} => cmd[k].todo > 0
        /\ cmd[k].op \in {"rm", "stop", "stopquit"} => cmd[k].todo <= Len(clients)
        /\ cmd[k].op = "rmquit" => cmd[k].todo <= Len(clients) + 1

(* The list names each client once, and only clients that were started.    *)
ListInv ==
    /\ \A i, j \in 1 .. Len(clients) : clients[i] = clients[j] => i = j
    /\ \A i \in 1 .. Len(clients) : pc[clients[i]] # "unborn"

(* Who has a proxy in hand, and who kept one to the end; what the pool     *)
(* knows of it; and how many hold the endpoint of a rotating pool.         *)
Place == Addr \cup {Endpoint}
Goroutine == Client \cup Cmd
Holders(a) == Users(a) \cup Kept(a)
Lent(a) == Marked(pool, a, Net)
Held == Cardinality(Holders(Endpoint))

Exclusive(a) == (\A x, y \in Users(a) : x = y) /\ (Users(a) # {} => Lent(a))

(* The two records of a loan agree as long as no client was taken off the  *)
(* list.  A Stop that finds no client changes nothing.                     *)
Untouched == RemovedClients = {} /\ (Stopping => clients = << >>)

LoanInv == Untouched => (\A a \in Addr : Exclusive(a)) /\ exits = Held

IInv == TypeOK /\ SourceInv /\ CallInv /\ ListInv /\ NoLeakedMark /\ LoanInv

-----------------------------------------------------------------------------
(* What every invariant rests on: the front of the list, and what the      *)
(* pool's operations return.                                               *)
LEMMA FrontFacts ==
    ASSUME NEW s \in Seq(Client), Len(s) > 0
    PROVE  LET f == SubSeq(s, 1, Len(s) - 1) IN
           /\ f \in Seq(Client)
           /\ Len(f) = Len(s) - 1
           /\ \A i \in 1 .. Len(s) - 1 : f[i] = s[i]
<1> DEFINE n == Len(s) - 1
<1>1. n \in Nat /\ n <= Len(s)
  OBVIOUS
<1> HIDE DEF n
<1>2. SubSeq(s, 1, n) \in Seq(Client)
  BY <1>1
<1>3. Len(SubSeq(s, 1, n)) = n
  BY <1>1
<1>4. \A i \in 1 .. n : SubSeq(s, 1, n)[i] = s[i]
  BY <1>1
<1> QED
  BY <1>2, <1>3, <1>4 DEF n

LEMMA ReleaseTypes ==
    ASSUME TypeOK, NEW a, NEW failed, ReleaseByAddress(a, failed)
    PROVE  /\ source' = source
           /\ PoolType(pool')
           /\ exits' \in Nat
  BY ReleasedFacts, NetAssumption DEF TypeOK, ReleaseByAddress

LEMMA AcquireTypes ==
    ASSUME TypeOK, NEW a \in Offers, AcquireForNetwork(a)
    PROVE  /\ source' = source
           /\ PoolType(pool')
           /\ exits' \in Nat
           /\ a \in Addr \cup {Endpoint}
<1>1. CASE source = "rotating"
  BY <1>1 DEF TypeOK, AcquireForNetwork, Offers
<1>2. CASE source # "rotating"
  <2>1. a \in DOMAIN pool /\ Net \in Network /\ a \in Addr
    BY <1>2, NetAssumption DEF Offers, Available, TypeOK, PoolType
  <2>2. PoolType(Acquired(pool, a, Net))
    BY <2>1, AcquiredFacts DEF TypeOK
  <2> QED
    BY <1>2, <2>1, <2>2 DEF TypeOK, AcquireForNetwork
<1> QED
  BY <1>1, <1>2

LEMMA FetchTypes ==
    ASSUME TypeOK, Fetch \/ UNCHANGED poolVars
    PROVE  /\ source' = source
           /\ PoolType(pool')
           /\ exits' \in Nat
  BY FetchedFacts DEF TypeOK, Fetch, poolVars

-----------------------------------------------------------------------------
LEMMA InitTypes == Init => TypeOK
<1> SUFFICES ASSUME Init PROVE TypeOK
  OBVIOUS
<1>1. PoolType(pool)
  <2>1. Fresh \in Entry
    BY MaxRetriesAssumption DEF Fresh, Entry
  <2>2. ASSUME NEW alive \in SUBSET Addr PROVE PoolType([a \in alive |-> Fresh])
    BY <2>1 DEF PoolType
  <2>3. PoolType(<< >>)
    BY DEF PoolType
  <2> QED
    BY <2>2, <2>3 DEF Init
<1>2. NoCall \in Call
  BY DEF NoCall, Call, MaxAttempts
<1>3. 0 \in 0 .. MaxConnects - 1
  BY MaxRetriesAssumption DEF MaxConnects
<1>4. clients \in Seq(Client)
  BY DEF Init
<1> QED
  BY <1>1, <1>2, <1>3, <1>4 DEF Init, TypeOK

LEMMA EndConnectionTypes ==
    ASSUME TypeOK, NEW c \in Client, EndConnection(c)
    PROVE  /\ pc' \in [Client -> Live \cup {"unborn", "gone"}]
           /\ attempt' \in [Client -> 0 .. MaxConnects - 1]
<1>1. attempt' \in [Client -> 0 .. MaxConnects - 1]
  BY MaxRetriesAssumption DEF EndConnection, MaxConnects, TypeOK
<1>2. pc' \in [Client -> Live \cup {"unborn", "gone"}]
  BY DEF EndConnection, TypeOK, Live
<1> QED
  BY <1>1, <1>2

LEMMA ClientTypes ==
    ASSUME TypeOK, NEW c \in Client, ClientStep(c)
    PROVE  TypeOK'
<1> USE DEF TypeOK, Live, poolVars, Goto
<1>1. CASE ConnectOk(c)
  BY <1>1 DEF ConnectOk
<1>2. CASE ConnectionEnds(c)
  BY <1>2, EndConnectionTypes DEF ConnectionEnds
<1>3. CASE BackoffOver(c)
  BY <1>3 DEF BackoffOver
<1>4. CASE ReleaseFailed(c)
  BY <1>4, ReleaseTypes DEF ReleaseFailed
<1>5. CASE EnsureOne(c)
  BY <1>5 DEF EnsureOne
<1>6. CASE EnsureOneFetch(c)
  BY <1>6, FetchTypes DEF EnsureOneFetch
<1>7. CASE AcquireNew(c)
  BY <1>7, AcquireTypes DEF AcquireNew
<1>8. CASE GiveUp(c)
  BY <1>8 DEF GiveUp
<1>9. CASE SetProxy(c)
  BY <1>9 DEF SetProxy
<1>10. CASE ContextEnds(c)
  BY <1>10 DEF ContextEnds
<1> QED
  BY <1>1, <1>2, <1>3, <1>4, <1>5, <1>6, <1>7, <1>8, <1>9, <1>10 DEF ClientStep

LEMMA CmdTypes ==
    ASSUME TypeOK, CallInv, NEW k \in Cmd, CmdStart(k) \/ CmdProgress(k)
    PROVE  TypeOK'
<1> USE DEF TypeOK, poolVars, clientVars
<1>0. /\ cmd \in [Cmd -> Call]
      /\ cmd[k] \in Call
      /\ NoCall \in Call
      /\ AvailableForNetwork(pool, Net) \in Nat
      /\ Len(clients) \in Nat
  BY CountIsNat DEF NoCall, Call, MaxAttempts
<1>a. cmd[k].todo \in Nat
  BY <1>0 DEF Call
<1>1. CASE \E count \in 1 .. MaxAdd : StartAdd(k, count)
  <2>1. PICK count \in Nat : StartAdd(k, count)
    BY <1>1, BoundAssumption
  <2> QED
    BY <1>0, <2>1 DEF StartAdd, NoCall, Call
<1>2. CASE \E count \in 0 .. MaxAdd : StartRemove(k, count)
  <2>1. PICK count \in Nat : StartRemove(k, count)
    BY <1>2, BoundAssumption
  <2> QED
    BY <1>0, <2>1 DEF StartRemove, NoCall, Call
<1>3. CASE StartStop(k)
  BY <1>0, <1>3 DEF StartStop, NoCall, Call
<1>4. CASE AddFetch(k)
  <2>1. PICK op \in {"recount", "acquire"} : cmd' = [cmd EXCEPT ![k].op = op]
    BY <1>4 DEF AddFetch
  <2>2. cmd' \in [Cmd -> Call]
    BY <1>0, <2>1 DEF Call
  <2> QED
    BY <1>4, <2>2, FetchTypes DEF AddFetch
<1>5. CASE AddRecount(k)
  <2>1. PICK op \in {"fetch", "acquire"}, avail \in Nat, round \in 0 .. MaxAttempts - 1 :
           cmd' = [cmd EXCEPT ![k].op = op, ![k].avail = avail, ![k].round = round]
    <3> DEFINE now == AvailableForNetwork(pool, Net)
               again == /\ now < cmd[k].todo
                        /\ now > cmd[k].avail
                        /\ cmd[k].round + 1 < MaxAttempts
    <3>1. cmd' = [cmd EXCEPT ![k].op = IF again THEN "fetch" ELSE "acquire",
                             ![k].avail = IF again THEN now ELSE 0,
                             ![k].round = IF again THEN @ + 1 ELSE 0]
      BY <1>5 DEF AddRecount
    <3>2. CASE again
      <4>1. cmd[k].round + 1 \in 0 .. MaxAttempts - 1
        BY <1>0, <3>2, SMTT(20) DEF Call, MaxAttempts
      <4>2. cmd' = [cmd EXCEPT ![k].op = "fetch", ![k].avail = now,
                               ![k].round = cmd[k].round + 1]
        BY <3>1, <3>2
      <4> HIDE DEF now, again
      <4> QED
        BY <1>0, <4>1, <4>2 DEF now
    <3>3. CASE ~ again
      <4>1. cmd' = [cmd EXCEPT ![k].op = "acquire", ![k].avail = 0, ![k].round = 0]
        BY <3>1, <3>3
      <4>2. 0 \in Nat /\ 0 \in 0 .. MaxAttempts - 1
        BY DEF MaxAttempts
      <4> HIDE DEF now, again
      <4> QED
        BY <4>1, <4>2
    <3> QED
      BY <3>2, <3>3
  <2>2. cmd' \in [Cmd -> Call]
    BY <1>0, <2>1 DEF Call
  <2> QED
    BY <1>5, <2>2 DEF AddRecount
<1>6. CASE AddAcquire(k)
  <2>1. PICK a \in Offers : /\ AcquireForNetwork(a)
                             /\ cmd' = [cmd EXCEPT ![k].op = "index", ![k].px = a,
                                                   ![k].avail = 0]
    BY <1>6 DEF AddAcquire
  <2>2. cmd' \in [Cmd -> Call]
    BY <1>0, <2>1, AcquireTypes DEF Call
  <2> QED
    BY <1>6, <2>1, <2>2, AcquireTypes DEF AddAcquire
<1>7. CASE AddReturns(k)
  BY <1>0, <1>7 DEF AddReturns
<1>8. CASE AddIndex(k)
  BY <1>0, <1>8 DEF AddIndex, Call
<1>9. CASE AddAppend(k)
  <2>1. cmd[k].todo > 0
    BY <1>9 DEF AddAppend, CallInv
  <2>2. cmd' \in [Cmd -> Call]
    <3>1. cmd' = [cmd EXCEPT ![k].op = "acquire", ![k].todo = @ - 1,
                             ![k].px = None, ![k].index = 0]
      BY <1>9 DEF AddAppend
    <3>2. cmd[k].todo - 1 \in Nat
      BY <1>a, <2>1
    <3>3. PICK todo \in Nat : cmd' = [cmd EXCEPT ![k].op = "acquire", ![k].todo = todo,
                                                 ![k].px = None, ![k].index = 0]
      BY <3>1, <3>2
    <3> HIDE DEF TypeOK, poolVars, clientVars
    <3> QED
      BY <1>0, <3>3 DEF Call
  <2>3. clients' \in Seq(Client)
    BY <1>9, AppendProperties DEF AddAppend, Unborn
  <2>4. /\ pc' \in [Client -> Live \cup {"unborn", "gone"}]
        /\ current' \in [Client -> Addr \cup {Endpoint, None}]
        /\ proxyAddr' \in [Client -> Addr \cup {Endpoint, None}]
        /\ index' \in [Client -> Nat]
    BY <1>0, <1>9 DEF AddAppend, Unborn, Live, Call
  <2> QED
    BY <1>9, <2>2, <2>3, <2>4 DEF AddAppend
<1>10. CASE RemoveLast(k)
  <2>1. cmd[k].todo \in 1 .. Len(clients)
    BY <1>0, <1>10 DEF RemoveLast, CallInv, Call
  <2>2. clients' \in Seq(Client) /\ clients[Len(clients)] \in Client
    BY <1>10, <2>1, FrontFacts DEF RemoveLast
  <2>3. cmd' \in [Cmd -> Call]
    BY <1>0, <1>10, <2>2 DEF RemoveLast, Call
  <2> QED
    BY <1>10, <2>2, <2>3, ReleaseTypes DEF RemoveLast
<1>11. CASE StopNext(k)
  <2>1. clients[Len(clients) - cmd[k].todo + 1] \in Client
    <3>1. cmd[k].todo \in 1 .. Len(clients)
      BY <1>0, <1>11 DEF StopNext, CallInv, Call
    <3>2. Len(clients) - cmd[k].todo + 1 \in 1 .. Len(clients)
      BY <3>1, SMTT(20)
    <3> QED
      BY <3>2
  <2>2. cmd' \in [Cmd -> Call]
    BY <1>0, <1>11, <2>1 DEF StopNext, Call
  <2> QED
    BY <1>11, <2>2, ReleaseTypes DEF StopNext
<1>12. CASE QuitClient(k)
  <2>1. cmd[k].todo > 0 /\ cmd[k].client \in Client
    BY <1>0, <1>12 DEF QuitClient, CallInv, Call
  <2>2. cmd' \in [Cmd -> Call]
    <3>1. PICK op \in {"rm", "stop"} :
             cmd' = [cmd EXCEPT ![k].op = op, ![k].todo = @ - 1, ![k].client = None]
      BY <1>12 DEF QuitClient
    <3>2. cmd[k].todo - 1 \in Nat
      BY <1>a, <2>1
    <3> QED
      BY <1>0, <3>1, <3>2 DEF Call
  <2>3. /\ attempt' \in [Client -> 0 .. MaxConnects - 1]
        /\ pc' \in [Client -> Live \cup {"unborn", "gone"}]
    BY <1>12, <2>1, EndConnectionTypes DEF QuitClient
  <2> QED
    BY <1>12, <2>2, <2>3 DEF QuitClient
<1>13. CASE RemoveReturns(k)
  BY <1>0, <1>13 DEF RemoveReturns
<1> QED
  BY <1>1, <1>2, <1>3, <1>4, <1>5, <1>6, <1>7, <1>8, <1>9, <1>10, <1>11, <1>12,
     <1>13 DEF CmdStart, CmdProgress

LEMMA StepTypes == TypeOK /\ CallInv /\ [Next]_vars => TypeOK'
<1> SUFFICES ASSUME TypeOK, CallInv, [Next]_vars PROVE TypeOK'
  OBVIOUS
<1>1. CASE Refresh
  BY <1>1, FetchTypes DEF Refresh, TypeOK, clientVars
<1>2. CASE Cancel
  BY <1>2 DEF Cancel, TypeOK, poolVars, clientVars
<1>3. CASE UNCHANGED vars
  BY <1>3 DEF vars, TypeOK, poolVars, clientVars
<1> QED
  BY <1>1, <1>2, <1>3, ClientTypes, CmdTypes DEF Next

-----------------------------------------------------------------------------
(* What each step of a command does to the calls, the index it was given   *)
(* and its counts of proxies apart.                                        *)
Calls(k, op, todo, px, client) ==
    /\ \A j \in Cmd \ {k} : cmd'[j] = cmd[j]
    /\ cmd'[k].op = op
    /\ cmd'[k].todo = todo
    /\ cmd'[k].px = px
    /\ cmd'[k].client = client

LEMMA CallEffects ==
    ASSUME TypeOK, NEW k \in Cmd
    PROVE  /\ \A count \in Nat : StartAdd(k, count) =>
                \E op \in {"acquire", "fetch"} : Calls(k, op, count, None, None)
           /\ \A count \in Nat : StartRemove(k, count) =>
                \E todo \in 0 .. Len(clients) : Calls(k, "rm", todo, None, None)
           /\ StartStop(k) => Calls(k, "stop", Len(clients), None, None)
           /\ AddFetch(k) \/ AddRecount(k) =>
                \E op \in {"acquire", "fetch", "recount"} :
                   Calls(k, op, cmd[k].todo, cmd[k].px, cmd[k].client)
           /\ AddAcquire(k) =>
                \E a \in Offers : /\ AcquireForNetwork(a)
                                  /\ Calls(k, "index", cmd[k].todo, a, cmd[k].client)
           /\ AddReturns(k) \/ RemoveReturns(k) => Calls(k, "idle", 0, None, None)
           /\ AddIndex(k) => Calls(k, "append", cmd[k].todo, cmd[k].px, cmd[k].client)
           /\ AddAppend(k) => Calls(k, "acquire", cmd[k].todo - 1, None, cmd[k].client)
           /\ RemoveLast(k) =>
                Calls(k, "rmquit", cmd[k].todo, cmd[k].px, clients[Len(clients)])
           /\ StopNext(k) =>
                Calls(k, "stopquit", cmd[k].todo, cmd[k].px,
                      clients[Len(clients) - cmd[k].todo + 1])
           /\ QuitClient(k) =>
                Calls(k, IF cmd[k].op = "rmquit" THEN "rm" ELSE "stop",
                      cmd[k].todo - 1, cmd[k].px, None)
<1>0. cmd \in [Cmd -> Call] /\ cmd[k] \in Call /\ Len(clients) \in Nat
  BY DEF TypeOK
<1> USE DEF Calls, Call
<1>1. ASSUME NEW count \in Nat, StartAdd(k, count)
      PROVE  \E op \in {"acquire", "fetch"} : Calls(k, op, count, None, None)
  BY <1>0, <1>1 DEF StartAdd, NoCall
<1>2. ASSUME NEW count \in Nat, StartRemove(k, count)
      PROVE  \E todo \in 0 .. Len(clients) : Calls(k, "rm", todo, None, None)
  BY <1>0, <1>2, SMTT(20) DEF StartRemove, NoCall
<1>3. ASSUME StartStop(k) PROVE Calls(k, "stop", Len(clients), None, None)
  BY <1>0, <1>3 DEF StartStop, NoCall
<1>4. ASSUME AddFetch(k) \/ AddRecount(k)
      PROVE  \E op \in {"acquire", "fetch", "recount"} :
                Calls(k, op, cmd[k].todo, cmd[k].px, cmd[k].client)
  <2>1. CASE AddFetch(k)
    <3>1. PICK op \in {"recount", "acquire"} : cmd' = [cmd EXCEPT ![k].op = op]
      BY <2>1 DEF AddFetch
    <3> QED
      BY <1>0, <3>1
  <2>2. CASE AddRecount(k)
    <3>1. PICK op \in {"fetch", "acquire"} :
            \E avail, round : cmd' = [cmd EXCEPT ![k].op = op, ![k].avail = avail,
                                                ![k].round = round]
      BY <2>2 DEF AddRecount
    <3> QED
      BY <1>0, <3>1
  <2> QED
    BY <1>4, <2>1, <2>2
<1>5. ASSUME AddAcquire(k)
      PROVE  \E a \in Offers : /\ AcquireForNetwork(a)
                               /\ Calls(k, "index", cmd[k].todo, a, cmd[k].client)
  <2>1. PICK a \in Offers : /\ AcquireForNetwork(a)
                            /\ cmd' = [cmd EXCEPT ![k].op = "index", ![k].px = a,
                                                  ![k].avail = 0]
    BY <1>5 DEF AddAcquire
  <2> QED
    BY <1>0, <2>1
<1>6. ASSUME AddReturns(k) \/ RemoveReturns(k)
      PROVE  Calls(k, "idle", 0, None, None)
  BY <1>0, <1>6 DEF AddReturns, RemoveReturns, NoCall
<1>7. ASSUME AddIndex(k)
      PROVE  Calls(k, "append", cmd[k].todo, cmd[k].px, cmd[k].client)
  BY <1>0, <1>7 DEF AddIndex
<1>8. ASSUME AddAppend(k)
      PROVE  Calls(k, "acquire", cmd[k].todo - 1, None, cmd[k].client)
  <2>1. cmd' = [cmd EXCEPT ![k].op = "acquire", ![k].todo = @ - 1,
                           ![k].px = None, ![k].index = 0]
    BY <1>8 DEF AddAppend
  <2> QED
    BY <1>0, <2>1
<1>9. ASSUME RemoveLast(k)
      PROVE  Calls(k, "rmquit", cmd[k].todo, cmd[k].px, clients[Len(clients)])
  BY <1>0, <1>9 DEF RemoveLast
<1>10. ASSUME StopNext(k)
       PROVE  Calls(k, "stopquit", cmd[k].todo, cmd[k].px,
                    clients[Len(clients) - cmd[k].todo + 1])
  BY <1>0, <1>10 DEF StopNext
<1>11. ASSUME QuitClient(k)
       PROVE  Calls(k, IF cmd[k].op = "rmquit" THEN "rm" ELSE "stop",
                    cmd[k].todo - 1, cmd[k].px, None)
  <2>1. cmd' = [cmd EXCEPT ![k].op = IF @ = "rmquit" THEN "rm" ELSE "stop",
                           ![k].todo = @ - 1, ![k].client = None]
    BY <1>11 DEF QuitClient
  <2> QED
    BY <1>0, <2>1
<1> QED
  BY <1>1, <1>2, <1>3, <1>4, <1>5, <1>6, <1>7, <1>8, <1>9, <1>10, <1>11

-----------------------------------------------------------------------------
(* A step of one command leaves the others' calls as they are, so that the *)
(* invariant of the calls is a matter of the command's own call and of     *)
(* what the others read: the lock, and the list while they hold the lock.  *)
CallOK(k) ==
    /\ cmd[k].op \in Removing <=> mu = k
    /\ cmd[k].op \in {"index", "append"} <=> cmd[k].px # None
    /\ cmd[k].op \in {"rmquit", "stopquit"} <=> cmd[k].client # None
    /\ cmd[k].op \in {"index", "append", "rmquit", "stopquit"} => cmd[k].todo > 0
    /\ cmd[k].op \in {"rm", "stop", "stopquit"} => cmd[k].todo <= Len(clients)
    /\ cmd[k].op = "rmquit" => cmd[k].todo <= Len(clients) + 1

LEMMA InitCalls == Init => CallInv
<1> SUFFICES ASSUME Init, NEW k \in Cmd PROVE CallOK(k)
  BY DEF CallInv, CallOK
<1>1. cmd[k] = NoCall /\ mu = None
  BY DEF Init
<1> QED
  BY <1>1, NoneAssumption DEF CallOK, NoCall, Removing

LEMMA OtherCalls ==
    ASSUME TypeOK, CallInv, NEW k \in Cmd, NEW j \in Cmd \ {k},
           cmd'[j] = cmd[j], mu \in {k, None}, mu' \in {k, None}
    PROVE  CallOK(j)'
<1>1. CallOK(j)
  BY DEF CallInv, CallOK
<1>2. mu # j /\ mu' # j
  BY NoneAssumption
<1> QED
  BY <1>1, <1>2 DEF CallOK, Removing

LEMMA CmdCalls ==
    ASSUME TypeOK, CallInv, NEW k \in Cmd, CmdStart(k) \/ CmdProgress(k)
    PROVE  CallInv'
<1>0. /\ CallOK(k)
      /\ cmd[k] \in Call
      /\ Len(clients) \in Nat
      /\ k # None
  BY NoneAssumption DEF CallInv, CallOK, TypeOK
<1>a. cmd[k].todo \in Nat
  BY <1>0 DEF Call
<1>b. SUFFICES CallOK(k)' /\ \A j \in Cmd \ {k} : CallOK(j)'
  BY DEF CallInv, CallOK
<1>c. \A j \in Cmd \ {k} : CallOK(j)
  BY DEF CallInv, CallOK
<1> USE DEF Removing, Calls
<1>1. CASE \E count \in 1 .. MaxAdd : StartAdd(k, count)
  <2>1. PICK count \in Nat : StartAdd(k, count)
    BY <1>1, BoundAssumption
  <2>2. /\ \E op \in {"acquire", "fetch"} : Calls(k, op, count, None, None)
        /\ mu' = mu /\ clients' = clients /\ cmd[k].op = "idle"
    BY <2>1, CallEffects DEF StartAdd
  <2> QED
    BY <1>0, <1>a, <1>c, <2>2 DEF CallOK
<1>2. CASE \E count \in 0 .. MaxAdd : StartRemove(k, count)
  <2>1. PICK count \in Nat : StartRemove(k, count)
    BY <1>2, BoundAssumption
  <2>2. /\ \E todo \in 0 .. Len(clients) : Calls(k, "rm", todo, None, None)
        /\ mu = None /\ mu' = k /\ clients' = clients
    BY <2>1, CallEffects DEF StartRemove
  <2>3. CallOK(k)'
    BY <1>0, <2>2 DEF CallOK
  <2> QED
    BY <1>0, <2>2, <2>3, OtherCalls
<1>3. CASE StartStop(k)
  <2>1. /\ Calls(k, "stop", Len(clients), None, None)
        /\ mu = None /\ mu' = k /\ clients' = clients
    BY <1>3, CallEffects DEF StartStop
  <2>2. CallOK(k)'
    BY <1>0, <2>1 DEF CallOK
  <2> QED
    BY <1>0, <2>1, <2>2, OtherCalls
<1>4. CASE AddFetch(k) \/ AddRecount(k)
  <2>1. /\ \E op \in {"acquire", "fetch", "recount"} :
              Calls(k, op, cmd[k].todo, cmd[k].px, cmd[k].client)
        /\ mu' = mu /\ clients' = clients
        /\ cmd[k].op \in {"fetch", "recount"}
    BY <1>4, CallEffects DEF AddFetch, AddRecount
  <2> QED
    BY <1>0, <1>a, <1>c, <2>1 DEF CallOK
<1>5. CASE AddAcquire(k)
  <2>1. PICK a \in Offers : /\ AcquireForNetwork(a)
                            /\ Calls(k, "index", cmd[k].todo, a, cmd[k].client)
    BY <1>5, CallEffects
  <2>2. a # None
    BY <2>1, AcquireTypes, NoneAssumption
  <2>3. /\ mu' = mu /\ clients' = clients
        /\ cmd[k].op = "acquire" /\ cmd[k].todo > 0
    BY <1>5 DEF AddAcquire
  <2> QED
    BY <1>0, <1>a, <1>c, <2>1, <2>2, <2>3 DEF CallOK
<1>6. CASE AddReturns(k)
  <2>1. /\ Calls(k, "idle", 0, None, None)
        /\ mu' = mu /\ clients' = clients /\ cmd[k].op = "acquire"
    BY <1>6, CallEffects DEF AddReturns
  <2> QED
    BY <1>0, <1>a, <1>c, <2>1 DEF CallOK
<1>7. CASE AddIndex(k)
  <2>1. /\ Calls(k, "append", cmd[k].todo, cmd[k].px, cmd[k].client)
        /\ mu' = mu /\ clients' = clients /\ cmd[k].op = "index"
    BY <1>7, CallEffects DEF AddIndex
  <2> QED
    BY <1>0, <1>a, <1>c, <2>1 DEF CallOK
<1>8. CASE AddAppend(k)
  <2>1. /\ Calls(k, "acquire", cmd[k].todo - 1, None, cmd[k].client)
        /\ mu = None /\ mu' = mu /\ cmd[k].op = "append"
    BY <1>8, CallEffects DEF AddAppend
  <2>2. Len(clients') = Len(clients) + 1
    BY <1>8, AppendProperties DEF AddAppend, TypeOK, Unborn
  <2>3. CallOK(k)'
    BY <1>0, <1>a, <2>1, <2>2 DEF CallOK
  <2> QED
    BY <1>0, <2>1, <2>2, <2>3, OtherCalls
<1>9. CASE RemoveLast(k)
  <2>1. /\ Calls(k, "rmquit", cmd[k].todo, cmd[k].px, clients[Len(clients)])
        /\ mu' = mu /\ cmd[k].op = "rm" /\ cmd[k].todo > 0
        /\ clients' = SubSeq(clients, 1, Len(clients) - 1)
    BY <1>9, CallEffects DEF RemoveLast
  <2>2. /\ Len(clients') = Len(clients) - 1
        /\ Len(clients') \in Nat
        /\ clients[Len(clients)] # None
    <3>1. Len(clients) > 0
      BY <1>0, <1>a, <2>1 DEF CallOK
    <3>2. clients[Len(clients)] \in Client
      BY <1>0, <3>1 DEF TypeOK
    <3>3. Len(clients') = Len(clients) - 1
      BY <2>1, <3>1, FrontFacts DEF TypeOK
    <3> QED
      BY <1>0, <3>1, <3>2, <3>3, NoneAssumption
  <2>3. CallOK(k)'
    BY <1>0, <1>a, <2>1, <2>2 DEF CallOK
  <2>4. mu = k
    BY <1>0, <2>1 DEF CallOK
  <2> QED
    BY <1>0, <2>1, <2>2, <2>3, <2>4, OtherCalls
<1>10. CASE StopNext(k)
  <2> DEFINE i == Len(clients) - cmd[k].todo + 1
  <2>1. /\ Calls(k, "stopquit", cmd[k].todo, cmd[k].px, clients[i])
        /\ mu' = mu /\ cmd[k].op = "stop" /\ cmd[k].todo > 0
        /\ clients' = clients
    BY <1>10, CallEffects DEF StopNext
  <2>2. clients[i] # None
    <3>1. i \in 1 .. Len(clients)
      BY <1>0, <1>a, <2>1 DEF CallOK
    <3> QED
      BY <3>1, NoneAssumption DEF TypeOK
  <2> HIDE DEF i
  <2> QED
    BY <1>0, <1>a, <1>c, <2>1, <2>2 DEF CallOK
<1>11. CASE QuitClient(k)
  <2>1. /\ Calls(k, IF cmd[k].op = "rmquit" THEN "rm" ELSE "stop",
                 cmd[k].todo - 1, cmd[k].px, None)
        /\ mu' = mu /\ clients' = clients
        /\ cmd[k].op \in {"rmquit", "stopquit"}
    BY <1>11, CallEffects DEF QuitClient
  <2> QED
    BY <1>0, <1>a, <1>c, <2>1 DEF CallOK
<1>12. CASE RemoveReturns(k)
  <2>1. /\ Calls(k, "idle", 0, None, None)
        /\ mu' = None /\ cmd[k].op \in {"rm", "stop"}
        /\ clients' = clients \/ clients' = << >>
    BY <1>12, CallEffects DEF RemoveReturns
  <2>2. mu = k /\ Len(clients') \in Nat
    BY <1>0, <2>1 DEF CallOK
  <2>3. CallOK(k)'
    BY <1>0, <2>1 DEF CallOK
  <2> QED
    BY <1>0, <2>1, <2>2, <2>3, OtherCalls
<1> QED
  BY <1>1, <1>2, <1>3, <1>4, <1>5, <1>6, <1>7, <1>8, <1>9, <1>10, <1>11, <1>12
     DEF CmdStart, CmdProgress

LEMMA ClientLeavesCalls ==
    ASSUME NEW c \in Client, ClientStep(c)
    PROVE  UNCHANGED <<clients, mu, ctxDone, index, cmd>>
  BY DEF ClientStep, ConnectOk, ConnectionEnds, BackoffOver, ReleaseFailed, EnsureOne,
         EnsureOneFetch, AcquireNew, GiveUp, SetProxy, ContextEnds

LEMMA StepCalls == TypeOK /\ CallInv /\ [Next]_vars => CallInv'
<1> SUFFICES ASSUME TypeOK, CallInv, [Next]_vars PROVE CallInv'
  OBVIOUS
<1>1. CASE UNCHANGED <<clients, mu, cmd>>
  BY <1>1 DEF CallInv
<1>2. CASE Refresh \/ Cancel \/ UNCHANGED vars
  BY <1>1, <1>2 DEF Refresh, Cancel, vars
<1> QED
  BY <1>1, <1>2, ClientLeavesCalls, CmdCalls DEF Next

-----------------------------------------------------------------------------
(* A client's step seen from the proxy it remembers: the goroutine keeps   *)
(* it, ends with it, gives it back, looks for another one, takes one, or   *)
(* gives up without one.                                                   *)
Keeps(c, to) ==
    /\ pc[c] \in Owning /\ to \in Owning
    /\ UNCHANGED <<poolVars, current>>

EndsWith(c, to) ==
    /\ pc[c] \in Owning /\ to = "gone" /\ ctxDone
    /\ UNCHANGED <<poolVars, current>>

GivesBack(c, to) ==
    /\ pc[c] \in Owning /\ to = "ensure"
    /\ ReleaseByAddress(current[c], TRUE)
    /\ UNCHANGED current

Looks(c, to) ==
    /\ pc[c] \in {"ensure", "fetch"} /\ to \in {"fetch", "acquire"}
    /\ Fetch \/ UNCHANGED poolVars
    /\ UNCHANGED current

Takes(c, to) ==
    /\ pc[c] = "acquire" /\ to = "setproxy"
    /\ \E a \in Offers : AcquireForNetwork(a) /\ current' = [current EXCEPT ![c] = a]

GoesWithout(c, to) ==
    /\ pc[c] = "acquire" /\ to = "gone" /\ Offers = {}
    /\ UNCHANGED <<poolVars, current>>

Effect(c, to) ==
    \/ Keeps(c, to)
    \/ EndsWith(c, to)
    \/ GivesBack(c, to)
    \/ Looks(c, to)
    \/ Takes(c, to)
    \/ GoesWithout(c, to)

LEMMA ConnectionEffects ==
    ASSUME TypeOK, NEW c \in Client, EndConnection(c), UNCHANGED <<poolVars, current>>
    PROVE  \E to : pc' = [pc EXCEPT ![c] = to] /\ (Keeps(c, to) \/ EndsWith(c, to))
<1> DEFINE to == IF ctxDone THEN "gone"
                  ELSE IF attempt[c] + 1 >= MaxConnects THEN "release" ELSE "backoff"
<1>1. pc' = [pc EXCEPT ![c] = to] /\ pc[c] \in {"dial", "online"}
  BY DEF EndConnection
<1>2. IF ctxDone THEN to = "gone" ELSE to \in {"release", "backoff"}
  OBVIOUS
<1> HIDE DEF to
<1>3. Keeps(c, to) \/ EndsWith(c, to)
  BY <1>1, <1>2 DEF Keeps, EndsWith, Owning
<1> QED
  BY <1>1, <1>3

LEMMA ClientEffects ==
    ASSUME TypeOK, NEW c \in Client, ClientStep(c)
    PROVE  \E to : pc' = [pc EXCEPT ![c] = to] /\ Effect(c, to)
<1> USE DEF Effect, Goto, Owning
<1>1. CASE ConnectOk(c)
  BY <1>1 DEF ConnectOk, Keeps
<1>2. CASE ConnectionEnds(c)
  BY <1>2, ConnectionEffects DEF ConnectionEnds
<1>3. CASE BackoffOver(c)
  BY <1>3 DEF BackoffOver, Keeps
<1>4. CASE ReleaseFailed(c)
  BY <1>4 DEF ReleaseFailed, GivesBack
<1>5. CASE EnsureOne(c)
  BY <1>5 DEF EnsureOne, Looks
<1>6. CASE EnsureOneFetch(c)
  BY <1>6 DEF EnsureOneFetch, Looks
<1>7. CASE AcquireNew(c)
  BY <1>7 DEF AcquireNew, Takes
<1>8. CASE GiveUp(c)
  BY <1>8 DEF GiveUp, GoesWithout
<1>9. CASE SetProxy(c)
  BY <1>9 DEF SetProxy, Keeps
<1>10. CASE ContextEnds(c)
  BY <1>10 DEF ContextEnds, EndsWith
<1> QED
  BY <1>1, <1>2, <1>3, <1>4, <1>5, <1>6, <1>7, <1>8, <1>9, <1>10 DEF ClientStep

(* Quit of an idle or connected client changes no more than that.          *)
LEMMA QuitEffects ==
    ASSUME TypeOK, CallInv, NEW k \in Cmd, QuitClient(k)
    PROVE  \/ UNCHANGED <<poolVars, pc, current>>
           \/ \E c \in Client, to \in Owning \cup {"gone"} :
                 pc' = [pc EXCEPT ![c] = to] /\ (Keeps(c, to) \/ EndsWith(c, to))
<1> DEFINE c == cmd[k].client
<1>1. c \in Client
  BY DEF QuitClient, CallInv, TypeOK, Call
<1>2. EndConnection(c) \/ UNCHANGED <<pc, attempt>>
  BY DEF QuitClient
<1>3. UNCHANGED <<poolVars, current>>
  BY DEF QuitClient
<1> HIDE DEF c
<1> QED
  BY <1>1, <1>2, <1>3, ConnectionEffects DEF Keeps, EndsWith

(* Once started a client is never unstarted.                               *)
LEMMA EffectStarts ==
    ASSUME TypeOK, NEW c \in Client, NEW to, Effect(c, to), pc' = [pc EXCEPT ![c] = to]
    PROVE  \A d \in Client : pc'[d] = "unborn" <=> pc[d] = "unborn"
<1>1. pc[c] # "unborn" /\ to # "unborn"
  BY DEF Effect, Keeps, EndsWith, GivesBack, Looks, Takes, GoesWithout, Owning
<1> QED
  BY <1>1 DEF TypeOK

-----------------------------------------------------------------------------
LEMMA InitList == Init => ListInv
  BY DEF Init, ListInv

LEMMA CmdList ==
    ASSUME TypeOK, CallInv, ListInv, NEW k \in Cmd, CmdStart(k) \/ CmdProgress(k)
    PROVE  ListInv'
<1>1. CASE UNCHANGED <<clients, pc>>
  BY <1>1 DEF ListInv
<1>2. CASE AddAppend(k)
  <2>1. PICK c \in Unborn : /\ clients' = Append(clients, c)
                            /\ pc' = [pc EXCEPT ![c] = "dial"]
    BY <1>2 DEF AddAppend
  <2>2. c \in Client /\ pc[c] = "unborn"
    BY DEF Unborn
  <2>3. /\ Len(clients') = Len(clients) + 1
        /\ Len(clients) \in Nat
        /\ \A i \in 1 .. Len(clients) : clients'[i] = clients[i] /\ clients[i] \in Client
        /\ clients'[Len(clients) + 1] = c
    BY <2>1, <2>2 DEF TypeOK
  <2>4. \A i \in 1 .. Len(clients) : clients[i] # c
    BY <2>2 DEF ListInv
  <2>5. \A i, j \in 1 .. Len(clients') : clients'[i] = clients'[j] => i = j
    BY <2>3, <2>4 DEF ListInv
  <2>6. \A i \in 1 .. Len(clients') : pc'[clients'[i]] # "unborn"
    BY <2>1, <2>2, <2>3, SMTT(20) DEF ListInv, TypeOK
  <2> QED
    BY <2>5, <2>6 DEF ListInv
<1>3. CASE RemoveLast(k)
  <2>1. Len(clients) > 0
    BY <1>3 DEF RemoveLast, CallInv, TypeOK, Call
  <2>2. clients' = SubSeq(clients, 1, Len(clients) - 1) /\ pc' = pc
    BY <1>3 DEF RemoveLast, clientVars
  <2>3. /\ Len(clients') = Len(clients) - 1
        /\ \A i \in 1 .. Len(clients) - 1 : clients'[i] = clients[i]
        /\ Len(clients) \in Nat
    BY <2>1, <2>2, FrontFacts DEF TypeOK
  <2>4. \A i \in 1 .. Len(clients') : i \in 1 .. Len(clients) /\ clients'[i] = clients[i]
    BY <2>3
  <2> QED
    BY <2>2, <2>4 DEF ListInv
<1>4. CASE QuitClient(k)
  <2>1. \A d \in Client : pc[d] # "unborn" => pc'[d] # "unborn"
    BY <1>4, QuitEffects, EffectStarts DEF Effect
  <2>2. clients' = clients /\ \A i \in 1 .. Len(clients) : clients[i] \in Client
    BY <1>4 DEF QuitClient, TypeOK
  <2> QED
    BY <2>1, <2>2 DEF ListInv
<1>5. CASE RemoveReturns(k)
  <2>1. pc' = pc /\ (clients' = clients \/ clients' = << >>)
    BY <1>5 DEF RemoveReturns, clientVars
  <2> QED
    BY <2>1 DEF ListInv
<1> QED
  BY <1>1, <1>2, <1>3, <1>4, <1>5
     DEF CmdStart, CmdProgress, StartAdd, StartRemove, StartStop, AddFetch, AddRecount,
         AddAcquire, AddReturns, AddIndex, StopNext, clientVars

LEMMA StepList == TypeOK /\ CallInv /\ ListInv /\ [Next]_vars => ListInv'
<1> SUFFICES ASSUME TypeOK, CallInv, ListInv, [Next]_vars PROVE ListInv'
  OBVIOUS
<1>1. CASE \E c \in Client : ClientStep(c)
  <2>1. clients' = clients /\ \A i \in 1 .. Len(clients) : clients[i] \in Client
    BY <1>1, ClientLeavesCalls DEF TypeOK
  <2>2. \A d \in Client : pc[d] # "unborn" => pc'[d] # "unborn"
    BY <1>1, ClientEffects, EffectStarts
  <2> QED
    BY <2>1, <2>2 DEF ListInv
<1>2. CASE Refresh \/ Cancel \/ UNCHANGED vars
  BY <1>2 DEF Refresh, Cancel, vars, clientVars, ListInv
<1> QED
  BY <1>1, <1>2, CmdList DEF Next

-----------------------------------------------------------------------------
(* What the source rules out.                                              *)
LEMMA SourceFacts ==
    ASSUME TypeOK
    PROVE  /\ \A a \in Offers : a \in Addr \cup {Endpoint} /\ a # None
           /\ source = "api" => \A a \in Offers : a \in Addr
           /\ source = "rotating" => Offers = {Endpoint}
           /\ Endpoint \notin Addr
           /\ \A a, failed : ReleaseByAddress(a, failed) \/ AcquireForNetwork(a) \/ Fetch =>
                 /\ source' = source
                 /\ source = "api" => exits' = exits
                 /\ source = "rotating" => pool' = pool
<1>1. \A a \in Offers : a \in Addr \cup {Endpoint} /\ a # None
  BY NoneAssumption DEF Offers, Available, TypeOK, PoolType
<1>2. source = "api" => \A a \in Offers : a \in Addr
  BY DEF Offers, Available, TypeOK, PoolType
<1>3. \A a, failed : ReleaseByAddress(a, failed) \/ AcquireForNetwork(a) \/ Fetch =>
                 /\ source' = source
                 /\ source = "api" => exits' = exits
                 /\ source = "rotating" => pool' = pool
  BY DEF ReleaseByAddress, AcquireForNetwork, Fetch
<1> QED
  BY <1>1, <1>2, <1>3, SourceAssumption DEF Offers

LEMMA InitSource == Init => SourceInv
<1> SUFFICES ASSUME Init PROVE SourceInv
  OBVIOUS
<1>1. None \notin Addr /\ None # Endpoint
  BY NoneAssumption
<1>2. /\ source \in {"api", "rotating"}
      /\ \A c \in Client : pc[c] = "unborn" /\ current[c] = None
      /\ \A k \in Cmd : cmd[k].px = None
      /\ exits = 0 /\ ctxDone = FALSE
      /\ source = "rotating" => DOMAIN pool = {}
  BY SourceAssumption DEF Init, NoCall
<1> QED
  BY <1>1, <1>2 DEF SourceInv, Owning

LEMMA ClientSource ==
    ASSUME TypeOK, SourceInv, NEW c \in Client, NEW to,
           pc' = [pc EXCEPT ![c] = to], Effect(c, to), UNCHANGED <<ctxDone, cmd>>
    PROVE  SourceInv'
<1>1. /\ source' = source
      /\ source = "api" => exits' = exits
      /\ source = "rotating" => pool' = pool
  BY SourceFacts
     DEF Effect, Keeps, EndsWith, GivesBack, Looks, Takes, GoesWithout, poolVars
<1>2. CASE current' = current /\ (to \in Owning => pc[c] \in Owning)
           /\ (to = "gone" => ctxDone \/ Offers = {})
  <2>1. source = "rotating" => Offers # {}
    BY SourceFacts
  <2> QED
    BY <1>1, <1>2, <2>1 DEF SourceInv, TypeOK
<1>3. CASE Takes(c, to)
  <2>1. PICK a \in Offers : current' = [current EXCEPT ![c] = a]
    BY <1>3 DEF Takes
  <2>2. /\ a # None /\ a \in Addr \cup {Endpoint}
        /\ source = "api" => a # Endpoint
        /\ source = "rotating" => a \notin Addr
    BY SourceFacts
  <2>3. to # "gone"
    BY <1>3 DEF Takes
  <2> QED
    BY <1>1, <2>1, <2>2, <2>3 DEF SourceInv, TypeOK
<1> QED
  BY <1>2, <1>3 DEF Effect, Keeps, EndsWith, GivesBack, Looks, GoesWithout, Owning

LEMMA CmdSource ==
    ASSUME TypeOK, CallInv, SourceInv, NEW k \in Cmd, CmdStart(k) \/ CmdProgress(k)
    PROVE  SourceInv'
<1>0. /\ None \notin Addr /\ None # Endpoint
      /\ k \in DOMAIN cmd
  BY NoneAssumption DEF TypeOK
<1>1. ASSUME \A j \in Cmd : cmd'[j].px \in {cmd[j].px, None},
             UNCHANGED <<pc, current, ctxDone>>,
             source' = source, source = "api" => exits' = exits,
             source = "rotating" => pool' = pool
      PROVE  SourceInv'
  BY <1>0, <1>1 DEF SourceInv
<1>2. CASE \/ \E count \in 1 .. MaxAdd : StartAdd(k, count)
           \/ \E count \in 0 .. MaxAdd : StartRemove(k, count)
           \/ StartStop(k)
  <2>1. \A j \in Cmd : cmd'[j].px \in {cmd[j].px, None}
    BY <1>2, CallEffects, BoundAssumption DEF Calls
  <2>2. UNCHANGED <<pc, current, ctxDone, poolVars>>
    BY <1>2 DEF StartAdd, StartRemove, StartStop, clientVars
  <2> QED
    BY <1>1, <2>1, <2>2 DEF poolVars
<1>3. CASE \/ AddFetch(k) \/ AddRecount(k) \/ AddReturns(k) \/ AddIndex(k)
           \/ RemoveLast(k) \/ StopNext(k) \/ RemoveReturns(k)
  <2>1. \A j \in Cmd : cmd'[j].px \in {cmd[j].px, None}
    BY <1>3, CallEffects DEF Calls
  <2>2. UNCHANGED <<pc, current, ctxDone>>
    BY <1>3 DEF AddFetch, AddRecount, AddReturns, AddIndex, RemoveLast, StopNext,
                RemoveReturns, clientVars
  <2>3. \/ UNCHANGED poolVars \/ Fetch \/ \E a, failed : ReleaseByAddress(a, failed)
    BY <1>3 DEF AddFetch, AddRecount, AddReturns, AddIndex, RemoveLast, StopNext,
                RemoveReturns
  <2> QED
    BY <1>1, <2>1, <2>2, <2>3, SourceFacts DEF poolVars
<1>4. CASE AddAcquire(k)
  <2>1. PICK a \in Offers : /\ AcquireForNetwork(a)
                            /\ Calls(k, "index", cmd[k].todo, a, cmd[k].client)
    BY <1>4, CallEffects
  <2>2. UNCHANGED <<pc, current, ctxDone>>
    BY <1>4 DEF AddAcquire, clientVars
  <2>3. /\ source' = source
        /\ source = "api" => exits' = exits
        /\ source = "rotating" => pool' = pool
        /\ source = "api" => a # Endpoint
        /\ source = "rotating" => a \notin Addr
    BY <2>1, SourceFacts
  <2> QED
    BY <2>1, <2>2, <2>3 DEF SourceInv, Calls
<1>5. CASE AddAppend(k)
  <2>1. Calls(k, "acquire", cmd[k].todo - 1, None, cmd[k].client)
    BY <1>5, CallEffects
  <2>2. PICK c \in Unborn : /\ pc' = [pc EXCEPT ![c] = "dial"]
                            /\ current' = [current EXCEPT ![c] = cmd[k].px]
    BY <1>5 DEF AddAppend
  <2>3. cmd[k].px # None /\ UNCHANGED <<poolVars, ctxDone>>
    BY <1>5 DEF AddAppend, CallInv
  <2> QED
    BY <1>0, <2>1, <2>2, <2>3 DEF SourceInv, TypeOK, Calls, poolVars
<1>6. CASE QuitClient(k)
  <2>1. /\ \A j \in Cmd : cmd'[j].px = cmd[j].px
        /\ UNCHANGED <<poolVars, current, ctxDone>>
    <3>1. \E op : Calls(k, op, cmd[k].todo - 1, cmd[k].px, None)
      BY <1>6, CallEffects
    <3>2. UNCHANGED <<poolVars, current, ctxDone>>
      BY <1>6 DEF QuitClient
    <3> QED
      BY <3>1, <3>2 DEF Calls
  <2>2. CASE UNCHANGED pc
    BY <1>1, <2>1, <2>2 DEF poolVars
  <2>3. ASSUME NEW c \in Client, NEW to, pc' = [pc EXCEPT ![c] = to],
               Keeps(c, to) \/ EndsWith(c, to)
        PROVE  SourceInv'
    <3>1. /\ to \in Owning => pc[c] \in Owning
          /\ to = "gone" => ctxDone
      BY <2>3 DEF Keeps, EndsWith, Owning
    <3> QED
      BY <2>1, <2>3, <3>1 DEF SourceInv, TypeOK, poolVars
  <2> QED
    BY <1>6, <2>2, <2>3, QuitEffects
<1> QED
  BY <1>2, <1>3, <1>4, <1>5, <1>6 DEF CmdStart, CmdProgress

LEMMA StepSource == TypeOK /\ CallInv /\ SourceInv /\ [Next]_vars => SourceInv'
<1> SUFFICES ASSUME TypeOK, CallInv, SourceInv, [Next]_vars PROVE SourceInv'
  OBVIOUS
<1>1. CASE \E c \in Client : ClientStep(c)
  BY <1>1, ClientEffects, ClientLeavesCalls, ClientSource
<1>2. CASE Refresh
  <2>1. Fetch /\ UNCHANGED <<pc, current, ctxDone, cmd>>
    BY <1>2 DEF Refresh, clientVars
  <2> QED
    BY <2>1, SourceFacts DEF SourceInv
<1>3. CASE Cancel
  BY <1>3 DEF Cancel, SourceInv, poolVars, clientVars
<1>4. CASE UNCHANGED vars
  BY <1>4 DEF vars, SourceInv, poolVars, clientVars
<1> QED
  BY <1>1, <1>2, <1>3, <1>4, CmdSource DEF Next

-----------------------------------------------------------------------------
(* A step seen from the loans: who uses a proxy, who keeps it after the    *)
(* end, and what the pool is told.  Every step is of one of six kinds.     *)
LoansStay ==
    /\ Fetch \/ UNCHANGED poolVars
    /\ \A b \in Place : Users(b)' \subseteq Users(b) /\ Holders(b)' = Holders(b)
    /\ \/ \A b \in Place : Users(b)' = Users(b)
       \/ ctxDone /\ \E c \in Client : \A b \in Place : Users(b)' = Users(b) \ {c}

Borrows(x, a) ==
    /\ a \in Offers /\ AcquireForNetwork(a)
    /\ \A b \in Place : /\ x \notin Holders(b)
                         /\ Users(b)' = Users(b) \cup (IF b = a THEN {x} ELSE {})
                         /\ Holders(b)' = Holders(b) \cup (IF b = a THEN {x} ELSE {})

Repays(x, a) ==
    /\ x \in Users(a) /\ a \in Place /\ ReleaseByAddress(a, TRUE)
    /\ \A b \in Place : /\ Users(b)' = Users(b) \ {x}
                         /\ Holders(b)' = Holders(b) \ {x}

(* The command k that borrowed a leaves it to the client x.                *)
PassesOn(k, x, a) ==
    /\ k \in Users(a) /\ a \in Place /\ UNCHANGED poolVars
    /\ \A b \in Place :
         /\ x \notin Holders(b)
         /\ Users(b)' = IF b = a THEN (Users(b) \ {k}) \cup {x} ELSE Users(b)
         /\ Holders(b)' = IF b = a THEN (Holders(b) \ {k}) \cup {x} ELSE Holders(b)

(* Goroutines that ended keep what they had.                               *)
Stray ==
    /\ UNCHANGED poolVars
    /\ \A b \in Place : Users(b)' = Users(b) /\ Holders(b) \subseteq Holders(b)'
    /\ source = "rotating" => Holders(Endpoint)' = Holders(Endpoint)

(* A removal: the pool is told, the users are not.                         *)
Recalled ==
    /\ \E a : ReleaseByAddress(a, FALSE)
    /\ \A b \in Place : Users(b)' = Users(b) /\ Holders(b)' = Holders(b)
    /\ ~ Untouched'

LoanStep ==
    \/ LoansStay
    \/ \E x \in Goroutine, a \in Place : Borrows(x, a) \/ Repays(x, a)
    \/ \E k \in Cmd, x \in Client, a \in Place : PassesOn(k, x, a)
    \/ Stray
    \/ Recalled

LEMMA HoldersAreGoroutines ==
    ASSUME NEW a PROVE Users(a) \subseteq Holders(a) /\ Holders(a) \subseteq Goroutine
  BY DEF Holders, Users, Kept, Goroutine

(* One client's part in the users and holders of a proxy; a command's is   *)
(* the proxy it has in hand.                                               *)
LEMMA ClientLoans ==
    ASSUME TypeOK, SourceInv, NEW c \in Client, NEW to,
           pc' = [pc EXCEPT ![c] = to], Effect(c, to), UNCHANGED ctxDone,
           \A k \in Cmd : cmd'[k].px = cmd[k].px
    PROVE  LoanStep
<1>0. /\ pc \in [Client -> Live \cup {"unborn", "gone"}]
      /\ current \in [Client -> Place \cup {None}]
      /\ c \notin Cmd
      /\ \A d \in Client \ {c} : pc'[d] = pc[d]
      /\ pc'[c] = to
  BY GoroutineAssumption DEF TypeOK, Place
<1>1. CASE Keeps(c, to)
  <2>1. /\ current' = current /\ to \in Owning /\ pc[c] \in Owning /\ UNCHANGED poolVars
        /\ to # "gone" /\ pc[c] # "gone"
    BY <1>1 DEF Keeps, Owning
  <2>2. LoansStay
    BY <1>0, <2>1 DEF LoansStay, Users, Kept, Holders
  <2> QED
    BY <2>2 DEF LoanStep
<1>2. CASE EndsWith(c, to)
  <2>1. /\ current' = current /\ to = "gone" /\ pc[c] \in Owning /\ UNCHANGED poolVars
        /\ "gone" \notin Owning /\ pc[c] # "gone" /\ ctxDone
    BY <1>2 DEF EndsWith, Owning
  <2>2. \A b \in Place : Users(b)' = Users(b) \ {c} /\ Holders(b)' = Holders(b)
    BY <1>0, <2>1 DEF Users, Kept, Holders
  <2>3. LoansStay
    BY <2>1, <2>2 DEF LoansStay
  <2> QED
    BY <2>3 DEF LoanStep
<1>3. CASE GivesBack(c, to)
  <2>1. /\ current' = current /\ to # "gone" /\ to \notin Owning
        /\ pc[c] \in Owning /\ pc[c] # "gone"
        /\ ReleaseByAddress(current[c], TRUE)
    BY <1>3 DEF GivesBack, Owning
  <2>2. PICK a \in Place : a = current[c]
    BY <1>0, <2>1 DEF SourceInv
  <2>3. \A b \in Place : Users(b)' = Users(b) \ {c} /\ Holders(b)' = Holders(b) \ {c}
    BY <1>0, <2>1 DEF Users, Kept, Holders
  <2>4. c \in Users(a)
    BY <2>1, <2>2 DEF Users
  <2>5. Repays(c, a)
    BY <2>1, <2>2, <2>3, <2>4 DEF Repays
  <2> QED
    BY <2>5 DEF LoanStep, Goroutine
<1>4. CASE Looks(c, to)
  <2>0. Fetch \/ UNCHANGED poolVars
    BY <1>4 DEF Looks
  <2>1. /\ current' = current
        /\ to # "gone" /\ to \notin Owning /\ pc[c] # "gone" /\ pc[c] \notin Owning
    BY <1>4 DEF Looks, Owning
  <2>2. \A b \in Place : Users(b)' = Users(b) /\ Holders(b)' = Holders(b)
    BY <1>0, <2>1 DEF Users, Kept, Holders
  <2>3. LoansStay
    BY <2>0, <2>2 DEF LoansStay
  <2> QED
    BY <2>3 DEF LoanStep
<1>5. CASE Takes(c, to)
  <2>1. PICK a \in Offers : /\ AcquireForNetwork(a)
                            /\ current' = [current EXCEPT ![c] = a]
    BY <1>5 DEF Takes
  <2>2. to \in Owning /\ to # "gone" /\ pc[c] # "gone" /\ pc[c] \notin Owning
    BY <1>5 DEF Takes, Owning
  <2>3. /\ \A d \in Client \ {c} : current'[d] = current[d]
        /\ current'[c] = a
    BY <1>0, <2>1
  <2>4. \A b \in Place : /\ c \notin Holders(b)
                         /\ Users(b)' = Users(b) \cup (IF b = a THEN {c} ELSE {})
                         /\ Holders(b)' = Holders(b) \cup (IF b = a THEN {c} ELSE {})
    BY <1>0, <2>2, <2>3 DEF Users, Kept, Holders
  <2>5. Borrows(c, a) /\ a \in Place
    BY <2>1, <2>4, SourceFacts DEF Borrows, Place
  <2> QED
    BY <2>5 DEF LoanStep, Goroutine
<1>6. CASE GoesWithout(c, to)
  <2>1. /\ current' = current /\ to = "gone" /\ "gone" \notin Owning
        /\ pc[c] # "gone" /\ pc[c] \notin Owning
        /\ UNCHANGED poolVars /\ source # "rotating"
    BY <1>6, SourceFacts DEF GoesWithout, Owning
  <2>2. Stray
    BY <1>0, <2>1 DEF Stray, Users, Kept, Holders
  <2> QED
    BY <2>2 DEF LoanStep
<1> QED
  BY <1>1, <1>2, <1>3, <1>4, <1>5, <1>6 DEF Effect

LEMMA RemovalsShow ==
    ASSUME TypeOK, CallInv, ListInv, NEW k \in Cmd, RemoveLast(k) \/ StopNext(k)
    PROVE  ~ Untouched'
<1>0. CallOK(k)
  BY DEF CallInv, CallOK
<1>1. CASE StopNext(k)
  <2>1. cmd'[k].op = "stopquit"
    BY <1>1, CallEffects DEF Calls
  <2>2. clients' = clients /\ Len(clients) > 0
    BY <1>0, <1>1 DEF StopNext, CallOK, TypeOK, Call
  <2>3. Stopping'
    BY <2>1 DEF Stopping
  <2>4. clients' # << >>
    BY <2>2
  <2> QED
    BY <2>3, <2>4 DEF Untouched
<1>2. CASE RemoveLast(k)
  <2>1. Len(clients) > 0 /\ Len(clients) \in Nat
    BY <1>0, <1>2 DEF RemoveLast, CallOK, TypeOK, Call
  <2>2. PICK c \in Client : c = clients[Len(clients)]
    BY <2>1 DEF TypeOK
  <2>3. clients' = SubSeq(clients, 1, Len(clients) - 1) /\ pc' = pc
    BY <1>2 DEF RemoveLast, clientVars
  <2>4. /\ clients' \in Seq(Client)
        /\ Len(clients') = Len(clients) - 1
        /\ \A i \in 1 .. Len(clients) - 1 : clients'[i] = clients[i]
    BY <2>1, <2>3, FrontFacts DEF TypeOK
  <2>5. DOMAIN clients' = 1 .. Len(clients) - 1
    BY <2>4
  <2>6. \A i \in 1 .. Len(clients) - 1 : clients[i] # c
    BY <2>1, <2>2 DEF ListInv
  <2>7. pc'[c] # "unborn"
    BY <2>1, <2>2, <2>3 DEF ListInv
  <2>8. c \in RemovedClients'
    BY <2>4, <2>5, <2>6, <2>7 DEF RemovedClients, Listed
  <2> QED
    BY <2>8 DEF Untouched
<1> QED
  BY <1>1, <1>2

LEMMA CmdLoans ==
    ASSUME TypeOK, CallInv, ListInv, SourceInv, NEW k \in Cmd,
           CmdStart(k) \/ CmdProgress(k)
    PROVE  LoanStep
<1>0. CallOK(k) /\ k \notin Client
  BY GoroutineAssumption DEF CallInv, CallOK
<1>1. ASSUME \A j \in Cmd : cmd'[j].px = cmd[j].px, UNCHANGED <<pc, current, ctxDone>>
      PROVE  \A b \in Place : Users(b)' = Users(b) /\ Holders(b)' = Holders(b)
  BY <1>1 DEF Users, Kept, Holders
<1>2. CASE \/ \E count \in 1 .. MaxAdd : StartAdd(k, count)
           \/ \E count \in 0 .. MaxAdd : StartRemove(k, count)
           \/ StartStop(k)
  <2>1. cmd[k].px = None
    BY <1>0, <1>2 DEF CallOK, StartAdd, StartRemove, StartStop
  <2>2. \A j \in Cmd : cmd'[j].px = cmd[j].px
    BY <1>2, <2>1, CallEffects, BoundAssumption DEF Calls
  <2>3. UNCHANGED <<pc, current, ctxDone>> /\ UNCHANGED poolVars
    BY <1>2 DEF StartAdd, StartRemove, StartStop, clientVars
  <2> QED
    BY <1>1, <2>2, <2>3 DEF LoanStep, LoansStay
<1>3. CASE \/ AddFetch(k) \/ AddRecount(k) \/ AddReturns(k) \/ AddIndex(k)
           \/ RemoveReturns(k)
  <2>1. AddReturns(k) \/ RemoveReturns(k) => cmd[k].px = None
    BY <1>0 DEF CallOK, AddReturns, RemoveReturns
  <2>2. \A j \in Cmd : cmd'[j].px = cmd[j].px
    BY <1>3, <2>1, CallEffects DEF Calls
  <2>3. UNCHANGED <<pc, current, ctxDone>> /\ (Fetch \/ UNCHANGED poolVars)
    BY <1>3 DEF AddFetch, AddRecount, AddReturns, AddIndex, RemoveReturns, clientVars
  <2> QED
    BY <1>1, <2>2, <2>3 DEF LoanStep, LoansStay
<1>4. CASE AddAcquire(k)
  <2>1. PICK a \in Offers : /\ AcquireForNetwork(a)
                            /\ Calls(k, "index", cmd[k].todo, a, cmd[k].client)
    BY <1>4, CallEffects
  <2>2. cmd[k].px = None /\ UNCHANGED <<pc, current, ctxDone>>
    BY <1>0, <1>4 DEF AddAcquire, clientVars, CallOK
  <2>3. None \notin Place /\ a \in Place
    BY NoneAssumption, SourceFacts DEF Place
  <2>4. \A b \in Place : /\ k \notin Holders(b)
                         /\ Users(b)' = Users(b) \cup (IF b = a THEN {k} ELSE {})
                         /\ Holders(b)' = Holders(b) \cup (IF b = a THEN {k} ELSE {})
    BY <1>0, <2>1, <2>2, <2>3 DEF Users, Kept, Holders, Calls
  <2>5. Borrows(k, a)
    BY <2>1, <2>4 DEF Borrows
  <2> QED
    BY <2>3, <2>5 DEF LoanStep, Goroutine
<1>5. CASE AddAppend(k)
  <2>1. Calls(k, "acquire", cmd[k].todo - 1, None, cmd[k].client)
    BY <1>5, CallEffects
  <2>2. PICK c \in Client : /\ pc[c] = "unborn"
                            /\ pc' = [pc EXCEPT ![c] = "dial"]
                            /\ current' = [current EXCEPT ![c] = cmd[k].px]
    BY <1>5 DEF AddAppend, Unborn
  <2>3. UNCHANGED poolVars /\ UNCHANGED ctxDone
    BY <1>5 DEF AddAppend
  <2>4. cmd[k].px # None /\ cmd[k].px \in Place \cup {None}
    BY <1>0, <1>5 DEF AddAppend, CallOK, TypeOK, Call, Place
  <2>5. PICK a \in Place : a = cmd[k].px
    BY <2>4
  <2>6. /\ pc'[c] = "dial" /\ current'[c] = a
        /\ \A d \in Client \ {c} : pc'[d] = pc[d] /\ current'[d] = current[d]
        /\ "dial" \in Owning /\ "unborn" \notin Owning
    BY <2>2, <2>5 DEF TypeOK, Owning
  <2>7. /\ cmd'[k].px \notin Place
        /\ \A j \in Cmd \ {k} : cmd'[j].px = cmd[j].px
    BY <2>1, NoneAssumption DEF Calls, Place
  <2>8. k \in Users(a)
    BY <2>5 DEF Users
  <2>9. c \notin Cmd /\ k \notin Client
    BY GoroutineAssumption
  <2>10. \A b \in Place : c \notin Holders(b)
    BY <2>2, <2>6, <2>9 DEF Users, Kept, Holders
  <2>11. ASSUME NEW b \in Place
         PROVE  /\ Users(b)' = IF b = a THEN (Users(b) \ {k}) \cup {c} ELSE Users(b)
                /\ Kept(b)' = Kept(b)
    <3>1. Kept(b)' = Kept(b)
      BY <2>2, <2>3, <2>6 DEF Kept
    <3>2. ASSUME NEW x
          PROVE  x \in Users(b)' <=> \/ x \in Users(b) /\ x # k
                                     \/ x = c /\ b = a
                                     \/ x = k /\ b # a /\ x \in Users(b)
      BY <2>2, <2>5, <2>6, <2>7, <2>9 DEF Users
    <3>3. k \in Users(b) <=> b = a
      BY <2>5, <2>9 DEF Users
    <3> HIDE DEF Users
    <3>4. b = a => Users(b)' = (Users(b) \ {k}) \cup {c}
      BY <3>2, <3>3
    <3>5. b # a => Users(b)' = Users(b)
      BY <3>2, <3>3
    <3> QED
      BY <3>1, <3>4, <3>5
  <2>12. \A b \in Place : k \notin Kept(b)
    BY <2>9 DEF Kept
  <2>13. \A b \in Place :
           Holders(b)' = IF b = a THEN (Holders(b) \ {k}) \cup {c} ELSE Holders(b)
    BY <2>11, <2>12 DEF Holders
  <2>14. PassesOn(k, c, a)
    BY <2>3, <2>8, <2>10, <2>11, <2>13 DEF PassesOn
  <2> QED
    BY <2>14 DEF LoanStep
<1>6. CASE RemoveLast(k) \/ StopNext(k)
  <2>1. \A j \in Cmd : cmd'[j].px = cmd[j].px
    BY <1>6, CallEffects DEF Calls
  <2>2. /\ UNCHANGED <<pc, current, ctxDone>>
        /\ \E a : ReleaseByAddress(a, FALSE)
    BY <1>6 DEF RemoveLast, StopNext, clientVars
  <2> QED
    BY <1>1, <1>6, <2>1, <2>2, RemovalsShow DEF LoanStep, Recalled
<1>7. CASE QuitClient(k)
  <2>1. \A j \in Cmd : cmd'[j].px = cmd[j].px
    <3>1. \E op : Calls(k, op, cmd[k].todo - 1, cmd[k].px, None)
      BY <1>7, CallEffects
    <3> QED
      BY <3>1 DEF Calls
  <2>2. UNCHANGED ctxDone
    BY <1>7 DEF QuitClient
  <2>3. CASE UNCHANGED <<poolVars, pc, current>>
    BY <1>1, <2>1, <2>2, <2>3 DEF LoanStep, LoansStay
  <2>4. ASSUME NEW c \in Client, NEW to, pc' = [pc EXCEPT ![c] = to],
               Keeps(c, to) \/ EndsWith(c, to)
        PROVE  LoanStep
    BY <2>1, <2>2, <2>4, ClientLoans DEF Effect
  <2> QED
    BY <1>7, <2>3, <2>4, QuitEffects
<1> QED
  BY <1>2, <1>3, <1>4, <1>5, <1>6, <1>7 DEF CmdStart, CmdProgress

LEMMA StepLoans ==
    ASSUME TypeOK, CallInv, ListInv, SourceInv, [Next]_vars
    PROVE  LoanStep
<1>1. CASE \E c \in Client : ClientStep(c)
  BY <1>1, ClientEffects, ClientLeavesCalls, ClientLoans
<1>2. CASE Refresh
  <2>1. Fetch /\ UNCHANGED <<pc, current, ctxDone, cmd>>
    BY <1>2 DEF Refresh, clientVars
  <2> QED
    BY <2>1 DEF LoanStep, LoansStay, Users, Kept, Holders
<1>3. CASE Cancel
  <2>1. /\ UNCHANGED poolVars
        /\ UNCHANGED <<pc, current, cmd>>
        /\ ~ ctxDone /\ ctxDone'
    BY <1>3 DEF Cancel, clientVars
  <2>2. \A b \in Place : Users(b)' = Users(b) /\ Holders(b) \subseteq Holders(b)'
    BY <2>1 DEF Users, Kept, Holders
  <2>3. source = "rotating" => Holders(Endpoint)' = Holders(Endpoint)
    BY <2>1 DEF Users, Kept, Holders, SourceInv
  <2> QED
    BY <2>1, <2>2, <2>3 DEF LoanStep, Stray
<1>4. CASE UNCHANGED vars
  <2>1. UNCHANGED poolVars /\ UNCHANGED <<pc, current, ctxDone, cmd>>
    BY <1>4 DEF vars, clientVars
  <2> QED
    BY <2>1 DEF LoanStep, LoansStay, Users, Kept, Holders
<1> QED
  BY <1>1, <1>2, <1>3, <1>4, CmdLoans DEF Next

-----------------------------------------------------------------------------
(* Cardinalities.                                                          *)
LEMMA GoroutineCounts ==
    ASSUME NEW S \in SUBSET Goroutine
    PROVE  IsFiniteSet(S) /\ Cardinality(S) \in Nat
<1>1. IsFiniteSet(Goroutine)
  BY GoroutineAssumption, FS_Union DEF Goroutine
<1>2. IsFiniteSet(S)
  BY <1>1, FS_Subset
<1> QED
  BY <1>2, FS_CardinalityType

LEMMA SwapCounts ==
    ASSUME NEW S, IsFiniteSet(S), NEW x \in S, NEW y, y \notin S
    PROVE  Cardinality((S \ {x}) \cup {y}) = Cardinality(S)
<1>1. IsFiniteSet(S \ {x}) /\ Cardinality(S \ {x}) = Cardinality(S) - 1
  BY FS_RemoveElement
<1>2. Cardinality((S \ {x}) \cup {y}) = Cardinality(S \ {x}) + 1
  BY <1>1, FS_AddElement
<1>3. Cardinality(S) \in Nat
  BY FS_CardinalityType
<1> QED
  BY <1>1, <1>2, <1>3

LEMMA EndpointCounts ==
    ASSUME TypeOK, SourceInv, source = "rotating", LoanStep
    PROVE  /\ Held \in Nat
           /\ \/ exits' = exits /\ Held' = Held
              \/ exits' = exits + 1 /\ Held' = Held + 1
              \/ exits' = (IF exits = 0 THEN 0 ELSE exits - 1) /\ Held' = Held - 1 /\ Held > 0
              \/ /\ exits' = (IF exits = 0 THEN 0 ELSE exits - 1) /\ Held' = Held
                 /\ ~ Untouched'
<1>0. /\ Endpoint \in Place /\ Held \in Nat
      /\ IsFiniteSet(Holders(Endpoint))
  BY HoldersAreGoroutines, GoroutineCounts DEF Place, Held
<1>1. CASE LoansStay
  <2>1. exits' = exits
    BY <1>1 DEF LoansStay, Fetch, poolVars
  <2>2. Holders(Endpoint)' = Holders(Endpoint)
    BY <1>0, <1>1 DEF LoansStay
  <2> QED
    BY <1>0, <2>1, <2>2 DEF Held
<1>2. ASSUME NEW x \in Goroutine, NEW a \in Place, Borrows(x, a)
      PROVE  exits' = exits + 1 /\ Held' = Held + 1
  <2>1. a = Endpoint
    BY <1>2, SourceFacts DEF Borrows
  <2>2. x \notin Holders(Endpoint) /\ Holders(Endpoint)' = Holders(Endpoint) \cup {x}
    BY <1>0, <1>2, <2>1 DEF Borrows
  <2>3. exits' = exits + 1
    BY <1>2 DEF Borrows, AcquireForNetwork
  <2> QED
    BY <1>0, <2>2, <2>3, FS_AddElement DEF Held
<1>3. ASSUME NEW x \in Goroutine, NEW a \in Place, Repays(x, a)
      PROVE  /\ exits' = (IF exits = 0 THEN 0 ELSE exits - 1)
             /\ Held' = Held - 1 /\ Held > 0
  <2>1. a = Endpoint
    BY <1>3 DEF Repays, Users, SourceInv, Place
  <2>2. /\ x \in Holders(Endpoint)
        /\ Holders(Endpoint)' = Holders(Endpoint) \ {x}
    BY <1>0, <1>3, <2>1, HoldersAreGoroutines DEF Repays
  <2>3. exits' = (IF exits = 0 THEN 0 ELSE exits - 1)
    BY <1>3 DEF Repays, ReleaseByAddress
  <2>4. Held' = Held - 1
    BY <1>0, <2>2, FS_RemoveElement DEF Held
  <2>5. Held # 0
    BY <1>0, <2>2, FS_EmptySet DEF Held
  <2> QED
    BY <1>0, <2>3, <2>4, <2>5
<1>4. ASSUME NEW k \in Cmd, NEW x \in Client, NEW a \in Place, PassesOn(k, x, a)
      PROVE  exits' = exits /\ Held' = Held
  <2>1. exits' = exits
    BY <1>4 DEF PassesOn, poolVars
  <2>2. a = Endpoint
    BY <1>4 DEF PassesOn, Users, SourceInv, Place
  <2>3. /\ k \in Holders(Endpoint) /\ x \notin Holders(Endpoint)
        /\ Holders(Endpoint)' = (Holders(Endpoint) \ {k}) \cup {x}
    BY <1>0, <1>4, <2>2, HoldersAreGoroutines DEF PassesOn
  <2> QED
    BY <1>0, <2>1, <2>3, SwapCounts DEF Held
<1>5. CASE Stray
  <2>1. exits' = exits /\ Holders(Endpoint)' = Holders(Endpoint)
    BY <1>5 DEF Stray, poolVars
  <2> QED
    BY <1>0, <2>1 DEF Held
<1>6. CASE Recalled
  <2>1. Holders(Endpoint)' = Holders(Endpoint)
    BY <1>0, <1>6 DEF Recalled
  <2>2. exits' = (IF exits = 0 THEN 0 ELSE exits - 1)
    BY <1>6 DEF Recalled, ReleaseByAddress
  <2> QED
    BY <1>0, <1>6, <2>1, <2>2 DEF Held, Recalled
<1> QED
  BY <1>0, <1>1, <1>2, <1>3, <1>4, <1>5, <1>6 DEF LoanStep

-----------------------------------------------------------------------------
(* Which proxies are recorded for the network after a pool step.           *)
LEMMA LentFacts ==
    ASSUME TypeOK, SourceInv
    PROVE  /\ source = "rotating" => \A b : ~ Lent(b)
           /\ Fetch \/ UNCHANGED poolVars => \A b : Lent(b)' <=> Lent(b)
           /\ \A a \in Offers : AcquireForNetwork(a) /\ source = "api" =>
                 ~ Lent(a) /\ \A b : Lent(b)' <=> Lent(b) \/ b = a
           /\ \A a, failed : ReleaseByAddress(a, failed) =>
                 \A b : Lent(b)' <=> Lent(b) /\ b # a
<1>1. source = "rotating" => \A b : ~ Lent(b)
  BY DEF SourceInv, Lent, Marked
<1>2. ASSUME Fetch \/ UNCHANGED poolVars PROVE \A b : Lent(b)' <=> Lent(b)
  <2>1. CASE Fetch
    <3>1. PICK alive \in SUBSET Addr : pool' = Fetched(pool, alive)
      BY <2>1 DEF Fetch
    <3> QED
      BY <3>1, FetchedFacts DEF Lent, TypeOK
  <2>2. CASE UNCHANGED poolVars
    BY <2>2 DEF poolVars, Lent
  <2> QED
    BY <1>2, <2>1, <2>2
<1>3. ASSUME NEW a \in Offers, AcquireForNetwork(a), source = "api"
      PROVE  ~ Lent(a) /\ \A b : Lent(b)' <=> Lent(b) \/ b = a
  <2>1. a \in DOMAIN pool /\ ~ Lent(a) /\ Net \in Network
    BY <1>3, NetAssumption DEF Offers, Available, Lent, Marked
  <2>2. pool' = Acquired(pool, a, Net)
    BY <1>3 DEF AcquireForNetwork
  <2> QED
    BY <2>1, <2>2, AcquiredFacts DEF Lent, TypeOK
<1>4. ASSUME NEW a, NEW failed, ReleaseByAddress(a, failed)
      PROVE  \A b : Lent(b)' <=> Lent(b) /\ b # a
  <2>1. CASE source = "rotating"
    BY <1>1, <1>4, <2>1 DEF ReleaseByAddress, Lent
  <2>2. CASE source # "rotating"
    <3>1. pool' = Released(pool, a, Net, failed) /\ Net \in Network
      BY <1>4, <2>2, NetAssumption DEF ReleaseByAddress
    <3> QED
      BY <3>1, ReleasedFacts DEF Lent, TypeOK
  <2> QED
    BY <2>1, <2>2
<1> QED
  BY <1>1, <1>2, <1>3, <1>4

(* A goroutine holds one proxy at a time.                                  *)
LEMMA HoldsOne ==
    ASSUME NEW x, NEW a, NEW b, x \in Users(a), x \in Holders(b) PROVE a = b
  BY GoroutineAssumption DEF Users, Kept, Holders

-----------------------------------------------------------------------------
LEMMA InitLoans == Init => NoLeakedMark /\ LoanInv
<1> SUFFICES ASSUME Init PROVE NoLeakedMark /\ LoanInv
  OBVIOUS
<1>1. None \notin Place
  BY NoneAssumption DEF Place
<1>2. \A a \in Place : Users(a) = {} /\ Kept(a) = {}
  BY <1>1 DEF Init, NoCall, Users, Kept, Owning
<1>3. exits = 0 /\ \A a \in Addr : ~ Marked(pool, a, Net)
  BY DEF Init, Marked, Fresh
<1>4. Cardinality(Users(Endpoint) \cup Kept(Endpoint)) = 0
  BY <1>2, FS_EmptySet DEF Place
<1> QED
  BY <1>2, <1>3, <1>4 DEF NoLeakedMark, LoanInv, Exclusive, Held, Holders, Place

LEMMA LoanSource ==
    ASSUME TypeOK, LoanStep PROVE source' = source
  BY SourceFacts DEF LoanStep, LoansStay, Borrows, Repays, PassesOn, Stray, Recalled, poolVars

LEMMA StepLeaks ==
    ASSUME TypeOK, SourceInv, SourceInv', NoLeakedMark, LoanStep
    PROVE  NoLeakedMark'
<1>1. \A a \in Addr : Lent(a) => Holders(a) # {}
  BY DEF NoLeakedMark, Lent, Holders
<1>2. Addr \subseteq Place /\ Endpoint \notin Addr
  BY SourceAssumption DEF Place
<1>3. SUFFICES /\ \A b \in Addr : Lent(b)' => Holders(b)' # {}
               /\ exits' <= Held'
  BY DEF NoLeakedMark, Lent, Holders, Held
<1>4. exits' <= Held'
  <2>1. CASE source' = "api"
    <3>1. exits' = 0
      BY <2>1 DEF SourceInv
    <3>2. Holders(Endpoint)' \subseteq Goroutine
      BY DEF Holders, Users, Kept, Goroutine
    <3>3. Cardinality(Holders(Endpoint)') \in Nat
      BY <3>2, GoroutineCounts
    <3> QED
      BY <3>1, <3>3 DEF Held
  <2>2. CASE source' = "rotating"
    <3>1. source = "rotating"
      BY <2>2, LoanSource
    <3>2. exits <= Held /\ exits \in Nat
      BY DEF NoLeakedMark, Held, Holders, TypeOK
    <3> QED
      BY <3>1, <3>2, EndpointCounts
  <2> QED
    BY <2>1, <2>2 DEF SourceInv
<1>5. ASSUME NEW b \in Addr, Lent(b)' PROVE Holders(b)' # {}
  <2>0. b \in Place
    BY <1>2
  <2>1. CASE LoansStay
    BY <1>1, <1>5, <2>0, <2>1, LentFacts DEF LoansStay
  <2>2. ASSUME NEW x \in Goroutine, NEW a \in Place, Borrows(x, a)
        PROVE  Holders(b)' # {}
    <3>1. Lent(b) \/ b = a
      <4>1. CASE source = "api"
        BY <1>5, <2>2, <4>1, LentFacts DEF Borrows
      <4>2. CASE source = "rotating"
        BY <1>5, <2>2, <4>2, SourceFacts DEF Borrows, Lent
      <4> QED
        BY <4>1, <4>2 DEF SourceInv
    <3> QED
      BY <1>1, <2>0, <2>2, <3>1 DEF Borrows
  <2>3. ASSUME NEW x \in Goroutine, NEW a \in Place, Repays(x, a)
        PROVE  Holders(b)' # {}
    <3>1. Lent(b) /\ b # a
      BY <1>5, <2>3, LentFacts DEF Repays
    <3>2. x \notin Holders(b)
      BY <2>3, <3>1, HoldsOne DEF Repays
    <3> QED
      BY <1>1, <2>0, <2>3, <3>1, <3>2 DEF Repays
  <2>4. ASSUME NEW k \in Cmd, NEW x \in Client, NEW a \in Place, PassesOn(k, x, a)
        PROVE  Holders(b)' # {}
    <3>1. Lent(b)
      BY <1>5, <2>4 DEF PassesOn, Lent, poolVars
    <3> QED
      BY <1>1, <2>0, <2>4, <3>1 DEF PassesOn
  <2>5. CASE Stray
    <3>1. Lent(b)
      BY <1>5, <2>5 DEF Stray, Lent, poolVars
    <3> QED
      BY <1>1, <2>0, <2>5, <3>1 DEF Stray
  <2>6. CASE Recalled
    <3>1. Lent(b)
      BY <1>5, <2>6, LentFacts DEF Recalled
    <3> QED
      BY <1>1, <2>0, <2>6, <3>1 DEF Recalled
  <2> QED
    BY <2>1, <2>2, <2>3, <2>4, <2>5, <2>6 DEF LoanStep
<1> QED
  BY <1>4, <1>5

-----------------------------------------------------------------------------
(* A step that leaves the list untouched found it untouched: a client once *)
(* taken off it stays off, and the Stop that may begin or end here had no  *)
(* client to stop.                                                         *)
Born(c) == pc[c] # "unborn"

LEMMA UntouchedBefore ==
    ASSUME TypeOK, CallInv, ListInv, [Next]_vars, Untouched'
    PROVE  Untouched
<1>1. ASSUME clients' = clients, \A d \in Client : Born(d)' <=> Born(d),
             \A j \in Cmd : cmd[j].op \in {"stop", "stopquit"}
                           => Stopping' \/ clients = << >>
      PROVE  Untouched
  BY <1>1 DEF Untouched, RemovedClients, Listed, Stopping, Born
<1>2. CASE \E c \in Client : ClientStep(c)
  <2>1. clients' = clients /\ cmd' = cmd
    BY <1>2, ClientLeavesCalls
  <2>2. \A d \in Client : Born(d)' <=> Born(d)
    BY <1>2, ClientEffects, EffectStarts DEF Born
  <2> QED
    BY <1>1, <2>1, <2>2 DEF Stopping
<1>3. CASE Refresh \/ Cancel \/ UNCHANGED vars
  BY <1>1, <1>3 DEF Refresh, Cancel, vars, clientVars, Born, Stopping
<1>4. ASSUME NEW k \in Cmd, CmdStart(k) \/ CmdProgress(k)
      PROVE  Untouched
  <2>0. CallOK(k)
    BY DEF CallInv, CallOK
  <2>1. CASE \/ \E count \in 1 .. MaxAdd : StartAdd(k, count)
             \/ \E count \in 0 .. MaxAdd : StartRemove(k, count)
             \/ StartStop(k)
    <3>1. clients' = clients /\ pc' = pc /\ cmd[k].op = "idle"
      BY <2>1 DEF StartAdd, StartRemove, StartStop, clientVars
    <3>2. \A j \in Cmd \ {k} : cmd'[j] = cmd[j]
      BY <2>1, CallEffects, BoundAssumption DEF Calls
    <3> QED
      BY <1>1, <3>1, <3>2 DEF Stopping, Born
  <2>2. CASE \/ AddFetch(k) \/ AddRecount(k) \/ AddReturns(k) \/ AddIndex(k)
             \/ AddAcquire(k)
    <3>1. clients' = clients /\ pc' = pc /\ cmd[k].op \notin {"stop", "stopquit"}
      BY <2>2 DEF AddFetch, AddRecount, AddReturns, AddIndex, AddAcquire, clientVars
    <3>2. \A j \in Cmd \ {k} : cmd'[j] = cmd[j]
      BY <2>2, CallEffects DEF Calls
    <3> QED
      BY <1>1, <3>1, <3>2 DEF Stopping, Born
  <2>3. CASE AddAppend(k)
    <3>1. PICK c \in Client : /\ pc[c] = "unborn"
                              /\ pc' = [pc EXCEPT ![c] = "dial"]
                              /\ clients' = Append(clients, c)
      BY <2>3 DEF AddAppend, Unborn
    <3>2. /\ Len(clients') = Len(clients) + 1
          /\ Len(clients) \in Nat
          /\ DOMAIN clients' = 1 .. Len(clients) + 1
          /\ DOMAIN clients = 1 .. Len(clients)
          /\ \A i \in 1 .. Len(clients) : clients'[i] = clients[i]
          /\ clients'[Len(clients) + 1] = c
      BY <3>1 DEF TypeOK
    <3>3. Listed' = Listed \cup {c}
      BY <3>2 DEF Listed
    <3>4. RemovedClients \subseteq RemovedClients'
      BY <3>1, <3>3 DEF RemovedClients, TypeOK
    <3>5. ~ Stopping'
      <4>1. clients' # << >>
        BY <3>2
      <4> QED
        BY <4>1 DEF Untouched
    <3>6. \A j \in Cmd \ {k} : cmd'[j] = cmd[j]
      BY <2>3, CallEffects DEF Calls
    <3>7. cmd[k].op = "append"
      BY <2>3 DEF AddAppend
    <3> QED
      BY <3>4, <3>5, <3>6, <3>7 DEF Untouched, Stopping
  <2>4. CASE RemoveLast(k) \/ StopNext(k)
    BY <2>4, RemovalsShow
  <2>5. CASE QuitClient(k)
    <3>1. clients' = clients
      BY <2>5 DEF QuitClient
    <3>2. \A d \in Client : Born(d)' <=> Born(d)
      BY <2>5, QuitEffects, EffectStarts DEF Effect, Born
    <3>3. /\ \A j \in Cmd \ {k} : cmd'[j] = cmd[j]
          /\ cmd[k].op = "stopquit" => cmd'[k].op = "stop"
      BY <2>5, CallEffects DEF Calls
    <3>4. cmd[k].op \in {"rmquit", "stopquit"}
      BY <2>5 DEF QuitClient
    <3> QED
      BY <1>1, <3>1, <3>2, <3>3, <3>4 DEF Stopping
  <2>6. CASE RemoveReturns(k)
    <3>1. /\ pc' = pc
          /\ clients' = IF cmd[k].op = "stop" THEN << >> ELSE clients
      BY <2>6 DEF RemoveReturns, clientVars
    <3>2. CASE cmd[k].op = "stop"
      <4>1. \A c \in Client : ~ Born(c)
        BY <3>1, <3>2 DEF Untouched, RemovedClients, Listed, Born
      <4>2. clients = << >>
        <5>1. clients \in Seq(Client) /\ Len(clients) \in Nat
          BY DEF TypeOK
        <5>2. Len(clients) # 0 => clients[1] \in Client /\ Born(clients[1])
          BY <5>1 DEF ListInv, Born
        <5> QED
          BY <4>1, <5>1, <5>2
      <4> QED
        BY <4>1, <4>2 DEF Untouched, RemovedClients, Born
    <3>3. CASE cmd[k].op # "stop"
      <4>1. \A j \in Cmd \ {k} : cmd'[j] = cmd[j]
        BY <2>6, CallEffects DEF Calls
      <4>2. cmd[k].op = "rm"
        BY <2>6, <3>3 DEF RemoveReturns
      <4> QED
        BY <1>1, <3>1, <4>1, <4>2 DEF Stopping, Born
    <3> QED
      BY <3>2, <3>3
  <2> QED
    BY <1>4, <2>1, <2>2, <2>3, <2>4, <2>5, <2>6 DEF CmdStart, CmdProgress
<1> QED
  BY <1>2, <1>3, <1>4 DEF Next


LEMMA StepCareful ==
    ASSUME TypeOK, SourceInv, SourceInv', LoanInv, LoanStep, Untouched, Untouched'
    PROVE  LoanInv'
<1>1. \A b \in Addr : /\ \A x, y \in Users(b) : x = y
                      /\ Users(b) # {} => Lent(b)
  BY DEF LoanInv, Exclusive
<1>2. Addr \subseteq Place /\ Endpoint \notin Addr
  BY SourceAssumption DEF Place
<1>3. SUFFICES (\A b \in Addr : Exclusive(b)') /\ exits' = Held'
  BY DEF LoanInv
<1>4. exits' = Held'
  <2>1. CASE source' = "api"
    <3>1. exits' = 0
      BY <2>1 DEF SourceInv
    <3>2. Holders(Endpoint)' = {}
      BY <2>1 DEF Holders, Users, Kept, SourceInv
    <3> QED
      BY <3>1, <3>2, FS_EmptySet DEF Held
  <2>2. CASE source' = "rotating"
    <3>1. source = "rotating"
      BY <2>2, LoanSource
    <3>2. exits = Held
      BY DEF LoanInv
    <3> QED
      BY <3>1, <3>2, EndpointCounts
  <2> QED
    BY <2>1, <2>2 DEF SourceInv
<1>5. ASSUME NEW b \in Addr PROVE Exclusive(b)'
  <2>0. b \in Place
    BY <1>2
  <2>1. CASE LoansStay
    BY <1>1, <2>0, <2>1, LentFacts DEF LoansStay, Exclusive
  <2>2. ASSUME NEW x \in Goroutine, NEW a \in Place, Borrows(x, a)
        PROVE  Exclusive(b)'
    <3>1. CASE source = "api"
      <4>1. ~ Lent(a) /\ (Lent(b)' <=> Lent(b) \/ b = a)
        BY <2>2, <3>1, LentFacts DEF Borrows, Exclusive
      <4>2. b = a => Users(b) = {}
        BY <1>1, <4>1
      <4> QED
        BY <1>1, <2>0, <2>2, <4>1, <4>2 DEF Borrows, Exclusive
    <3>2. CASE source = "rotating"
      <4>1. a = Endpoint
        BY <2>2, <3>2, SourceFacts DEF Borrows, Exclusive
      <4>2. pool' = pool
        BY <2>2, <3>2 DEF Borrows, AcquireForNetwork
      <4> QED
        BY <1>1, <1>2, <2>0, <2>2, <4>1, <4>2 DEF Borrows, Lent, Exclusive
    <3> QED
      BY <3>1, <3>2 DEF SourceInv
  <2>3. ASSUME NEW x \in Goroutine, NEW a \in Place, Repays(x, a)
        PROVE  Exclusive(b)'
    <3>1. Lent(b)' <=> Lent(b) /\ b # a
      BY <2>3, LentFacts DEF Repays, Exclusive
    <3>2. b = a => Users(b)' = {}
      BY <1>1, <2>0, <2>3 DEF Repays, Exclusive
    <3> QED
      BY <1>1, <2>0, <2>3, <3>1, <3>2 DEF Repays, Exclusive
  <2>4. ASSUME NEW k \in Cmd, NEW x \in Client, NEW a \in Place, PassesOn(k, x, a)
        PROVE  Exclusive(b)'
    <3>1. Lent(b)' <=> Lent(b)
      BY <2>4 DEF PassesOn, Lent, poolVars
    <3> QED
      BY <1>1, <2>0, <2>4, <3>1 DEF PassesOn, Exclusive
  <2>5. CASE Stray
    BY <1>1, <2>0, <2>5 DEF Stray, Lent, poolVars, Exclusive
  <2>6. CASE Recalled
    BY <2>6 DEF Recalled
  <2> QED
    BY <2>1, <2>2, <2>3, <2>4, <2>5, <2>6 DEF LoanStep
<1> QED
  BY <1>3, <1>4, <1>5

LEMMA StepUntouched ==
    ASSUME TypeOK, CallInv, ListInv, SourceInv, SourceInv', LoanInv, [Next]_vars
    PROVE  LoanInv'
<1>1. CASE Untouched'
  BY <1>1, UntouchedBefore, StepLoans, StepCareful
<1>2. CASE ~ Untouched'
  BY <1>2 DEF LoanInv
<1> QED
  BY <1>1, <1>2

-----------------------------------------------------------------------------
LEMMA Invariance == Spec => []IInv
<1>1. Init => IInv
  BY InitTypes, InitSource, InitCalls, InitList, InitLoans DEF IInv
<1>2. IInv /\ [Next]_vars => IInv'
  BY StepTypes, StepSource, StepCalls, StepList, StepLoans, StepLeaks, StepUntouched
     DEF IInv
<1> QED
  BY <1>1, <1>2, PTL DEF Spec

(* Every variable keeps its type: no counter of a command goes below zero  *)
(* and no client makes more attempts on one proxy than MaxConnects, in     *)
(* whatever order commands and rotations interleave.                       *)
THEOREM ManagerTypeCorrect == Spec => []TypeOK
<1>1. IInv => TypeOK
  BY DEF IInv
<1> QED
  BY <1>1, Invariance, PTL

(* The pool never records a proxy as connected to the network when nobody  *)
(* is left to release it, other than a goroutine that ended with the       *)
(* manager's context; and a rotating pool has no more entries than the     *)
(* connections that hold its endpoint.                                     *)
THEOREM NoMarkLeaks == Spec => []NoLeakedMark
<1>1. IInv => NoLeakedMark
  BY DEF IInv
<1> QED
  BY <1>1, Invariance, PTL

(* Until a client is removed, a proxy has one user on the network and the  *)
(* pool has recorded the loan, whoever else acquires, rotates or refreshes *)
(* at the same time.                                                       *)
THEOREM LoansAgree == Spec => []OneUserUntilRemoval
<1>1. IInv => OneUserUntilRemoval
  <2> SUFFICES ASSUME IInv, RemovedClients = {}, ~ Stopping
               PROVE  /\ \A a \in Addr : /\ Cardinality(Users(a)) <= 1
                                         /\ Users(a) # {} => Marked(pool, a, Net)
                      /\ exits = Cardinality(Users(Endpoint) \cup Kept(Endpoint))
    BY DEF OneUserUntilRemoval
  <2>1. Untouched /\ LoanInv
    BY DEF Untouched, IInv
  <2>2. ASSUME NEW a \in Addr PROVE Cardinality(Users(a)) <= 1
    <3>1. CASE Users(a) = {}
      BY <3>1, FS_EmptySet
    <3>2. CASE Users(a) # {}
      <4>1. PICK x : x \in Users(a)
        BY <3>2
      <4>2. Users(a) = {x}
        BY <2>1, <4>1 DEF LoanInv, Exclusive
      <4> QED
        BY <4>2, FS_Singleton
    <3> QED
      BY <3>1, <3>2
  <2> QED
    BY <2>1, <2>2 DEF LoanInv, Exclusive, Lent, Held, Holders
<1> QED
  BY <1>1, Invariance, PTL


-----------------------------------------------------------------------------
(* The manager implements NetworkLeases until a removal.                   *)
Recorded == {a \in Addr : Lent(a)}
HolderMap == [a \in Addr |-> HolderOf(a)]

LEMMA LeaseVars ==
    /\ Leases!leaseVars = <<Recorded, HolderMap, ctxDone>>
    /\ Leases!Init <=> Recorded = {} /\ HolderMap = [a \in Addr |-> None] /\ ctxDone = FALSE
  BY DEF Leases!leaseVars, Leases!Init, Recorded, HolderMap, Lent

(* A proxy without users has no holder; a single user is its holder.       *)
LEMMA TheHolder ==
    ASSUME NEW a, Exclusive(a)
    PROVE  /\ Users(a) = {} => HolderOf(a) = None
           /\ \A x \in Users(a) : HolderOf(a) = x
<1>1. \A x \in Users(a) : (CHOOSE y \in Users(a) : TRUE) = x
  BY DEF Exclusive
<1> QED
  BY <1>1 DEF HolderOf

LEMMA NextHolder ==
    ASSUME NEW a, Exclusive(a)'
    PROVE  /\ Users(a)' = {} => HolderOf(a)' = None
           /\ \A x \in Users(a)' : HolderOf(a)' = x
           /\ Users(a)' = Users(a) => HolderOf(a)' = HolderOf(a)
<1>1. \A x \in Users(a)' : (CHOOSE y \in Users(a)' : TRUE) = x
  BY DEF Exclusive
<1> QED
  BY <1>1 DEF HolderOf

(* Who uses no proxy holds none.                                           *)
LEMMA NoUseNoHold ==
    ASSUME NEW x \in Goroutine, \A b \in Addr : Exclusive(b) /\ x \notin Users(b)
    PROVE  Leases!HasNone(x)
<1>1. x # None
  BY NoneAssumption DEF Goroutine
<1>2. \A b \in Addr : HolderOf(b) = None \/ HolderOf(b) \in Users(b)
  BY TheHolder
<1> QED
  BY <1>1, <1>2 DEF Leases!HasNone

(* A step that changes the users of one proxy.                             *)
LEMMA OneHolder ==
    ASSUME NEW a \in Addr, \A b \in Addr : Exclusive(b)',
           \A b \in Addr \ {a} : Users(b)' = Users(b)
    PROVE  HolderMap' = [HolderMap EXCEPT ![a] = HolderOf(a)']
  BY NextHolder DEF HolderMap

LEMMA SameHolders ==
    ASSUME \A b \in Addr : Exclusive(b)' /\ Users(b)' = Users(b)
    PROVE  HolderMap' = HolderMap
  BY NextHolder DEF HolderMap

(* The steps of leases, in terms of what the pool has recorded and who     *)
(* holds it.                                                               *)
LEMMA LeaseSteps ==
    ASSUME NEW a \in Addr, NEW x \in Goroutine, UNCHANGED ctxDone,
           \/ /\ ~ Lent(a) /\ HolderOf(a) = None /\ Leases!HasNone(x)
              /\ Recorded' = Recorded \cup {a} /\ HolderMap' = [HolderMap EXCEPT ![a] = x]
           \/ /\ Lent(a) /\ HolderOf(a) # None
              /\ Recorded' = Recorded \ {a} /\ HolderMap' = [HolderMap EXCEPT ![a] = None]
           \/ /\ Lent(a) /\ HolderOf(a) # None /\ Leases!HasNone(x)
              /\ Recorded' = Recorded /\ HolderMap' = [HolderMap EXCEPT ![a] = x]
           \/ /\ ctxDone /\ HolderOf(a) # None
              /\ Recorded' = Recorded /\ HolderMap' = [HolderMap EXCEPT ![a] = None]
    PROVE  Leases!Next
<1>1. x \in Client \cup Cmd
  BY DEF Goroutine
<1>2. Leases!Lend(a, x) <=>
        /\ ~ Lent(a) /\ HolderOf(a) = None /\ Leases!HasNone(x)
        /\ Recorded' = Recorded \cup {a} /\ HolderMap' = [HolderMap EXCEPT ![a] = x]
        /\ UNCHANGED ctxDone
  BY DEF Leases!Lend, Recorded, HolderMap, Lent
<1>3. Leases!GiveBack(a) <=>
        /\ Lent(a) /\ HolderOf(a) # None
        /\ Recorded' = Recorded \ {a} /\ HolderMap' = [HolderMap EXCEPT ![a] = None]
        /\ UNCHANGED ctxDone
  BY DEF Leases!GiveBack, Recorded, HolderMap, Lent
<1>4. Leases!HandOver(a, x) <=>
        /\ Lent(a) /\ HolderOf(a) # None /\ Leases!HasNone(x)
        /\ Recorded' = Recorded /\ HolderMap' = [HolderMap EXCEPT ![a] = x]
        /\ UNCHANGED ctxDone
  BY DEF Leases!HandOver, Recorded, HolderMap, Lent
<1>5. Leases!Disappear(a) <=>
        /\ ctxDone /\ HolderOf(a) # None
        /\ Recorded' = Recorded /\ HolderMap' = [HolderMap EXCEPT ![a] = None]
        /\ UNCHANGED ctxDone
  BY DEF Leases!Disappear, Recorded, HolderMap, Lent
<1>6. Leases!Lend(a, x) \/ Leases!GiveBack(a) \/ Leases!HandOver(a, x) \/ Leases!Disappear(a)
        => Leases!Next
  BY <1>1 DEF Leases!Next
<1> QED
  BY <1>2, <1>3, <1>4, <1>5, <1>6

(* Each kind of step is one of leases, or none: a stay may be the end of a *)
(* goroutine.                                                              *)
LEMMA LoanLeases ==
    ASSUME TypeOK, SourceInv, LoanInv, LoanInv', Untouched, Untouched',
           LoanStep, UNCHANGED ctxDone
    PROVE  Leases!Next \/ UNCHANGED Leases!leaseVars
<1>1. \A b \in Addr : Exclusive(b) /\ Exclusive(b)'
  BY DEF LoanInv
<1>2. Addr \subseteq Place /\ Endpoint \notin Addr
  BY SourceAssumption DEF Place
<1>3. \A b : \A x \in Users(b) : x \in Goroutine /\ x # None
  BY HoldersAreGoroutines, NoneAssumption DEF Goroutine
<1>4. ASSUME \A b \in Addr : Users(b)' = Users(b) /\ (Lent(b)' <=> Lent(b))
      PROVE  UNCHANGED Leases!leaseVars
  <2>1. Recorded' = Recorded
    BY <1>4 DEF Recorded
  <2>2. HolderMap' = HolderMap
    BY <1>1, <1>4, SameHolders
  <2> QED
    BY <2>1, <2>2 DEF Leases!leaseVars, Recorded, HolderMap, Lent
<1>5. CASE LoansStay
  <2>1. \A b : Lent(b)' <=> Lent(b)
    BY <1>5, LentFacts DEF LoansStay
  <2>2. CASE \A b \in Place : Users(b)' = Users(b)
    BY <1>2, <1>4, <2>1, <2>2
  <2>3. ASSUME ctxDone, NEW c \in Client, \A b \in Place : Users(b)' = Users(b) \ {c}
        PROVE  Leases!Next \/ UNCHANGED Leases!leaseVars
    <3>1. CASE \A b \in Addr : c \notin Users(b)
      <4>1. \A b \in Addr : Users(b)' = Users(b)
        BY <1>2, <2>3, <3>1
      <4> QED
        BY <1>4, <2>1, <4>1
    <3>2. ASSUME NEW a \in Addr, c \in Users(a) PROVE Leases!Next
      <4>1. \A b \in Addr \ {a} : c \notin Users(b)
        BY <3>2, HoldsOne, HoldersAreGoroutines
      <4>2. \A b \in Addr \ {a} : Users(b)' = Users(b)
        BY <1>2, <2>3, <4>1
      <4>3. Users(a)' = {}
        BY <1>1, <1>2, <2>3, <3>2 DEF Exclusive
      <4>4. HolderOf(a) # None /\ HolderOf(a)' = None
        BY <1>1, <1>3, <3>2, <4>3, TheHolder, NextHolder
      <4>5. HolderMap' = [HolderMap EXCEPT ![a] = None]
        BY <1>1, <4>2, <4>4, OneHolder
      <4>6. Recorded' = Recorded
        BY <2>1 DEF Recorded
      <4>7. c \in Goroutine
        BY DEF Goroutine
      <4> QED
        BY <2>3, <4>4, <4>5, <4>6, <4>7, LeaseSteps
    <3> QED
      BY <3>1, <3>2
  <2> QED
    BY <1>5, <2>2, <2>3 DEF LoansStay
<1>6. ASSUME NEW x \in Goroutine, NEW a \in Place, Borrows(x, a)
      PROVE  Leases!Next \/ UNCHANGED Leases!leaseVars
  <2>1. CASE source = "rotating"
    <3>1. a = Endpoint
      BY <1>6, <2>1, SourceFacts DEF Borrows
    <3>2. pool' = pool
      BY <1>6, <2>1, SourceFacts DEF Borrows
    <3>3. ASSUME NEW b \in Addr PROVE Users(b)' = Users(b) /\ (Lent(b)' <=> Lent(b))
      <4>1. b \in Place /\ b # a
        BY <1>2, <3>1
      <4>2. Users(b)' = Users(b) \cup {}
        BY <1>6, <4>1 DEF Borrows
      <4> QED
        BY <3>2, <4>2 DEF Lent
    <3> QED
      BY <1>4, <3>3
  <2>2. CASE source = "api"
    <3>1. a \in Addr
      BY <1>6, <2>2, SourceFacts DEF Borrows
    <3>2. ~ Lent(a) /\ \A b : Lent(b)' <=> Lent(b) \/ b = a
      BY <1>6, <2>2, LentFacts DEF Borrows
    <3>3. Users(a) = {} /\ Users(a)' = {x} /\ \A b \in Addr \ {a} : Users(b)' = Users(b)
      <4>1. Users(a) = {}
        BY <1>1, <3>1, <3>2 DEF Exclusive
      <4>2. \A b \in Place : Users(b)' = Users(b) \cup (IF b = a THEN {x} ELSE {})
        BY <1>6 DEF Borrows
      <4> QED
        BY <1>2, <3>1, <4>1, <4>2
    <3>4. HolderOf(a) = None /\ HolderOf(a)' = x
      BY <1>1, <3>1, <3>3, TheHolder, NextHolder
    <3>5. HolderMap' = [HolderMap EXCEPT ![a] = x]
      BY <1>1, <3>1, <3>3, <3>4, OneHolder
    <3>6. Recorded' = Recorded \cup {a}
      BY <3>1, <3>2 DEF Recorded
    <3>7. Leases!HasNone(x)
      <4>1. \A b \in Addr : x \notin Users(b)
        BY <1>2, <1>6, HoldersAreGoroutines DEF Borrows
      <4> QED
        BY <1>1, <4>1, NoUseNoHold
    <3> QED
      BY <3>1, <3>2, <3>4, <3>5, <3>6, <3>7, LeaseSteps
  <2> QED
    BY <2>1, <2>2 DEF SourceInv
<1>7. ASSUME NEW x \in Goroutine, NEW a \in Place, Repays(x, a)
      PROVE  Leases!Next \/ UNCHANGED Leases!leaseVars
  <2>1. \A b : Lent(b)' <=> Lent(b) /\ b # a
    BY <1>7, LentFacts DEF Repays
  <2>2. \A b \in Addr \ {a} : Users(b)' = Users(b)
    <3>1. \A b \in Addr \ {a} : x \notin Users(b)
      BY <1>7, HoldsOne, HoldersAreGoroutines DEF Repays
    <3> QED
      BY <1>2, <1>7, <3>1 DEF Repays
  <2>3. CASE a \notin Addr
    BY <1>4, <2>1, <2>2, <2>3
  <2>4. CASE a \in Addr
    <3>1. x \in Users(a) /\ Lent(a) /\ Users(a)' = {}
      BY <1>1, <1>7, <2>4 DEF Repays, Exclusive
    <3>2. HolderOf(a) # None /\ HolderOf(a)' = None
      BY <1>1, <1>3, <2>4, <3>1, TheHolder, NextHolder
    <3>3. HolderMap' = [HolderMap EXCEPT ![a] = None]
      BY <1>1, <2>2, <2>4, <3>2, OneHolder
    <3>4. Recorded' = Recorded \ {a}
      BY <2>1 DEF Recorded
    <3> QED
      BY <2>4, <3>1, <3>2, <3>3, <3>4, LeaseSteps
  <2> QED
    BY <2>3, <2>4
<1>8. ASSUME NEW k \in Cmd, NEW x \in Client, NEW a \in Place, PassesOn(k, x, a)
      PROVE  Leases!Next \/ UNCHANGED Leases!leaseVars
  <2>1. \A b : Lent(b)' <=> Lent(b)
    BY <1>8, LentFacts DEF PassesOn
  <2>2. \A b \in Addr \ {a} : Users(b)' = Users(b)
    BY <1>2, <1>8 DEF PassesOn
  <2>3. CASE a \notin Addr
    BY <1>4, <2>1, <2>2, <2>3
  <2>4. CASE a \in Addr
    <3>1. k \in Users(a) /\ Lent(a) /\ x \in Users(a)'
      BY <1>1, <1>8, <2>4 DEF PassesOn, Exclusive
    <3>2. HolderOf(a) # None /\ HolderOf(a)' = x
      BY <1>1, <1>3, <2>4, <3>1, TheHolder, NextHolder
    <3>3. HolderMap' = [HolderMap EXCEPT ![a] = x]
      BY <1>1, <2>2, <2>4, <3>2, OneHolder
    <3>4. Recorded' = Recorded
      BY <2>1 DEF Recorded
    <3>5. x \in Goroutine /\ Leases!HasNone(x)
      <4>1. x \in Goroutine
        BY DEF Goroutine
      <4>2. \A b \in Addr : x \notin Users(b)
        BY <1>2, <1>8, HoldersAreGoroutines DEF PassesOn
      <4> QED
        BY <1>1, <4>1, <4>2, NoUseNoHold
    <3> QED
      BY <2>4, <3>1, <3>2, <3>3, <3>4, <3>5, LeaseSteps
  <2> QED
    BY <2>3, <2>4
<1>9. CASE Stray
  <2>1. \A b \in Addr : Users(b)' = Users(b) /\ (Lent(b)' <=> Lent(b))
    BY <1>2, <1>9, LentFacts DEF Stray
  <2> QED
    BY <1>4, <2>1
<1> QED
  BY <1>5, <1>6, <1>7, <1>8, <1>9 DEF LoanStep, Recalled

LEMMA StepLeases ==
    ASSUME IInv, IInv', [Next]_vars, Untouched'
    PROVE  Leases!Next \/ UNCHANGED Leases!leaseVars
<1>1. Untouched
  BY UntouchedBefore DEF IInv
<1>2. CASE Cancel
  <2>1. UNCHANGED <<pool, pc, current, cmd>> /\ ctxDone' = TRUE
    BY <1>2 DEF Cancel, poolVars, clientVars
  <2>2. \A b : Users(b)' = Users(b) /\ (Marked(pool, b, Net)' <=> Marked(pool, b, Net))
    BY <2>1 DEF Users
  <2>3. {b \in Addr : Marked(pool, b, Net)}' = {b \in Addr : Marked(pool, b, Net)}
    BY <2>2
  <2>4. [b \in Addr |-> HolderOf(b)]' = [b \in Addr |-> HolderOf(b)]
    <3>1. ASSUME NEW b PROVE HolderOf(b)' = HolderOf(b)
      <4>1. Users(b)' = Users(b)
        BY <2>2
      <4> QED
        BY <4>1 DEF HolderOf
    <3> QED
      BY <3>1
  <2>5. Leases!End
    BY <2>1, <2>3, <2>4 DEF Leases!End
  <2> QED
    BY <2>5 DEF Leases!Next
<1>3. CASE UNCHANGED ctxDone
  BY <1>1, <1>3, StepLoans, LoanLeases DEF IInv
<1>4. Cancel \/ UNCHANGED ctxDone
  <2>1. ASSUME NEW c \in Client, ClientStep(c) PROVE UNCHANGED ctxDone
    BY <2>1, ClientLeavesCalls
  <2>2. ASSUME NEW k \in Cmd, CmdStart(k) \/ CmdProgress(k) PROVE UNCHANGED ctxDone
    BY <2>2 DEF CmdStart, CmdProgress, StartAdd, StartRemove, StartStop, AddFetch, AddRecount,
                AddAcquire, AddReturns, AddIndex, AddAppend, RemoveLast, StopNext, QuitClient,
                RemoveReturns
  <2> QED
    BY <2>1, <2>2 DEF Next, Refresh, vars
<1> QED
  BY <1>2, <1>3, <1>4

(* Until a client is removed or the manager stopped, the manager with its  *)
(* pool implements NetworkLeases, from the loan of a proxy to its release  *)
(* (AddClients, runClientWithProxyRotation, network.go:103-167, 190-244).  *)
THEOREM ManagerImplementsLeases == Spec => LeasesUntilRemoval
<1>1. Init => Leases!Init
  <2> SUFFICES ASSUME Init PROVE Leases!Init
    OBVIOUS
  <2>1. IInv /\ ctxDone = FALSE /\ Untouched
    BY InitTypes, InitSource, InitCalls, InitList, InitLoans
       DEF IInv, Init, Untouched, RemovedClients
  <2>2. Recorded = {}
    BY DEF Init, Recorded, Lent, Marked, Fresh
  <2>3. \A b \in Addr : HolderOf(b) = None
    <3>1. \A b \in Addr : Exclusive(b) /\ ~ Lent(b)
      BY <2>1, <2>2 DEF IInv, LoanInv, Recorded
    <3> QED
      BY <3>1, TheHolder DEF Exclusive
  <2> QED
    BY <2>1, <2>2, <2>3, LeaseVars DEF HolderMap
<1>2. IInv /\ IInv' /\ [Next]_vars =>
        [(RemovedClients = {} /\ ~ Stopping)' => Leases!Next \/ UNCHANGED Leases!leaseVars]_vars
  BY StepLeases DEF Untouched
<1> QED
  BY <1>1, <1>2, Invariance, PTL DEF Spec, LeasesUntilRemoval

-----------------------------------------------------------------------------
(* The numbers in the clients' IDs, while appends are left alone: the list *)
(* is numbered from 0, and a command that is about to append has the next  *)
(* number.                                                                 *)
NumberInv ==
    /\ \A i \in 1 .. Len(clients) : index[clients[i]] = i - 1
    /\ \A k \in Cmd : cmd[k].op = "append" => cmd[k].index = Len(clients)

LEMMA CmdNumbers ==
    ASSUME AppendsAlone, TypeOK, CallInv, ListInv, NumberInv,
           NEW k \in Cmd, CmdStart(k) \/ CmdProgress(k)
    PROVE  NumberInv'
<1>0. /\ cmd \in [Cmd -> Call] /\ clients \in Seq(Client) /\ Len(clients) \in Nat
      /\ CallOK(k)
  BY DEF TypeOK, CallInv, CallOK
<1>a. \A j \in Cmd \ {k} : cmd'[j] = cmd[j]
  BY CallEffects, BoundAssumption DEF CmdStart, CmdProgress, Calls
<1>b. cmd[k].op \in {"append", "rm", "stop"} => \A j \in Cmd \ {k} : cmd[j].op # "append"
  BY DEF AppendsAlone
<1>1. ASSUME UNCHANGED <<clients, index>>, cmd'[k].op # "append" PROVE NumberInv'
  BY <1>a, <1>1 DEF NumberInv
<1>2. CASE \/ \E count \in 1 .. MaxAdd : StartAdd(k, count)
           \/ \E count \in 0 .. MaxAdd : StartRemove(k, count)
           \/ StartStop(k)
  <2>1. cmd'[k].op # "append"
    BY <1>2, CallEffects, BoundAssumption DEF Calls
  <2>2. UNCHANGED <<clients, index>>
    BY <1>2 DEF StartAdd, StartRemove, StartStop, clientVars
  <2> QED
    BY <1>1, <2>1, <2>2
<1>3. CASE AddFetch(k) \/ AddRecount(k) \/ AddReturns(k) \/ AddAcquire(k) \/ StopNext(k)
  <2>1. cmd'[k].op # "append"
    BY <1>3, CallEffects DEF Calls
  <2>2. UNCHANGED <<clients, index>>
    BY <1>3 DEF AddFetch, AddRecount, AddReturns, AddAcquire, StopNext, clientVars
  <2> QED
    BY <1>1, <2>1, <2>2
<1>4. CASE AddIndex(k)
  <2>1. UNCHANGED <<clients, index>> /\ cmd'[k].index = Len(clients)
    BY <1>0, <1>4 DEF AddIndex, clientVars, Call
  <2> QED
    BY <1>a, <2>1 DEF NumberInv
<1>5. CASE AddAppend(k)
  <2>1. PICK c \in Client : /\ pc[c] = "unborn"
                            /\ clients' = Append(clients, c)
                            /\ index' = [index EXCEPT ![c] = cmd[k].index]
    BY <1>5 DEF AddAppend, Unborn
  <2>2. cmd[k].index = Len(clients)
    BY <1>5 DEF AddAppend, NumberInv
  <2>3. /\ Len(clients') = Len(clients) + 1
        /\ \A i \in 1 .. Len(clients) : /\ clients'[i] = clients[i]
                                        /\ clients[i] \in Client /\ clients[i] # c
        /\ clients'[Len(clients) + 1] = c
    BY <1>0, <2>1 DEF ListInv
  <2>4. \A i \in 1 .. Len(clients') : index'[clients'[i]] = i - 1
    BY <1>0, <2>1, <2>2, <2>3 DEF NumberInv, TypeOK
  <2>5. \A j \in Cmd : cmd'[j].op # "append"
    <3>1. cmd'[k].op # "append"
      BY <1>5, CallEffects DEF Calls
    <3>2. cmd[k].op = "append"
      BY <1>5 DEF AddAppend
    <3> QED
      BY <1>a, <1>b, <3>1, <3>2
  <2> QED
    BY <2>4, <2>5 DEF NumberInv
<1>6. CASE RemoveLast(k)
  <2>1. Len(clients) > 0
    BY <1>0, <1>6 DEF RemoveLast, CallOK, TypeOK, Call
  <2>2. UNCHANGED index /\ clients' = SubSeq(clients, 1, Len(clients) - 1)
    BY <1>6 DEF RemoveLast, clientVars
  <2>3. /\ Len(clients') = Len(clients) - 1
        /\ \A i \in 1 .. Len(clients) - 1 : clients'[i] = clients[i]
    BY <1>0, <2>1, <2>2, FrontFacts
  <2>4. \A i \in 1 .. Len(clients') : i \in 1 .. Len(clients) /\ clients'[i] = clients[i]
    BY <1>0, <2>3
  <2>5. \A j \in Cmd : cmd'[j].op # "append"
    <3>1. cmd'[k].op # "append"
      BY <1>6, CallEffects DEF Calls
    <3>2. cmd[k].op = "rm"
      BY <1>6 DEF RemoveLast
    <3> QED
      BY <1>a, <1>b, <3>1, <3>2
  <2> QED
    BY <2>2, <2>4, <2>5 DEF NumberInv
<1>7. CASE QuitClient(k)
  <2>1. cmd'[k].op \in {"rm", "stop"}
    BY <1>7, CallEffects DEF Calls
  <2>2. UNCHANGED <<clients, index>>
    BY <1>7 DEF QuitClient
  <2> QED
    BY <1>1, <2>1, <2>2
<1>8. CASE RemoveReturns(k)
  <2>1. UNCHANGED index /\ (clients' = clients \/ clients' = << >>)
    BY <1>8 DEF RemoveReturns, clientVars
  <2>2. \A j \in Cmd : cmd'[j].op # "append"
    <3>1. cmd'[k].op # "append"
      BY <1>8, CallEffects DEF Calls
    <3>2. cmd[k].op \in {"rm", "stop"}
      BY <1>8 DEF RemoveReturns
    <3> QED
      BY <1>a, <1>b, <3>1, <3>2
  <2> QED
    BY <2>1, <2>2 DEF NumberInv
<1> QED
  BY <1>2, <1>3, <1>4, <1>5, <1>6, <1>7, <1>8 DEF CmdStart, CmdProgress

(* IDs, and with them the numbers in the nicks, are distinct among listed  *)
(* clients as long as no command appends or removes while another is       *)
(* between reading the length of the list and appending to it (AddClients, *)
(* network.go:140-167); removal takes clients from the end.                *)
THEOREM IDsAreUnique == Spec => UniqueUndisturbed
<1>1. Init => NumberInv
  BY DEF Init, NumberInv, NoCall
<1>2. IInv /\ NumberInv /\ AppendsAlone /\ [Next]_vars => NumberInv'
  <2> SUFFICES ASSUME IInv, NumberInv, AppendsAlone, [Next]_vars PROVE NumberInv'
    OBVIOUS
  <2>1. CASE UNCHANGED <<clients, index, cmd>>
    BY <2>1 DEF NumberInv
  <2>2. CASE Refresh \/ Cancel \/ UNCHANGED vars
    BY <2>1, <2>2 DEF Refresh, Cancel, vars, clientVars
  <2> QED
    BY <2>1, <2>2, ClientLeavesCalls, CmdNumbers DEF Next, IInv
<1>3. IInv /\ NumberInv => UniqueIDs
  <2> SUFFICES ASSUME TypeOK, NumberInv PROVE UniqueIDs
    BY DEF IInv
  <2>1. DOMAIN clients = 1 .. Len(clients) /\ Len(clients) \in Nat
    BY DEF TypeOK
  <2> QED
    BY <2>1 DEF NumberInv, UniqueIDs
<1> QED
  BY <1>1, <1>2, <1>3, Invariance, PTL DEF Spec, UniqueUndisturbed

(* With one command goroutine appends are always left alone, and the IDs   *)
(* distinct whatever the clients do.                                       *)
THEOREM IDsOfOneCommand ==
    ASSUME \A j, k \in Cmd : j = k PROVE Spec => []UniqueIDs
<1>1. AppendsAlone
  BY DEF AppendsAlone
<1> QED
  BY <1>1, IDsAreUnique, PTL DEF UniqueUndisturbed

=============================================================================
