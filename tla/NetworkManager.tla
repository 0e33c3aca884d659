--------------------------- MODULE NetworkManager ---------------------------
(***************************************************************************)
(* One network manager (internal/bot/network.go): the goroutine of each    *)
(* managed client, which rotates through proxies, and the commands that    *)
(* add and remove clients, each in its own goroutine.  They share the      *)
(* client list under nm.mu and the proxy pool under its own lock; neither  *)
(* lock is held from one pool call to the next, and a client remembers its *)
(* proxy twice: in client.proxyAddr and in its goroutine's currentProxy.   *)
(*                                                                         *)
(* Pool steps are those of Pool, for one network.  AcquireForNetwork takes *)
(* any available proxy here: which one LastUsed selects is in ProxyPool.   *)
(* The pool may have a rotating source instead (a part of proxy.go of its  *)
(* own): one Endpoint that serves any number of connections, with an entry *)
(* in the pool for each.  Entries of one network differ in nothing but     *)
(* what they were used for, so that they are counted.                      *)
(*                                                                         *)
(* KeepNick and the client's channels are not part of this module.         *)
(***************************************************************************)
EXTENDS Pool, Sequences

CONSTANTS
    Sources,      \* Pool.source: "api", "rotating"
    Endpoint,     \* Pool.rotatingAddr, an address with a port
    Client,       \* irc.Client objects, in the order they are never reused
    Cmd,          \* command goroutines: !connect, !addclients, !rmclients, ...
    Net,          \* nm.network
    MaxAdd,       \* bound on the count of one AddClients call
    None          \* no proxy, no client, no lock holder

ASSUME NetAssumption == Network = {Net}
ASSUME SourceAssumption == Sources \subseteq {"api", "rotating"} /\ Endpoint \notin Addr
ASSUME NoneAssumption == None \notin {Endpoint} \cup Addr \cup Client \cup Cmd
ASSUME GoroutineAssumption == /\ IsFiniteSet(Client) /\ IsFiniteSet(Cmd)
                              /\ Client \cap Cmd = {}
ASSUME BoundAssumption == MaxAdd \in Nat \ {0}

VARIABLES
    source,      \* Pool.source
    pool,        \* Pool.proxies
    exits,       \* entries of the network in Pool.proxies if the source is rotating
    clients,     \* nm.clients
    mu,          \* holder of nm.mu across steps, or None
    ctxDone,     \* nm.ctx is cancelled
    pc,          \* goroutine of each client
    current,     \* its currentProxy
    attempt,     \* its ConnectWithRetry attempts
    proxyAddr,   \* client.proxyAddr
    index,       \* the number in the client's ID and nick
    cmd          \* the commands in progress

clientVars == <<pc, current, attempt, proxyAddr, index>>
poolVars == <<source, pool, exits>>
vars == <<poolVars, clients, mu, ctxDone, clientVars, cmd>>

MaxAttempts == 3   \* rounds of EnsureAvailable

\* The limit runClientWithProxyRotation passes to ConnectWithRetry.
MaxConnects == IF MaxRetries = 0 THEN 1 ELSE MaxRetries

Listed == {clients[i] : i \in DOMAIN clients}
Unborn == {c \in Client : pc[c] = "unborn"}

(* Client goroutines that still own the proxy they remember.               *)
Owning == {"dial", "online", "backoff", "release", "setproxy"}
Live   == {"dial", "online", "backoff", "release", "ensure", "fetch",
           "acquire", "setproxy"}

NoCall == [op |-> "idle", todo |-> 0, px |-> None, client |-> None,
           index |-> 0, avail |-> 0, round |-> 0]

Init ==
    /\ source \in Sources
    /\ \/ source = "api" /\ \E alive \in SUBSET Addr : pool = [a \in alive |-> Fresh]
       \/ source = "rotating" /\ pool = << >>
    /\ exits = 0
    /\ clients = << >>
    /\ mu = None
    /\ ctxDone = FALSE
    /\ pc = [c \in Client |-> "unborn"]
    /\ current = [c \in Client |-> None]
    /\ attempt = [c \in Client |-> 0]
    /\ proxyAddr = [c \in Client |-> None]
    /\ index = [c \in Client |-> 0]
    /\ cmd = [k \in Cmd |-> NoCall]

(* The pool's operations for either source.  The API is never asked when   *)
(* the source is rotating.                                                 *)
Fetch ==
    /\ source = "api"
    /\ \E alive \in SUBSET Addr : pool' = Fetched(pool, alive)
    /\ UNCHANGED <<source, exits>>

(* EnsureAvailable finds enough at once.                                   *)
Ready(count) == source = "rotating" \/ AvailableForNetwork(pool, Net) >= count

(* What AcquireForNetwork may return: nothing if this is empty.            *)
Offers == IF source = "rotating" THEN {Endpoint} ELSE Available(pool, Net)

AcquireForNetwork(a) ==
    /\ IF source = "rotating" THEN exits' = exits + 1 /\ UNCHANGED pool
       ELSE pool' = Acquired(pool, a, Net) /\ UNCHANGED exits
    /\ UNCHANGED source

(* ReleaseByAddressFromNetwork: of the entries with the endpoint's address *)
(* the first one of this network goes, whoever it was made for.            *)
ReleaseByAddress(a, failed) ==
    /\ IF source = "rotating" THEN exits' = (IF exits = 0 THEN 0 ELSE exits - 1) /\ UNCHANGED pool
       ELSE pool' = Released(pool, a, Net, failed) /\ UNCHANGED exits
    /\ UNCHANGED source

Goto(c, from, to) == pc[c] = from /\ pc' = [pc EXCEPT ![c] = to]

-----------------------------------------------------------------------------
(* runClientWithProxyRotation and the ConnectWithRetry it calls.  Every    *)
(* connection that ends, failed or dropped, counts as one attempt.         *)

ConnectOk(c) ==
    /\ Goto(c, "dial", "online")
    /\ UNCHANGED <<poolVars, clients, mu, ctxDone, current, attempt, proxyAddr, index, cmd>>

(* The connection attempt fails, the server or network drops the           *)
(* connection, or Quit closed it: the loop of ConnectWithRetry goes on.    *)

\* Faulty variant: one attempt too many.
EndConnectionLate(c) ==
    LET exhausted == attempt[c] + 1 > MaxConnects IN
    /\ pc[c] \in {"dial", "online"}
    /\ pc' = [pc EXCEPT ![c] = IF ctxDone THEN "gone"
                               ELSE IF exhausted THEN "release" ELSE "backoff"]
    /\ attempt' = [attempt EXCEPT ![c] = IF exhausted THEN 0 ELSE @ + 1]

EndConnection(c) ==
    LET exhausted == attempt[c] + 1 >= MaxConnects IN
    /\ pc[c] \in {"dial", "online"}
    /\ pc' = [pc EXCEPT ![c] = IF ctxDone THEN "gone"
                               ELSE IF exhausted THEN "release" ELSE "backoff"]
    /\ attempt' = [attempt EXCEPT ![c] = IF exhausted THEN 0 ELSE @ + 1]

ConnectionEnds(c) ==
    /\ EndConnection(c)
    /\ UNCHANGED <<poolVars, clients, mu, ctxDone, current, proxyAddr, index, cmd>>

BackoffOver(c) ==
    /\ Goto(c, "backoff", "dial")
    /\ UNCHANGED <<poolVars, clients, mu, ctxDone, current, attempt, proxyAddr, index, cmd>>

\* Faulty variant: the exhausted proxy is not released.
ReleaseFailedSkipped(c) ==
    /\ Goto(c, "release", "ensure")
    /\ UNCHANGED <<poolVars, clients, mu, ctxDone, current, attempt, proxyAddr, index, cmd>>

ReleaseFailed(c) ==
    /\ Goto(c, "release", "ensure")
    /\ ReleaseByAddress(current[c], TRUE)
    /\ UNCHANGED <<clients, mu, ctxDone, current, attempt, proxyAddr, index, cmd>>

(* EnsureAvailable(1): a fetch follows only when nothing is available, and *)
(* whatever it brings there is no second round.                            *)
\* Faulty variant: without a proxy it keeps waiting for one.
EnsureOneWaiting(c) ==
    /\ Ready(1)
    /\ Goto(c, "ensure", "acquire")
    /\ UNCHANGED <<poolVars, clients, mu, ctxDone, current, attempt, proxyAddr, index, cmd>>

\* Faulty variant: without a proxy it goes on with the one it released.
EnsureOneKeeping(c) ==
    /\ Goto(c, "ensure", IF Ready(1) THEN "acquire" ELSE "dial")
    /\ UNCHANGED <<poolVars, clients, mu, ctxDone, current, attempt, proxyAddr, index, cmd>>

EnsureOne(c) ==
    /\ Goto(c, "ensure", IF Ready(1) THEN "acquire" ELSE "fetch")
    /\ UNCHANGED <<poolVars, clients, mu, ctxDone, current, attempt, proxyAddr, index, cmd>>

EnsureOneFetch(c) ==
    /\ Goto(c, "fetch", "acquire")
    /\ Fetch \/ UNCHANGED poolVars
    /\ UNCHANGED <<clients, mu, ctxDone, current, attempt, proxyAddr, index, cmd>>

AcquireNew(c) ==
    \E a \in Offers :
        /\ Goto(c, "acquire", "setproxy")
        /\ AcquireForNetwork(a)
        /\ current' = [current EXCEPT ![c] = a]
        /\ UNCHANGED <<clients, mu, ctxDone, attempt, proxyAddr, index, cmd>>

(* No proxy: the goroutine ends; the client stays in nm.clients.           *)
GiveUp(c) ==
    /\ Offers = {}
    /\ Goto(c, "acquire", "gone")
    /\ UNCHANGED <<poolVars, clients, mu, ctxDone, current, attempt, proxyAddr, index, cmd>>

SetProxy(c) ==
    /\ Goto(c, "setproxy", "dial")
    /\ proxyAddr' = [proxyAddr EXCEPT ![c] = current[c]]
    /\ UNCHANGED <<poolVars, clients, mu, ctxDone, current, attempt, index, cmd>>

(* The context is looked at before each attempt, while connected and       *)
(* during the backoff; the goroutine then ends without releasing.          *)
ContextEnds(c) ==
    /\ ctxDone
    /\ pc[c] \in {"dial", "online", "backoff"}
    /\ pc' = [pc EXCEPT ![c] = "gone"]
    /\ UNCHANGED <<poolVars, clients, mu, ctxDone, current, attempt, proxyAddr, index, cmd>>

-----------------------------------------------------------------------------
(* AddClients.                                                             *)

\* A command keeps within the clients this model has.
Reserved ==
    UNION {{k} \X (1 .. cmd[k].todo) :
        k \in {j \in Cmd : cmd[j].op \notin {"rm", "rmquit", "stop", "stopquit"}}}

StartAdd(k, count) ==
    /\ cmd[k].op = "idle"
    /\ Cardinality(Reserved) + count <= Cardinality(Unborn)
    /\ cmd' = [cmd EXCEPT ![k] =
                 [NoCall EXCEPT !.op = IF Ready(count) THEN "acquire" ELSE "fetch",
                                !.todo = count, !.avail = AvailableForNetwork(pool, Net)]]
    /\ UNCHANGED <<poolVars, clients, mu, ctxDone, clientVars>>

AddFetch(k) ==
    /\ cmd[k].op = "fetch"
    /\ \/ Fetch /\ cmd' = [cmd EXCEPT ![k].op = "recount"]
       \/ UNCHANGED poolVars /\ cmd' = [cmd EXCEPT ![k].op = "acquire"]
    /\ UNCHANGED <<clients, mu, ctxDone, clientVars>>

AddRecount(k) ==
    LET now == AvailableForNetwork(pool, Net)
        again == /\ now < cmd[k].todo
                 /\ now > cmd[k].avail
                 /\ cmd[k].round + 1 < MaxAttempts
    IN
    /\ cmd[k].op = "recount"
    /\ cmd' = [cmd EXCEPT ![k].op = IF again THEN "fetch" ELSE "acquire",
                          ![k].avail = IF again THEN now ELSE 0,
                          ![k].round = IF again THEN @ + 1 ELSE 0]
    /\ UNCHANGED <<poolVars, clients, mu, ctxDone, clientVars>>

AddAcquire(k) ==
    \E a \in Offers :
        /\ cmd[k].op = "acquire" /\ cmd[k].todo > 0
        /\ AcquireForNetwork(a)
        /\ cmd' = [cmd EXCEPT ![k].op = "index", ![k].px = a, ![k].avail = 0]
        /\ UNCHANGED <<clients, mu, ctxDone, clientVars>>

(* The count is reached, or no proxy is left.                              *)
AddReturns(k) ==
    /\ cmd[k].op = "acquire"
    /\ cmd[k].todo = 0 \/ Offers = {}
    /\ cmd' = [cmd EXCEPT ![k] = NoCall]
    /\ UNCHANGED <<poolVars, clients, mu, ctxDone, clientVars>>

(* The index is read in one critical section, the client appended in the   *)
(* next; its goroutine starts right after.                                 *)

\* Faulty variant: the index is the last one given.
AddIndexOfLast(k) ==
    /\ mu = None
    /\ cmd[k].op = "index"
    /\ cmd' = [cmd EXCEPT ![k].op = "append",
                          ![k].index = IF clients = << >> THEN 0 ELSE Len(clients) - 1]
    /\ UNCHANGED <<poolVars, clients, mu, ctxDone, clientVars>>

AddIndex(k) ==
    /\ mu = None
    /\ cmd[k].op = "index"
    /\ cmd' = [cmd EXCEPT ![k].op = "append", ![k].index = Len(clients)]
    /\ UNCHANGED <<poolVars, clients, mu, ctxDone, clientVars>>

AddAppend(k) ==
    LET px == cmd[k].px IN
    /\ mu = None
    /\ cmd[k].op = "append"
    /\ \E c \in Unborn :
        /\ clients' = Append(clients, c)
        /\ pc' = [pc EXCEPT ![c] = "dial"]
        /\ current' = [current EXCEPT ![c] = px]
        /\ proxyAddr' = [proxyAddr EXCEPT ![c] = px]
        /\ index' = [index EXCEPT ![c] = cmd[k].index]
    /\ cmd' = [cmd EXCEPT ![k].op = "acquire", ![k].todo = @ - 1, ![k].px = None, ![k].index = 0]
    /\ UNCHANGED <<poolVars, mu, ctxDone, attempt>>

-----------------------------------------------------------------------------
(* RemoveClients and Stop hold nm.mu from the first client to the last.    *)
(* For each client: release the proxy it names, then Quit.                 *)
StartRemove(k, count) ==
    /\ cmd[k].op = "idle"
    /\ mu = None
    /\ mu' = k
    /\ cmd' = [cmd EXCEPT ![k] =
                 [NoCall EXCEPT !.op = "rm",
                                !.todo = IF count = 0 \/ count > Len(clients)
                                         THEN Len(clients) ELSE count]]
    /\ UNCHANGED <<poolVars, clients, ctxDone, clientVars>>

StartStop(k) ==
    /\ cmd[k].op = "idle"
    /\ mu = None
    /\ mu' = k
    /\ cmd' = [cmd EXCEPT ![k] = [NoCall EXCEPT !.op = "stop", !.todo = Len(clients)]]
    /\ UNCHANGED <<poolVars, clients, ctxDone, clientVars>>

(* RemoveClients takes the last client off the list ...                    *)
RemoveLast(k) ==
    LET c == clients[Len(clients)] IN
    /\ cmd[k].op = "rm" /\ cmd[k].todo > 0
    /\ clients' = SubSeq(clients, 1, Len(clients) - 1)
    /\ ReleaseByAddress(proxyAddr[c], FALSE)
    /\ cmd' = [cmd EXCEPT ![k].op = "rmquit", ![k].client = c]
    /\ UNCHANGED <<mu, ctxDone, clientVars>>

(* ... Stop walks the list forwards and empties it at the end.             *)
StopNext(k) ==
    LET c == clients[Len(clients) - cmd[k].todo + 1] IN
    /\ cmd[k].op = "stop" /\ cmd[k].todo > 0
    /\ ReleaseByAddress(proxyAddr[c], FALSE)
    /\ cmd' = [cmd EXCEPT ![k].op = "stopquit", ![k].client = c]
    /\ UNCHANGED <<clients, mu, ctxDone, clientVars>>

(* Quit closes the connection if there is one; it does not touch the       *)
(* goroutine, for which the connection has merely ended.                   *)
\* Faulty variant: Quit waits for the client's goroutine, under the lock.
QuitClientWaiting(k) ==
    LET c == cmd[k].client IN
    /\ cmd[k].op \in {"rmquit", "stopquit"}
    /\ pc[c] = "gone"
    /\ cmd' = [cmd EXCEPT ![k].op = IF @ = "rmquit" THEN "rm" ELSE "stop",
                          ![k].todo = @ - 1, ![k].client = None]
    /\ UNCHANGED <<poolVars, clients, mu, ctxDone, clientVars>>

QuitClient(k) ==
    LET c == cmd[k].client IN
    /\ cmd[k].op \in {"rmquit", "stopquit"}
    /\ IF pc[c] = "online" THEN EndConnection(c) ELSE UNCHANGED <<pc, attempt>>
    /\ cmd' = [cmd EXCEPT ![k].op = IF @ = "rmquit" THEN "rm" ELSE "stop",
                          ![k].todo = @ - 1, ![k].client = None]
    /\ UNCHANGED <<poolVars, clients, mu, ctxDone, current, proxyAddr, index>>

RemoveReturns(k) ==
    /\ cmd[k].op \in {"rm", "stop"} /\ cmd[k].todo = 0
    /\ clients' = IF cmd[k].op = "stop" THEN << >> ELSE clients
    /\ mu' = None
    /\ cmd' = [cmd EXCEPT ![k] = NoCall]
    /\ UNCHANGED <<poolVars, ctxDone, clientVars>>

-----------------------------------------------------------------------------
(* The background refresher, and the cancellation of nm.ctx.               *)
Refresh ==
    /\ Fetch
    /\ UNCHANGED <<clients, mu, ctxDone, clientVars, cmd>>

Cancel ==
    /\ ~ ctxDone
    /\ ctxDone' = TRUE
    /\ UNCHANGED <<poolVars, clients, mu, clientVars, cmd>>

ClientStep(c) ==
    \/ ConnectOk(c)
    \/ ConnectionEnds(c)
    \/ BackoffOver(c)
    \/ ReleaseFailed(c)
    \/ EnsureOne(c)
    \/ EnsureOneFetch(c)
    \/ AcquireNew(c)
    \/ GiveUp(c)
    \/ SetProxy(c)
    \/ ContextEnds(c)

CmdProgress(k) ==
    \/ AddFetch(k)
    \/ AddRecount(k)
    \/ AddAcquire(k)
    \/ AddReturns(k)
    \/ AddIndex(k)
    \/ AddAppend(k)
    \/ RemoveLast(k)
    \/ StopNext(k)
    \/ QuitClient(k)
    \/ RemoveReturns(k)

CmdStart(k) ==
    \/ \E count \in 1 .. MaxAdd : StartAdd(k, count)
    \/ \E count \in 0 .. MaxAdd : StartRemove(k, count)
    \/ StartStop(k)

Next ==
    \/ \E c \in Client : ClientStep(c)
    \/ \E k \in Cmd : CmdStart(k) \/ CmdProgress(k)
    \/ Refresh
    \/ Cancel

Spec == Init /\ [][Next]_vars

(* Goroutines run, and Go's RWMutex starves no waiter: a command that needs *)
(* nm.mu, which others take again and again, gets it (SF).  Nothing is     *)
(* assumed of connections, backoff timers, new commands or the API.        *)
Rotates(c) ==
    \/ ReleaseFailed(c)
    \/ EnsureOne(c)
    \/ EnsureOneFetch(c)
    \/ AcquireNew(c)
    \/ GiveUp(c)
    \/ SetProxy(c)

RunsUnlocked(k) == AddFetch(k) \/ AddRecount(k) \/ AddAcquire(k) \/ AddReturns(k)

RunsHolding(k) == RemoveLast(k) \/ StopNext(k) \/ QuitClient(k) \/ RemoveReturns(k)

FairClient(c) == WF_vars(Rotates(c))

FairCmd(k) ==
    /\ WF_vars(RunsUnlocked(k) \/ RunsHolding(k))
    /\ SF_vars(AddIndex(k) \/ AddAppend(k))

FairSpec ==
    /\ Spec
    /\ \A c \in Client : FairClient(c)
    /\ \A k \in Cmd : FairCmd(k)

-----------------------------------------------------------------------------
Call == [op : {"idle", "fetch", "recount", "acquire", "index", "append",
               "rm", "rmquit", "stop", "stopquit"},
         todo : Nat, px : Addr \cup {Endpoint, None}, client : Client \cup {None},
         index : Nat, avail : Nat, round : 0 .. MaxAttempts - 1]

(* Shape of the state; a proxy is given up after MaxConnects attempts.     *)
TypeOK ==
    /\ source \in Sources
    /\ PoolType(pool)
    /\ exits \in Nat
    /\ clients \in Seq(Client)
    /\ mu \in Cmd \cup {None}
    /\ ctxDone \in BOOLEAN
    /\ pc \in [Client -> Live \cup {"unborn", "gone"}]
    /\ current \in [Client -> Addr \cup {Endpoint, None}]
    /\ attempt \in [Client -> 0 .. MaxConnects - 1]
    /\ proxyAddr \in [Client -> Addr \cup {Endpoint, None}]
    /\ index \in [Client -> Nat]
    /\ cmd \in [Cmd -> Call]

(* Clients taken off the list.                                             *)
RemovedClients == {c \in Client : pc[c] # "unborn"} \ Listed

Stopping == \E k \in Cmd : cmd[k].op \in {"stop", "stopquit"}

(* Whoever acquired the proxy a and has not released it.                   *)
Users(a) == {c \in Client : pc[c] \in Owning /\ current[c] = a}
              \cup {k \in Cmd : cmd[k].px = a}

(* Goroutines that ended with the manager's context and keep their proxy.  *)
Kept(a) == {c \in Client : ctxDone /\ pc[c] = "gone" /\ current[c] = a}

(* No proxy is lost to the network: while the pool records it as connected *)
(* to the network, some goroutine will release it, unless the goroutine    *)
(* ended because the manager's context was cancelled.  No entry of a       *)
(* rotating pool outlives the connections it could stand for.              *)
NoLeakedMark ==
    /\ \A a \in Addr : Marked(pool, a, Net) => Users(a) \cup Kept(a) # {}
    /\ exits <= Cardinality(Users(Endpoint) \cup Kept(Endpoint))

(* Until clients are removed the two records of a loan agree: a proxy has  *)
(* one user on the network, and the pool knows about it.  A rotating pool  *)
(* has an entry for each connection.                                       *)
OneUserUntilRemoval ==
    (RemovedClients = {} /\ ~ Stopping) =>
        /\ \A a \in Addr : /\ Cardinality(Users(a)) <= 1
                           /\ Users(a) # {} => Marked(pool, a, Net)
        /\ exits = Cardinality(Users(Endpoint) \cup Kept(Endpoint))

(* And until then the manager implements NetworkLeases: a loan ends only    *)
(* when the goroutine that has the proxy releases it, AddClients hands over *)
(* to the client it makes, and what a goroutine has when the context ends   *)
(* is not lent again (network.go:103-167, 190-244).                         *)
HolderOf(a) == IF Users(a) = {} THEN None ELSE CHOOSE x \in Users(a) : TRUE

Leases == INSTANCE NetworkLeases WITH
    Resource <- Addr, Client <- Client \cup Cmd, ended <- ctxDone,
    lent <- {a \in Addr : Marked(pool, a, Net)},
    holder <- [a \in Addr |-> HolderOf(a)]

LeasesUntilRemoval ==
    /\ Leases!Init
    /\ [][(RemovedClients = {} /\ ~ Stopping)' => Leases!Next \/ UNCHANGED Leases!leaseVars]_vars

(* IDs of listed clients are distinct, as long as no other command appends *)
(* or removes while one is between reading its number and appending: the   *)
(* clients that a command removed gave their numbers back in order, and    *)
(* commands overlap freely elsewhere (network.go:140-167).                 *)
UniqueIDs == \A i, j \in DOMAIN clients :
                index[clients[i]] = index[clients[j]] => i = j

AppendsAlone ==
    \A j, k \in Cmd : j # k /\ cmd[j].op = "append" =>
        cmd[k].op \notin {"append", "rm", "rmquit", "stop", "stopquit"}

UniqueUndisturbed == []AppendsAlone => []UniqueIDs

(* What RemoveClients' comment says: once its Quit has returned, a removed  *)
(* client is disconnected for good and makes no new connection attempt.    *)
RemovedStaysDown ==
    [][\A c \in RemovedClients :
         (pc[c] # "dial" /\ \A k \in Cmd : cmd[k].client # c)
           => pc'[c] # "dial"]_vars

(* Rotation ends, again and again: a client whose proxy is exhausted tries *)
(* another one or gives up, whatever the API answers and whoever competes  *)
(* for proxies.                                                            *)
RotationEnds ==
    \A c \in Client :
        []<>(pc[c] \notin {"release", "ensure", "fetch", "acquire", "setproxy"})

(* Every command returns: none waits for ever for nm.mu, which RemoveClients *)
(* and Stop hold from their first client to their last, or for proxies.    *)
CommandsReturn == \A k \in Cmd : []<>(cmd[k].op = "idle")
=============================================================================
