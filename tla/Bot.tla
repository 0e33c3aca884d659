-------------------------------- MODULE Bot --------------------------------
(***************************************************************************)
(* The life of the process and its registry of networks                    *)
(* (internal/bot/bot.go, cmd/funbot/main.go).  Run starts the configured   *)
(* networks and then keeps the home client connected until a signal        *)
(* cancels its context; main exits when Run returns.  Every command that   *)
(* the home client receives runs in a goroutine of its own and works on    *)
(* b.networks, under netMu, and on b.cfg.Networks, under no lock.          *)
(*                                                                         *)
(* A network manager is reduced to its name, its context and whether it    *)
(* has clients: NetworkManager has the rest.  netMu is held across steps   *)
(* only by handleStatus, and nm.mu only by Stop and RemoveClients; both    *)
(* are read off the commands in progress.                                  *)
(***************************************************************************)
EXTENDS Naturals, FiniteSets

CONSTANTS
    Name,       \* network names
    Home,       \* cfg.HomeNetwork
    AutoNet,    \* configured networks with default_clients > 0
    Mgr,        \* NetworkManager objects of one life of the process
    Cmd,        \* command goroutines
    None        \* no manager, no name

ASSUME NameAssumption == Home \in Name /\ AutoNet \subseteq Name \ {Home}
ASSUME NoneAssumption == None \notin Mgr \cup Name

VARIABLES
    phase,       \* what main is doing: "boot", "home", "quit", "exited"
    todo,        \* names Run's loop has not visited
    online,      \* the home client is connected
    signalled,   \* the root context is cancelled
    networks,    \* b.networks
    configured,  \* the keys of b.cfg.Networks
    mgr,         \* the managers
    cmd,         \* the commands in progress
    raced        \* history: names on which commands overlapped

mainVars == <<phase, todo, online, signalled>>
registry == <<networks, configured, mgr, cmd, raced>>
vars     == <<mainVars, registry>>

Made(n, s, r)   == [name |-> n, state |-> s, root |-> r]
Call(op, n, m)  == [op |-> op, name |-> n, mgr |-> m, left |-> {}]
Unborn == Made(None, "unborn", FALSE)
NoCall == Call("idle", None, None)

Init ==
    /\ phase = "boot"
    /\ todo = AutoNet
    /\ online = FALSE
    /\ signalled = FALSE
    /\ networks = [n \in Name |-> None]
    /\ configured = AutoNet \cup {Home}
    /\ mgr = [m \in Mgr |-> Unborn]
    /\ cmd = [k \in Cmd |-> NoCall]
    /\ raced = {}

Free == {m \in Mgr : mgr[m].state = "unborn"}

(* The model's bound: a command connects only while a manager is left.     *)
Reserved == {k \in Cmd : cmd[k].op = "configure"}

(* Holders of the locks across steps.                                      *)
Locked(m)   == \E k \in Cmd : cmd[k].op \in {"stop", "rm"} /\ cmd[k].mgr = m
NetMuRead   == \E k \in Cmd : cmd[k].op = "status"

(* Commands that make, take away or revive a manager.                      *)
Connecting    == {"configure", "start", "undo", "publish"}
Disconnecting == {"halt", "stop", "forget"}

(* The name n, if a command k that begins on it meets one of ops there.    *)
Meets(k, n, ops) ==
    {x \in {n} : \E j \in Cmd \ {k} : cmd[j].name = x /\ cmd[j].op \in ops}

Goto(k, from, to) == cmd[k].op = from /\ cmd' = [cmd EXCEPT ![k].op = to]
Return(k, from)   == cmd[k].op = from /\ cmd' = [cmd EXCEPT ![k] = NoCall]

-----------------------------------------------------------------------------
(* main and Run.                                                           *)

(* One round of Run's loop: a manager whose Start found a proxy enters     *)
(* the map; any error skips the network for good.                          *)
BootStart(n) ==
    \E m \in Free :
        /\ phase = "boot" /\ n \in todo
        /\ todo' = todo \ {n}
        /\ mgr' = [mgr EXCEPT ![m] = Made(n, "up", TRUE)]
        /\ networks' = [networks EXCEPT ![n] = m]
        /\ UNCHANGED <<phase, online, signalled, configured, cmd, raced>>

BootSkip(n) ==
    /\ phase = "boot" /\ n \in todo
    /\ todo' = todo \ {n}
    /\ UNCHANGED <<phase, online, signalled, registry>>

BootDone ==
    /\ phase = "boot" /\ todo = {}
    /\ phase' = "home"
    /\ UNCHANGED <<todo, online, signalled, registry>>

(* The home client connects, and drops, any number of times.               *)
HomeLink ==
    /\ phase = "home"
    /\ online' = ~ online
    /\ UNCHANGED <<phase, todo, signalled, registry>>

Signal ==
    /\ phase # "exited" /\ ~ signalled
    /\ signalled' = TRUE
    /\ UNCHANGED <<phase, todo, online, registry>>

(* Connect, or the backoff, sees the context; a connected client sends     *)
(* QUIT and sleeps before Run returns.                                     *)

\* Faulty variant: only the backoff looks at the context.
HomeQuitBetween ==
    /\ phase = "home" /\ signalled /\ ~ online
    /\ phase' = "quit"
    /\ UNCHANGED <<todo, online, signalled, registry>>

HomeQuit ==
    /\ phase = "home" /\ signalled
    /\ phase' = "quit"
    /\ UNCHANGED <<todo, online, signalled, registry>>

(* The process ends: nothing of it is left.                                *)
Die ==
    /\ phase' = "exited"
    /\ todo' = AutoNet
    /\ online' = FALSE
    /\ signalled' = FALSE
    /\ networks' = [n \in Name |-> None]
    /\ configured' = AutoNet \cup {Home}
    /\ mgr' = [m \in Mgr |-> Unborn]
    /\ cmd' = [k \in Cmd |-> NoCall]
    /\ raced' = {}

Exit == phase = "quit" /\ Die

Restart ==
    /\ phase = "exited"
    /\ phase' = "boot"
    /\ UNCHANGED <<todo, online, signalled, registry>>

(* Clients of a manager that Run started see the context and end; those    *)
(* of !connect have context.Background.                                    *)
ClientsQuit(m) ==
    /\ signalled /\ mgr[m].root /\ mgr[m].state = "up"
    /\ mgr' = [mgr EXCEPT ![m].state = "quit"]
    /\ UNCHANGED <<mainVars, networks, configured, cmd, raced>>

-----------------------------------------------------------------------------
(* handleConnect.  Looking up the name, writing the configuration,         *)
(* starting the manager and entering it are four separate steps.           *)
ConnectLookup(k, n) ==
    /\ online /\ cmd[k].op = "idle"
    /\ networks[n] = None
    /\ Cardinality(Reserved) < Cardinality(Free)
    /\ cmd' = [cmd EXCEPT ![k] = Call("configure", n, None)]
    /\ raced' = raced \cup Meets(k, n, Connecting \cup Disconnecting \cup {"add"})
    /\ UNCHANGED <<mainVars, networks, configured, mgr>>

\* Faulty variant: the configuration is not written.
ConnectConfigureUnlisted(k) ==
    \E m \in Free :
        /\ cmd[k].op = "configure"
        /\ mgr' = [mgr EXCEPT ![m] = Made(cmd[k].name, "starting", FALSE)]
        /\ cmd' = [cmd EXCEPT ![k].op = "start", ![k].mgr = m]
        /\ UNCHANGED <<mainVars, networks, configured, raced>>

ConnectConfigure(k) ==
    \E m \in Free :
        /\ cmd[k].op = "configure"
        /\ configured' = configured \cup {cmd[k].name}
        /\ mgr' = [mgr EXCEPT ![m] = Made(cmd[k].name, "starting", FALSE)]
        /\ cmd' = [cmd EXCEPT ![k].op = "start", ![k].mgr = m]
        /\ UNCHANGED <<mainVars, networks, raced>>

ConnectStarted(k) ==
    /\ Goto(k, "start", "publish")
    /\ mgr' = [mgr EXCEPT ![cmd[k].mgr].state = "up"]
    /\ UNCHANGED <<mainVars, networks, configured, raced>>

(* Start fails without a single client, and the configuration goes.        *)

\* Faulty variant: the error is noticed only after clients were started.
ConnectFailedLate(k) ==
    /\ Goto(k, "start", "undo")
    /\ mgr' = [mgr EXCEPT ![cmd[k].mgr].state = "up"]
    /\ UNCHANGED <<mainVars, networks, configured, raced>>

ConnectFailed(k) ==
    /\ Goto(k, "start", "undo")
    /\ mgr' = [mgr EXCEPT ![cmd[k].mgr].state = "down"]
    /\ UNCHANGED <<mainVars, networks, configured, raced>>

ConnectUndo(k) ==
    /\ Return(k, "undo")
    /\ configured' = configured \ {cmd[k].name}
    /\ UNCHANGED <<mainVars, networks, mgr, raced>>

(* The map entry is written, whatever is there by now.                     *)
ConnectPublish(k) ==
    /\ ~ NetMuRead
    /\ Return(k, "publish")
    /\ networks' = [networks EXCEPT ![cmd[k].name] = cmd[k].mgr]
    /\ UNCHANGED <<mainVars, configured, mgr, raced>>

-----------------------------------------------------------------------------
(* handleDisconnect.                                                       *)

\* Faulty variant: the entry stays in the map until the manager is stopped.
DisconnectTakeLate(k, n) ==
    /\ online /\ cmd[k].op = "idle"
    /\ ~ NetMuRead
    /\ n # Home /\ networks[n] # None
    /\ cmd' = [cmd EXCEPT ![k] = Call("halt", n, networks[n])]
    /\ raced' = raced \cup Meets(k, n, Connecting \cup Disconnecting \cup {"add"})
    /\ UNCHANGED <<mainVars, networks, configured, mgr>>

DisconnectTake(k, n) ==
    /\ online /\ cmd[k].op = "idle"
    /\ ~ NetMuRead
    /\ n # Home /\ networks[n] # None
    /\ networks' = [networks EXCEPT ![n] = None]
    /\ cmd' = [cmd EXCEPT ![k] = Call("halt", n, networks[n])]
    /\ raced' = raced \cup Meets(k, n, Connecting \cup Disconnecting \cup {"add"})
    /\ UNCHANGED <<mainVars, configured, mgr>>

StopLocks(k) ==
    /\ ~ Locked(cmd[k].mgr)
    /\ Goto(k, "halt", "stop")
    /\ UNCHANGED <<mainVars, networks, configured, mgr, raced>>

StopDone(k) ==
    /\ Goto(k, "stop", "forget")
    /\ mgr' = [mgr EXCEPT ![cmd[k].mgr].state = "down"]
    /\ UNCHANGED <<mainVars, networks, configured, raced>>

DisconnectForget(k) ==
    /\ Return(k, "forget")
    /\ configured' = configured \ {cmd[k].name}
    /\ UNCHANGED <<mainVars, networks, mgr, raced>>

-----------------------------------------------------------------------------
(* handleAddClients and handleRmClients work on the manager that was in    *)
(* the map when they looked.                                               *)
AddLookup(k, n) ==
    /\ online /\ cmd[k].op = "idle"
    /\ networks[n] # None
    /\ cmd' = [cmd EXCEPT ![k] = Call("add", n, networks[n])]
    /\ raced' = raced \cup Meets(k, n, Connecting \cup Disconnecting)
    /\ UNCHANGED <<mainVars, networks, configured, mgr>>

(* A client is appended; its goroutine ends at once under a cancelled      *)
(* context.                                                                *)
AddAppend(k) ==
    LET m == cmd[k].mgr IN
    /\ cmd[k].op = "add" /\ ~ Locked(m)
    /\ mgr' = [mgr EXCEPT ![m].state =
                 IF mgr[m].root /\ signalled THEN "quit" ELSE "up"]
    /\ UNCHANGED <<mainVars, networks, configured, cmd, raced>>

AddReturns(k) ==
    /\ Return(k, "add")
    /\ UNCHANGED <<mainVars, networks, configured, mgr, raced>>

RmLookup(k, n) ==
    /\ online /\ cmd[k].op = "idle"
    /\ networks[n] # None
    /\ cmd' = [cmd EXCEPT ![k] = Call("rmwait", n, networks[n])]
    /\ UNCHANGED <<mainVars, networks, configured, mgr, raced>>

RmLocks(k) ==
    /\ ~ Locked(cmd[k].mgr)
    /\ Goto(k, "rmwait", "rm")
    /\ UNCHANGED <<mainVars, networks, configured, mgr, raced>>

RmReturns(k) ==
    /\ Return(k, "rm")
    /\ \/ mgr' = [mgr EXCEPT ![cmd[k].mgr].state = "down"]
       \/ UNCHANGED mgr
    /\ UNCHANGED <<mainVars, networks, configured, raced>>

-----------------------------------------------------------------------------
(* Commands that only read.  handleStatus keeps netMu while it asks each   *)
(* manager; handleNetworks and isKnownNetwork read the configuration and   *)
(* then the map.                                                           *)

StatusLocks(k) ==
    /\ online /\ cmd[k].op = "idle"
    /\ cmd' = [cmd EXCEPT ![k] = [NoCall EXCEPT !.op = "status",
                                  !.left = {networks[n] : n \in Name} \ {None}]]
    /\ UNCHANGED <<mainVars, networks, configured, mgr, raced>>

StatusReads(k, m) ==
    /\ cmd[k].op = "status" /\ m \in cmd[k].left
    /\ ~ Locked(m)
    /\ cmd' = [cmd EXCEPT ![k].left = @ \ {m}]
    /\ UNCHANGED <<mainVars, networks, configured, mgr, raced>>

\* Faulty variant: without networks it returns before the lock is released.
StatusReturnsLocked(k) ==
    /\ cmd[k].left = {} /\ \E n \in Name : networks[n] # None
    /\ Return(k, "status")
    /\ UNCHANGED <<mainVars, networks, configured, mgr, raced>>

StatusReturns(k) ==
    /\ cmd[k].left = {}
    /\ Return(k, "status")
    /\ UNCHANGED <<mainVars, networks, configured, mgr, raced>>

ListStarts(k) ==
    /\ online /\ cmd[k].op = "idle"
    /\ cmd' = [cmd EXCEPT ![k] = Call("list", None, None)]
    /\ UNCHANGED <<mainVars, networks, configured, mgr, raced>>

ListReturns(k) ==
    /\ Return(k, "list")
    /\ UNCHANGED <<mainVars, networks, configured, mgr, raced>>

(* Two goroutines touch the map b.cfg.Networks at a time and one of them   *)
(* writes: where the runtime notices, it ends the process.                 *)
MapFault ==
    /\ \E j, k \in Cmd :
         /\ j # k
         /\ cmd[j].op \in {"configure", "undo", "forget"}
         /\ cmd[k].op \in {"configure", "undo", "forget", "list"}
    /\ Die

-----------------------------------------------------------------------------
Main ==
    \/ \E n \in Name : BootStart(n) \/ BootSkip(n)
    \/ BootDone
    \/ HomeQuit
    \/ Exit

Environment == HomeLink \/ Signal \/ Restart \/ MapFault

CmdStart(k) ==
    \/ \E n \in Name : ConnectLookup(k, n)
    \/ \E n \in Name : DisconnectTake(k, n)
    \/ \E n \in Name : AddLookup(k, n)
    \/ \E n \in Name : RmLookup(k, n)
    \/ StatusLocks(k)
    \/ ListStarts(k)

CmdProgress(k) ==
    \/ ConnectConfigure(k)
    \/ ConnectStarted(k)
    \/ ConnectFailed(k)
    \/ ConnectUndo(k)
    \/ ConnectPublish(k)
    \/ StopLocks(k)
    \/ StopDone(k)
    \/ DisconnectForget(k)
    \/ AddAppend(k)
    \/ AddReturns(k)
    \/ RmLocks(k)
    \/ RmReturns(k)
    \/ \E m \in Mgr : StatusReads(k, m)
    \/ StatusReturns(k)
    \/ ListReturns(k)

Next ==
    \/ Main
    \/ Environment
    \/ \E m \in Mgr : ClientsQuit(m)
    \/ \E k \in Cmd : CmdStart(k) \/ CmdProgress(k)

Spec == Init /\ [][Next]_vars

(* Goroutines run, timers fire and Go's mutexes starve no waiter: a step   *)
(* that needs a lock is enabled again and again and then happens (SF).     *)
(* Connections, commands and signals are free.                             *)
FairCmd(k) ==
    /\ WF_vars(CmdProgress(k) /\ cmd'[k].op # cmd[k].op)
    /\ SF_vars(\/ ConnectPublish(k) \/ StopLocks(k) \/ RmLocks(k)
               \/ \E m \in Mgr : StatusReads(k, m))

FairSpec == Spec /\ WF_vars(Main) /\ \A k \in Cmd : FairCmd(k)

-----------------------------------------------------------------------------
(* Shape of the state.                                                     *)
TypeOK ==
    /\ phase \in {"boot", "home", "quit", "exited"}
    /\ todo \subseteq AutoNet
    /\ online \in BOOLEAN
    /\ signalled \in BOOLEAN
    /\ networks \in [Name -> Mgr \cup {None}]
    /\ configured \subseteq Name
    /\ mgr \in [Mgr -> [name : Name \cup {None},
                        state : {"unborn", "starting", "up", "quit", "down"},
                        root : BOOLEAN]]
    /\ cmd \in [Cmd -> [op : {"idle", "add", "rmwait", "rm", "status", "list"}
                               \cup Connecting \cup Disconnecting,
                        name : Name \cup {None},
                        mgr : Mgr \cup {None},
                        left : SUBSET Mgr]]
    /\ raced \subseteq Name

(* A command still has to enter m, or is stopping it.                      *)
InHand(m) ==
    \E k \in Cmd : cmd[k].mgr = m /\ cmd[k].op \in {"publish", "halt", "stop"}

(* A manager with clients can be reached by its name: handleConnect and    *)
(* handleDisconnect lose none of them, unless commands on one name         *)
(* overlapped, when the later of two connects overwrites the earlier one   *)
(* (bot.go:990), or clients are added to a manager that was taken off the  *)
(* map (bot.go:1043).                                                      *)
ReachableUnlessRaced ==
    \A m \in Mgr :
        mgr[m].state = "up" /\ ~ InHand(m) /\ mgr[m].name \notin raced
            => networks[mgr[m].name] = m

(* A network with a manager is in b.cfg.Networks, where handleNetworks     *)
(* and isKnownNetwork look first, unless the removal by one command        *)
(* (bot.go:985, 1021) met another command on the name.                     *)
ConfiguredUnlessRaced ==
    \A n \in Name : networks[n] # None /\ n \notin raced => n \in configured

(* handleDisconnect hands each manager to one Stop: no other command       *)
(* stops it as well and no later one finds it in the map.                  *)
StoppedByOne ==
    \A k \in Cmd : cmd[k].op \in {"halt", "stop"} =>
        /\ \A n \in Name : networks[n] # cmd[k].mgr
        /\ \A j \in Cmd \ {k} :
             cmd[j].op \in {"halt", "stop"} => cmd[j].mgr # cmd[k].mgr

(* Every command returns, although handleStatus waits for nm.mu under      *)
(* netMu while Stop and RemoveClients sleep under nm.mu.                   *)
CommandsReturn == \A k \in Cmd : cmd[k].op # "idle" ~> cmd[k].op = "idle"

(* After a signal the process ends, from any phase of Run and whatever     *)
(* commands are in progress.                                               *)
SignalEnds == signalled ~> phase = "exited"
=============================================================================
