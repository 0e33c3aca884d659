------------------------------ MODULE KeepNick ------------------------------
(***************************************************************************)
(* The keepnick processes of one client (internal/irc/keepnick.go), the    *)
(* commands that start and stop them through nm.keepNicks, and the parts   *)
(* of the client they depend on: its nick field, its event handlers and    *)
(* resetGircClient, which puts a new library client in place of the old.   *)
(*                                                                         *)
(* Every handler is registered with AddBg and runs in a goroutine of its   *)
(* own: an event leaves a set of handler runs that happen later, in any    *)
(* order, even after the library client they were registered with is       *)
(* replaced.  The server, the strangers on it and the library are external *)
(* and reduced to who holds which nick.                                    *)
(***************************************************************************)
EXTENDS Naturals, FiniteSets

CONSTANTS
    Proc,         \* KeepNick objects; each is started once
    Nick,         \* nicks
    Own,          \* ClientConfig.Nick, which no stranger takes
    Desired,      \* nicks that commands ask for
    Elsewhere,    \* the nick of a stranger who leaves a nick of the model
    NoProc,       \* no entry in nm.keepNicks
    MaxResets,    \* bound on the library clients made by resetGircClient
    MaxRuns       \* bound: no event while as many handler runs are outstanding

ASSUME NickAssumption == /\ Own \in Nick
                         /\ Desired \subseteq Nick
                         /\ Elsewhere \notin Nick
ASSUME NoProcAssumption == NoProc \notin Proc
ASSUME BoundAssumption == MaxResets \in Nat /\ MaxRuns \in Nat

VARIABLES
    listed,      \* the client is in nm.clients
    keepNick,    \* nm.keepNicks[client.ID()], or NoProc
    ctxDone,     \* nm.ctx is cancelled
    pc,          \* where the goroutine of each process is, from StartKeepNick on
    want,        \* its desiredNick
    cancelled,   \* processes whose own context is cancelled
    acquired,    \* processes with kn.acquired
    ids,         \* handlers whose IDs the process has stored
    handlers,    \* <<process, kind>>: registered with the current library client
    girc,        \* number of the current library client
    gnick,       \* GetNick() of each library client
    online,      \* the current one is connected
    nick,        \* client.nick
    runs,        \* handler runs that have not happened yet
    asked,       \* NICK commands on their way to the server
    taken,       \* nicks that strangers hold
    early,       \* history: processes stopped before they were started
    credited     \* history: processes whose nick the client had since Start

procVars   == <<pc, want, cancelled, acquired, ids>>
clientVars == <<handlers, girc, gnick, online, nick, runs, asked, taken>>
managerVars == <<listed, keepNick, ctxDone, early>>
vars == <<managerVars, procVars, clientVars, credited>>

Kinds == {"quit", "nick"}
Gens  == 0 .. MaxResets

(* A handler run: the process it belongs to, or NoProc for a handler of    *)
(* the client itself; the event; whose library client; the event's nicks.  *)
Runs == [proc : Proc \cup {NoProc}, on : {"CONNECTED", "QUIT", "NICK"},
         gen : Gens, from : Nick, to : Nick \cup {Elsewhere}]

\* From the call of Start to the end of the goroutine's deferred function.
Started == {p \in Proc : pc[p] \in {"starting", "quit", "both", "attempt",
                                    "select", "cleanup", "done"}}
Active  == {p \in Started : pc[p] # "done"}

Init ==
    /\ listed = TRUE
    /\ keepNick = NoProc
    /\ ctxDone = FALSE
    /\ pc = [p \in Proc |-> "unborn"]
    /\ want = [p \in Proc |-> Own]
    /\ cancelled = {}
    /\ acquired = {}
    /\ ids = [p \in Proc |-> {}]
    /\ handlers = {}
    /\ girc = 0
    /\ gnick = [g \in Gens |-> Own]
    /\ online = FALSE
    /\ nick = Own
    /\ runs = {}
    /\ asked = {}
    /\ taken \in SUBSET (Nick \ {Own})
    /\ early = {}
    /\ credited = {}

Goto(p, from, to) == pc[p] = from /\ pc' = [pc EXCEPT ![p] = to]

-----------------------------------------------------------------------------
(* The commands.                                                           *)

(* kn.Stop: cancels the process if Start has set kn.cancel, and does       *)
(* nothing to one that has only been created.                              *)
StopProc(p) ==
    /\ cancelled' = IF p \in Started THEN cancelled \cup {p} ELSE cancelled
    /\ early' = IF p \in Proc /\ pc[p] = "created" THEN early \cup {p} ELSE early

(* StartKeepNick looks the client up under a read lock ...                 *)
FindClient(p) ==
    /\ listed
    /\ Goto(p, "unborn", "found")
    /\ \E n \in Desired : want' = [want EXCEPT ![p] = n]
    /\ UNCHANGED <<managerVars, cancelled, acquired, ids, clientVars>>

(* ... and later enters the new process in the map, in place of another.   *)
\* Faulty variant: the process it replaces is not stopped.
CreateBeside(p) ==
    /\ Goto(p, "found", "created")
    /\ keepNick' = p
    /\ UNCHANGED <<cancelled, early, listed, ctxDone, want, acquired, ids, clientVars>>

Create(p) ==
    /\ Goto(p, "found", "created")
    /\ StopProc(keepNick)
    /\ keepNick' = p
    /\ UNCHANGED <<listed, ctxDone, want, acquired, ids, clientVars>>

StopKeepNick ==
    /\ keepNick # NoProc
    /\ StopProc(keepNick)
    /\ keepNick' = NoProc
    /\ UNCHANGED <<listed, ctxDone, pc, want, acquired, ids, clientVars>>

(* RemoveClients, and nm.Stop.                                             *)
Remove ==
    /\ listed
    /\ StopProc(keepNick)
    /\ listed' = FALSE
    /\ keepNick' = NoProc
    /\ UNCHANGED <<ctxDone, pc, want, acquired, ids, clientVars>>

(* The parent of all the processes' contexts.                              *)
Cancel ==
    /\ ~ ctxDone
    /\ ctxDone' = TRUE
    /\ cancelled' = cancelled \cup Started
    /\ UNCHANGED <<listed, keepNick, early, pc, want, acquired, ids, clientVars>>

-----------------------------------------------------------------------------
(* A process: Start, then its goroutine.                                   *)

Start(p) ==
    /\ Goto(p, "created", "starting")
    /\ cancelled' = IF ctxDone THEN cancelled \cup {p} ELSE cancelled
    /\ UNCHANGED <<managerVars, want, acquired, ids, clientVars>>

\* AddBg on whatever library client is the current one.
Register(p, kind) ==
    /\ handlers' = handlers \cup {<<p, kind>>}
    /\ UNCHANGED <<girc, gnick, online, nick, runs, asked, taken>>

AddQuitHandler(p) ==
    /\ Goto(p, "starting", "quit")
    /\ Register(p, "quit")
    /\ UNCHANGED <<managerVars, want, cancelled, acquired, ids>>

\* Faulty variant: the goroutine runs before the IDs are stored.
AddNickHandlerEarly(p) ==
    /\ Goto(p, "quit", "select")
    /\ Register(p, "nick")
    /\ UNCHANGED <<managerVars, want, cancelled, acquired, ids>>

AddNickHandler(p) ==
    /\ Goto(p, "quit", "both")
    /\ Register(p, "nick")
    /\ UNCHANGED <<managerVars, want, cancelled, acquired, ids>>

StoreIDs(p) ==
    /\ Goto(p, "both", "attempt")
    /\ ids' = [ids EXCEPT ![p] = Kinds]
    /\ UNCHANGED <<managerVars, want, cancelled, acquired, clientVars>>

(* attemptNick: it compares the client's nick field; a NICK command that   *)
(* is sent while the client is not connected is lost.                      *)
AttemptNick(p) ==
    IF nick = want[p]
    THEN acquired' = acquired \cup {p} /\ UNCHANGED asked
    ELSE /\ asked' = IF online THEN asked \cup {want[p]} ELSE asked
         /\ UNCHANGED acquired

FirstAttempt(p) ==
    /\ Goto(p, "attempt", "select")
    /\ AttemptNick(p)
    /\ UNCHANGED <<managerVars, want, cancelled, ids, handlers, girc, gnick,
                   online, nick, runs, taken>>

(* The ticker.  When the context is done as well, select picks either.     *)
\* Faulty variant: the ticker only looks whether the nick was acquired.
TickIdle(p) ==
    /\ pc[p] = "select"
    /\ p \in acquired \/ nick = want[p]
    /\ pc' = [pc EXCEPT ![p] = "cleanup"]
    /\ UNCHANGED <<acquired, asked, managerVars, want, cancelled, ids, handlers,
                   girc, gnick, online, nick, runs, taken>>

Tick(p) ==
    /\ pc[p] = "select"
    /\ IF p \in acquired \/ nick = want[p]
       THEN pc' = [pc EXCEPT ![p] = "cleanup"] /\ UNCHANGED <<acquired, asked>>
       ELSE AttemptNick(p) /\ UNCHANGED pc
    /\ UNCHANGED <<managerVars, want, cancelled, ids, handlers, girc, gnick,
                   online, nick, runs, taken>>

\* Faulty variant: only a process without the nick looks at its context.
DoneUnlessAcquired(p) ==
    /\ p \in cancelled /\ p \in acquired /\ nick # want[p]
    /\ Goto(p, "select", "cleanup")
    /\ UNCHANGED <<managerVars, want, cancelled, acquired, ids, clientVars>>

Done(p) ==
    /\ p \in cancelled
    /\ Goto(p, "select", "cleanup")
    /\ UNCHANGED <<managerVars, want, cancelled, acquired, ids, clientVars>>

(* The deferred function removes the stored IDs from the library client    *)
(* that is current now: it does not know those of another one.             *)
\* Faulty variant: the IDs outlive the process.
CleanUpKeepingIDs(p) ==
    /\ Goto(p, "cleanup", "done")
    /\ handlers' = handlers \ ({p} \X ids[p])
    /\ UNCHANGED <<ids, managerVars, want, cancelled, acquired, girc, gnick, online,
                   nick, runs, asked, taken>>

CleanUp(p) ==
    /\ Goto(p, "cleanup", "done")
    /\ handlers' = handlers \ ({p} \X ids[p])
    /\ ids' = [ids EXCEPT ![p] = {}]
    /\ UNCHANGED <<managerVars, want, cancelled, acquired, girc, gnick, online,
                   nick, runs, asked, taken>>

-----------------------------------------------------------------------------
(* Events of the current library client, and the handlers they start.      *)

\* The client's own handler and those of the processes.
Dispatch(on, kind, from, to) ==
    runs \cup {[proc |-> p, on |-> on, gen |-> girc, from |-> from, to |-> to] :
                 p \in {q \in Proc : <<q, kind>> \in handlers}
                         \cup (IF on = "QUIT" THEN {} ELSE {NoProc})}

Connected ==
    /\ ~ online
    /\ online' = TRUE
    /\ gnick' = [gnick EXCEPT ![girc] = Own]
    /\ runs' = runs \cup {[proc |-> NoProc, on |-> "CONNECTED", gen |-> girc,
                           from |-> Own, to |-> Own]}
    /\ UNCHANGED <<managerVars, procVars, handlers, girc, nick, asked, taken>>

Disconnected ==
    /\ online
    /\ online' = FALSE
    /\ asked' = {}
    /\ UNCHANGED <<managerVars, procVars, handlers, girc, gnick, nick, runs, taken>>

(* After the backoff.  Only the client's own handlers are registered       *)
(* again; its nick field keeps the last nick of the old connection.        *)
ResetGircClient ==
    /\ ~ online
    /\ girc < MaxResets
    /\ girc' = girc + 1
    /\ handlers' = {}
    /\ UNCHANGED <<managerVars, procVars, gnick, online, nick, runs, asked, taken>>

\* The server changes the client's nick to n.
Renamed(n) ==
    /\ gnick' = [gnick EXCEPT ![girc] = n]
    /\ runs' = Dispatch("NICK", "nick", gnick[girc], n)
    /\ UNCHANGED <<managerVars, procVars, handlers, girc, online, nick, taken>>

(* The server answers a NICK command; a nick in use changes nothing.       *)
Answer(n) ==
    /\ online
    /\ n \in asked
    /\ asked' = asked \ {n}
    /\ IF n \in taken \/ n = gnick[girc]
       THEN UNCHANGED <<managerVars, procVars, handlers, girc, gnick, online,
                        nick, runs, taken>>
       ELSE Renamed(n)

(* !nick, services, or the library after a collision.                      *)
OtherRename(n) ==
    /\ online
    /\ n \notin taken \cup {gnick[girc]}
    /\ Renamed(n)
    /\ UNCHANGED asked

StrangerTakes(n) ==
    /\ n \notin {Own} \cup taken
    /\ online => n # gnick[girc]
    /\ taken' = taken \cup {n}
    /\ UNCHANGED <<managerVars, procVars, handlers, girc, gnick, online, nick, runs, asked>>

StrangerLeaves(n) ==
    /\ n \in taken
    /\ taken' = taken \ {n}
    /\ runs' = IF online THEN Dispatch("QUIT", "quit", n, Elsewhere) ELSE runs
    /\ UNCHANGED <<managerVars, procVars, handlers, girc, gnick, online, nick, asked>>

StrangerRenamed(n) ==
    /\ n \in taken
    /\ taken' = taken \ {n}
    /\ runs' = IF online THEN Dispatch("NICK", "nick", n, Elsewhere) ELSE runs
    /\ UNCHANGED <<managerVars, procVars, handlers, girc, gnick, online, nick, asked>>

-----------------------------------------------------------------------------
(* Handler runs.                                                           *)

(* The client's handlers set its nick field to what the library says when  *)
(* they run.                                                               *)
RunOwn(r) ==
    /\ r.proc = NoProc
    /\ nick' = IF \/ r.on = "CONNECTED"
                  \/ r.from = nick
                  \/ r.to = gnick[r.gen]
               THEN gnick[r.gen] ELSE nick
    /\ runs' = runs \ {r}
    /\ UNCHANGED <<managerVars, procVars, handlers, girc, gnick, online, asked, taken>>

(* Both handlers try for the nick when its holder leaves it.               *)
HolderLeft(r) == r.from = want[r.proc] /\ (r.on = "NICK" => r.from # nick)

\* Faulty variant: any change of the client's nick counts.
CreditAny(r) == r.on = "NICK"

Credit(r) == r.on = "NICK" /\ gnick[r.gen] = want[r.proc]

RunKeepNick(r) ==
    LET p == r.proc IN
    /\ p # NoProc
    /\ acquired' = acquired \cup
                     {q \in {p} : Credit(r) \/ (HolderLeft(r) /\ nick = want[p])}
    /\ asked' = IF HolderLeft(r) /\ nick # want[p] /\ online
                THEN asked \cup {want[p]} ELSE asked
    /\ runs' = runs \ {r}
    /\ UNCHANGED <<managerVars, pc, want, cancelled, ids, handlers, girc, gnick,
                   online, nick, taken>>

Room == Cardinality(runs) < MaxRuns

-----------------------------------------------------------------------------
ProcStep(p) ==
    \/ Start(p)
    \/ AddQuitHandler(p)
    \/ AddNickHandler(p)
    \/ StoreIDs(p)
    \/ FirstAttempt(p)
    \/ Tick(p)
    \/ Done(p)
    \/ CleanUp(p)

Command ==
    \/ \E p \in Proc : FindClient(p) \/ Create(p)
    \/ StopKeepNick
    \/ Remove
    \/ Cancel

Server ==
    \/ Disconnected
    \/ ResetGircClient
    \/ \E n \in Nick : StrangerTakes(n)
    \/ /\ Room
       /\ \/ Connected
          \/ \E n \in Nick : \/ Answer(n)
                             \/ OtherRename(n)
                             \/ StrangerLeaves(n)
                             \/ StrangerRenamed(n)

Step ==
    \/ Command
    \/ Server
    \/ \E p \in Proc : ProcStep(p)
    \/ \E r \in runs : RunOwn(r) \/ RunKeepNick(r)

\* The history of what a process could take for success.
Credits == credited' = credited \cup
                         {p \in Started' : want'[p] \in {nick', gnick'[girc']}}

Next == Step /\ Credits

Spec == Init /\ [][Next]_vars

(* Goroutines run, handlers run, the ticker ticks, and a server that stays *)
(* connected answers (SF because of the bound on handler runs).  Nothing   *)
(* is assumed of commands, connections or strangers.                       *)
FairSpec ==
    /\ Spec
    /\ \A p \in Proc :
         /\ WF_vars((Start(p) \/ AddQuitHandler(p) \/ AddNickHandler(p)
                       \/ StoreIDs(p) \/ FirstAttempt(p) \/ CleanUp(p)) /\ Credits)
         /\ WF_vars(Tick(p) /\ Credits)
         /\ WF_vars(Done(p) /\ Credits)
    /\ WF_vars((\E r \in runs : RunOwn(r) \/ RunKeepNick(r)) /\ Credits)
    /\ \A n \in Nick : SF_vars(Answer(n) /\ Room /\ Credits)

-----------------------------------------------------------------------------
(* Shape of the state; no process keeps IDs once it has ended, and none is *)
(* cancelled or successful before it starts.                               *)
TypeOK ==
    /\ listed \in BOOLEAN
    /\ ctxDone \in BOOLEAN
    /\ keepNick \in Proc \cup {NoProc}
    /\ pc \in [Proc -> {"unborn", "found", "created", "starting", "quit", "both",
                       "attempt", "select", "cleanup", "done"}]
    /\ want \in [Proc -> Nick]
    /\ cancelled \cup acquired \cup credited \subseteq Started
    /\ ids \in [Proc -> {{}, Kinds}]
    /\ \A p \in Proc : ids[p] = Kinds <=> pc[p] \in {"attempt", "select", "cleanup"}
    /\ handlers \subseteq Proc \X Kinds
    /\ girc \in Gens
    /\ gnick \in [Gens -> Nick]
    /\ online \in BOOLEAN
    /\ nick \in Nick
    /\ runs \subseteq Runs
    /\ asked \subseteq Nick
    /\ taken \subseteq Nick \ {Own}
    /\ early \subseteq Proc

(* No handler outlives its process, however often the library client was   *)
(* replaced between the registrations, the storing of the IDs and the      *)
(* deferred removal.                                                       *)
NoStrayHandlers == \A h \in handlers : h[1] \in Active

(* A process that runs and was not cancelled is the one the map names, so  *)
(* that the next command stops it; the one exception is a process that was *)
(* told to stop between its creation and the call of Start, which nothing  *)
(* but the manager's context ends.                                         *)
OneProcess == \A p \in Active \ cancelled : p = keepNick \/ p \in early

(* A process that was not cancelled ends only if, since its start, its     *)
(* nick was the client's: by the library's account, or by the nick field,  *)
(* which may be left from an earlier connection.                           *)
EndsWithNick ==
    \A p \in Proc : pc[p] \in {"cleanup", "done"} => p \in cancelled \cup credited

(* What the comment on resetGircClient says of existing handlers: a        *)
(* process that is trying has both of its handlers registered.             *)
HandlersSurvive ==
    \A p \in Proc : pc[p] \in {"attempt", "select"} => {p} \X Kinds \subseteq handlers

(* A cancelled process ends, whatever the ticker and the connection do.    *)
CancelledEnds == \A p \in Proc : p \in cancelled ~> pc[p] = "done"

(* If the client stays connected and nobody holds the nick, the process    *)
(* gets it or ends, even when its handlers are lost or its commands were.  *)
KeepsTrying ==
    \A p \in Proc :
        <>[](online /\ want[p] \notin taken)
            => (pc[p] = "select" ~> (gnick[girc] = want[p] \/ pc[p] = "done"))
=============================================================================
