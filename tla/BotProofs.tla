----------------------------- MODULE BotProofs ------------------------------
(***************************************************************************)
(* Proofs about Bot, for any number of networks, managers and commands.    *)
(***************************************************************************)
EXTENDS Bot, TLAPS

\* Commands that hold a manager, and those that must not meet on a name.
Holding == {"start", "undo", "publish", "halt", "stop", "forget", "add", "rmwait", "rm"}
Changing == Connecting \cup Disconnecting

\* Commands come from the home client: none runs before it is started, and
\* Run's loop meets no manager.
BootInv ==
    phase \in {"boot", "exited"} =>
        /\ ~ online
        /\ \A k \in Cmd : cmd[k].op = "idle"
        /\ configured = AutoNet \cup {Home}
        /\ \A n \in todo : networks[n] = None

\* What a command holds and what the map holds was made, under that name.
HoldInv ==
    /\ \A k \in Cmd :
         /\ cmd[k].op \in Holding \cup {"configure"} => cmd[k].name \in Name
         /\ cmd[k].op \notin Holding => cmd[k].mgr = None
         /\ cmd[k].op \in Holding =>
              /\ cmd[k].mgr \in Mgr
              /\ mgr[cmd[k].mgr].state # "unborn"
              /\ mgr[cmd[k].mgr].name = cmd[k].name
    /\ \A n \in Name : networks[n] # None =>
         /\ mgr[networks[n]].state # "unborn"
         /\ mgr[networks[n]].name = n

\* A manager that is being started is known to its command alone.
OwnInv ==
    \A k \in Cmd : cmd[k].op \in {"start", "undo", "publish"} =>
        /\ \A n \in Name : networks[n] # cmd[k].mgr
        /\ \A j \in Cmd \ {k} : cmd[j].mgr # cmd[k].mgr

\* On a name where no commands overlapped, at most one changes the registry,
\* and while it does so the map has no manager of the name.
PairInv ==
    \A j, k \in Cmd :
        /\ j # k
        /\ cmd[j].op \in Changing
        /\ cmd[k].op \in Changing \cup {"add"}
        /\ cmd[k].name = cmd[j].name
        => cmd[j].name \in raced

GapInv ==
    \A k \in Cmd : cmd[k].name \notin raced =>
        /\ cmd[k].op \in Changing => networks[cmd[k].name] = None
        /\ cmd[k].op = "add" => networks[cmd[k].name] = cmd[k].mgr
        /\ cmd[k].op \in {"start", "publish"} => cmd[k].name \in configured

IInv == /\ TypeOK /\ BootInv /\ HoldInv /\ OwnInv /\ PairInv /\ GapInv
        /\ ReachableUnlessRaced /\ ConfiguredUnlessRaced /\ StoppedByOne

-----------------------------------------------------------------------------
(* Steps that leave the registry alone.                                    *)
Quiet == /\ UNCHANGED registry
         /\ todo' \subseteq todo
         /\ phase' \in {"boot", "home", "quit", "exited"}
         /\ online' \in BOOLEAN /\ signalled' \in BOOLEAN
         /\ phase' \in {"boot", "exited"} => phase \in {"boot", "exited"} /\ online' = online

QuietStep ==
    \/ \E n \in Name : BootSkip(n)
    \/ BootDone \/ HomeLink \/ Signal \/ HomeQuit \/ Restart

LEMMA QuietFacts ==
    ASSUME TypeOK, QuietStep
    PROVE  Quiet
<1> USE DEF TypeOK, Quiet, registry
<1>1. ASSUME NEW n \in Name, BootSkip(n) PROVE Quiet
    BY <1>1 DEF BootSkip
<1>2. ASSUME BootDone PROVE Quiet
    BY <1>2 DEF BootDone
<1>3. ASSUME HomeLink PROVE Quiet
    BY <1>3 DEF HomeLink
<1>4. ASSUME Signal PROVE Quiet
    BY <1>4 DEF Signal
<1>5. ASSUME HomeQuit PROVE Quiet
    BY <1>5 DEF HomeQuit
<1>6. ASSUME Restart PROVE Quiet
    BY <1>6 DEF Restart
<1> QED BY <1>1, <1>2, <1>3, <1>4, <1>5, <1>6 DEF QuietStep

-----------------------------------------------------------------------------
(* The shape of the state.                                                 *)
LEMMA StepType ==
    ASSUME TypeOK, BootInv, HoldInv, [Next]_vars
    PROVE  TypeOK'
<1> USE NameAssumption, NoneAssumption
                DEF TypeOK, HoldInv, Holding, Free, Unborn, Goto, Return,
            NoCall, Call, Made, mainVars, Connecting, Disconnecting
<1>1. ASSUME QuietStep \/ UNCHANGED vars PROVE TypeOK'
    BY <1>1, QuietFacts DEF Quiet, vars, mainVars, registry
<1>2. ASSUME NEW n \in Name, BootStart(n) PROVE TypeOK'
    BY <1>2 DEF BootStart
<1>3. ASSUME NEW m \in Mgr, ClientsQuit(m) PROVE TypeOK'
    BY <1>3 DEF ClientsQuit
<1>4. ASSUME Exit \/ MapFault PROVE TypeOK'
    <2>1. Die
        BY <1>4 DEF Exit, MapFault
    <2>2. cmd' \in [Cmd -> [op : {"idle"}, name : {None}, mgr : {None}, left : {{}}]]
        BY <2>1 DEF Die
    <2>3. mgr' \in [Mgr -> [name : {None}, state : {"unborn"}, root : {FALSE}]]
        BY <2>1 DEF Die
    <2> QED BY <2>1, <2>2, <2>3 DEF Die
<1>5. ASSUME NEW k \in Cmd, NEW n \in Name, ConnectLookup(k, n) PROVE TypeOK'
    BY <1>5 DEF ConnectLookup, Meets
<1>6. ASSUME NEW k \in Cmd, ConnectConfigure(k) PROVE TypeOK'
    BY <1>6 DEF ConnectConfigure
<1>7. ASSUME NEW k \in Cmd, ConnectStarted(k) PROVE TypeOK'
    BY <1>7 DEF ConnectStarted
<1>8. ASSUME NEW k \in Cmd, ConnectFailed(k) PROVE TypeOK'
    BY <1>8 DEF ConnectFailed
<1>9. ASSUME NEW k \in Cmd, ConnectUndo(k) PROVE TypeOK'
    BY <1>9 DEF ConnectUndo
<1>10. ASSUME NEW k \in Cmd, ConnectPublish(k) PROVE TypeOK'
    BY <1>10 DEF ConnectPublish
<1>11. ASSUME NEW k \in Cmd, NEW n \in Name, DisconnectTake(k, n)
      PROVE  TypeOK'
    BY <1>11 DEF DisconnectTake, Meets
<1>12. ASSUME NEW k \in Cmd, StopLocks(k) PROVE TypeOK'
    BY <1>12 DEF StopLocks
<1>13. ASSUME NEW k \in Cmd, StopDone(k) PROVE TypeOK'
    BY <1>13 DEF StopDone
<1>14. ASSUME NEW k \in Cmd, DisconnectForget(k) PROVE TypeOK'
    BY <1>14 DEF DisconnectForget
<1>15. ASSUME NEW k \in Cmd, NEW n \in Name, AddLookup(k, n) PROVE TypeOK'
    BY <1>15 DEF AddLookup, Meets
<1>16. ASSUME NEW k \in Cmd, AddAppend(k) PROVE TypeOK'
    BY <1>16 DEF AddAppend
<1>17. ASSUME NEW k \in Cmd, AddReturns(k) PROVE TypeOK'
    BY <1>17 DEF AddReturns
<1>18. ASSUME NEW k \in Cmd, NEW n \in Name, RmLookup(k, n) PROVE TypeOK'
    BY <1>18 DEF RmLookup
<1>19. ASSUME NEW k \in Cmd, RmLocks(k) PROVE TypeOK'
    BY <1>19 DEF RmLocks
<1>20. ASSUME NEW k \in Cmd, RmReturns(k), UNCHANGED mgr PROVE TypeOK'
    BY <1>20 DEF RmReturns
<1>21. ASSUME NEW k \in Cmd, RmReturns(k), mgr' # mgr PROVE TypeOK'
    BY <1>21 DEF RmReturns
<1>22. ASSUME NEW k \in Cmd, NEW m \in Mgr, StatusReads(k, m) PROVE TypeOK'
    BY <1>22 DEF StatusReads
<1>23. ASSUME NEW k \in Cmd, StatusLocks(k) PROVE TypeOK'
    <2>1. {networks[n] : n \in Name} \ {None} \subseteq Mgr
        BY <1>23
    <2>2. cmd'[k].left = {networks[n] : n \in Name} \ {None}
        BY <1>23 DEF StatusLocks
    <2> QED BY <1>23, <2>1, <2>2 DEF StatusLocks
<1>24. ASSUME NEW k \in Cmd, StatusReturns(k) PROVE TypeOK'
    BY <1>24 DEF StatusReturns
<1>25. ASSUME NEW k \in Cmd, ListStarts(k) PROVE TypeOK'
    BY <1>25 DEF ListStarts
<1>26. ASSUME NEW k \in Cmd, ListReturns(k) PROVE TypeOK'
    BY <1>26 DEF ListReturns
<1> QED BY <1>1, <1>2, <1>3, <1>4, <1>5, <1>6, <1>7, <1>8, <1>9, <1>10, <1>11,
        <1>12, <1>13,
                <1>14, <1>15, <1>16, <1>17, <1>18, <1>19, <1>20, <1>21, <1>22,
        <1>23, <1>24, <1>25, <1>26
        DEF Next, Main, Environment, CmdStart, CmdProgress, QuietStep
-----------------------------------------------------------------------------
(* Nothing happens before the home client connects.                        *)
LEMMA CommandsLate ==
    ASSUME TypeOK, BootInv, NEW k \in Cmd, CmdStart(k) \/ CmdProgress(k)
    PROVE  phase \notin {"boot", "exited"} /\ phase' = phase
<1>1. phase' = phase
    BY DEF CmdStart, CmdProgress, ConnectLookup, DisconnectTake, AddLookup,
        RmLookup, StatusLocks, ListStarts, ConnectConfigure, ConnectStarted,
        ConnectFailed, ConnectUndo, ConnectPublish, StopLocks, StopDone,
        DisconnectForget, AddAppend, AddReturns, RmLocks, RmReturns,
        StatusReads, StatusReturns, ListReturns, mainVars
<1>2. CmdStart(k) => online
    BY DEF CmdStart, ConnectLookup, DisconnectTake, AddLookup, RmLookup,
        StatusLocks, ListStarts
<1>3. CmdProgress(k) => cmd[k].op # "idle"
    BY DEF CmdProgress, ConnectConfigure, ConnectStarted, ConnectFailed,
        ConnectUndo, ConnectPublish, StopLocks, StopDone, DisconnectForget,
        AddAppend, AddReturns, RmLocks, RmReturns, StatusReads,
        StatusReturns, ListReturns, Goto, Return
<1> QED BY <1>1, <1>2, <1>3 DEF BootInv

LEMMA StepBoot ==
    ASSUME TypeOK, BootInv, [Next]_vars
    PROVE  BootInv'
<1>1. ASSUME QuietStep \/ UNCHANGED vars PROVE BootInv'
    BY <1>1, QuietFacts DEF Quiet, BootInv, vars, mainVars, registry
<1>2. ASSUME NEW n \in Name, BootStart(n) PROVE BootInv'
    BY <1>2, NameAssumption DEF BootStart, BootInv, TypeOK
<1>3. ASSUME NEW m \in Mgr, ClientsQuit(m) PROVE BootInv'
    BY <1>3 DEF ClientsQuit, BootInv, mainVars
<1>4. ASSUME Die PROVE BootInv'
    BY <1>4, NameAssumption DEF Die, BootInv, NoCall, Call
<1>5. ASSUME NEW k \in Cmd, CmdStart(k) \/ CmdProgress(k) PROVE BootInv'
    BY <1>5, CommandsLate DEF BootInv
<1> QED BY <1>1, <1>2, <1>3, <1>4, <1>5
        DEF Next, Main, Environment, Exit, MapFault, QuietStep

-----------------------------------------------------------------------------
(* A manager keeps its name for life.                                      *)
LEMMA StepHold ==
    ASSUME TypeOK, BootInv, HoldInv, [Next]_vars
    PROVE  HoldInv'
<1> USE NameAssumption, NoneAssumption
                DEF TypeOK, HoldInv, Holding, Free, Unborn, Goto, Return,
            NoCall, Call, Made, mainVars, Connecting, Disconnecting
<1>1. ASSUME QuietStep \/ UNCHANGED vars PROVE HoldInv'
    BY <1>1, QuietFacts DEF Quiet, vars, mainVars, registry
<1>2. ASSUME NEW n \in Name, BootStart(n) PROVE HoldInv'
    BY <1>2 DEF BootStart
<1>3. ASSUME NEW m \in Mgr, ClientsQuit(m) PROVE HoldInv'
    BY <1>3 DEF ClientsQuit
<1>4. ASSUME Exit \/ MapFault PROVE HoldInv'
    BY <1>4 DEF Exit, MapFault, Die
<1>5. ASSUME NEW k \in Cmd, NEW n \in Name, ConnectLookup(k, n) PROVE HoldInv'
    BY <1>5 DEF ConnectLookup, Meets
<1>6. ASSUME NEW k \in Cmd, ConnectConfigure(k) PROVE HoldInv'
    BY <1>6 DEF ConnectConfigure
<1>7. ASSUME NEW k \in Cmd, ConnectStarted(k) PROVE HoldInv'
    BY <1>7 DEF ConnectStarted
<1>8. ASSUME NEW k \in Cmd, ConnectFailed(k) PROVE HoldInv'
    BY <1>8 DEF ConnectFailed
<1>9. ASSUME NEW k \in Cmd, ConnectUndo(k) PROVE HoldInv'
    BY <1>9 DEF ConnectUndo
<1>10. ASSUME NEW k \in Cmd, ConnectPublish(k) PROVE HoldInv'
    BY <1>10 DEF ConnectPublish
<1>11. ASSUME NEW k \in Cmd, NEW n \in Name, DisconnectTake(k, n)
      PROVE  HoldInv'
    BY <1>11 DEF DisconnectTake, Meets
<1>12. ASSUME NEW k \in Cmd, StopLocks(k) PROVE HoldInv'
    BY <1>12 DEF StopLocks
<1>13. ASSUME NEW k \in Cmd, StopDone(k) PROVE HoldInv'
    BY <1>13 DEF StopDone
<1>14. ASSUME NEW k \in Cmd, DisconnectForget(k) PROVE HoldInv'
    BY <1>14 DEF DisconnectForget
<1>15. ASSUME NEW k \in Cmd, NEW n \in Name, AddLookup(k, n) PROVE HoldInv'
    BY <1>15 DEF AddLookup, Meets
<1>16. ASSUME NEW k \in Cmd, AddAppend(k) PROVE HoldInv'
    BY <1>16 DEF AddAppend
<1>17. ASSUME NEW k \in Cmd, AddReturns(k) PROVE HoldInv'
    BY <1>17 DEF AddReturns
<1>18. ASSUME NEW k \in Cmd, NEW n \in Name, RmLookup(k, n) PROVE HoldInv'
    BY <1>18 DEF RmLookup
<1>19. ASSUME NEW k \in Cmd, RmLocks(k) PROVE HoldInv'
    BY <1>19 DEF RmLocks
<1>20. ASSUME NEW k \in Cmd, RmReturns(k), UNCHANGED mgr PROVE HoldInv'
    BY <1>20 DEF RmReturns
<1>21. ASSUME NEW k \in Cmd, RmReturns(k), mgr' # mgr PROVE HoldInv'
    <2>1. cmd[k].mgr \in Mgr /\ mgr[cmd[k].mgr].state # "unborn"
        BY <1>21 DEF RmReturns
    <2>2. \A m \in Mgr : mgr[m].state # "unborn" =>
             mgr'[m].state # "unborn" /\ mgr'[m].name = mgr[m].name
        BY <1>21, <2>1 DEF RmReturns
    <2> QED BY <1>21, <2>2 DEF RmReturns
<1>22. ASSUME NEW k \in Cmd, NEW m \in Mgr, StatusReads(k, m) PROVE HoldInv'
    BY <1>22 DEF StatusReads
<1>23. ASSUME NEW k \in Cmd, StatusLocks(k) PROVE HoldInv'
    BY <1>23 DEF StatusLocks
<1>24. ASSUME NEW k \in Cmd, StatusReturns(k) PROVE HoldInv'
    BY <1>24 DEF StatusReturns
<1>25. ASSUME NEW k \in Cmd, ListStarts(k) PROVE HoldInv'
    BY <1>25 DEF ListStarts
<1>26. ASSUME NEW k \in Cmd, ListReturns(k) PROVE HoldInv'
    BY <1>26 DEF ListReturns
<1> QED BY <1>1, <1>2, <1>3, <1>4, <1>5, <1>6, <1>7, <1>8, <1>9, <1>10, <1>11,
        <1>12, <1>13,
                <1>14, <1>15, <1>16, <1>17, <1>18, <1>19, <1>20, <1>21, <1>22,
        <1>23, <1>24, <1>25, <1>26
        DEF Next, Main, Environment, CmdStart, CmdProgress, QuietStep

-----------------------------------------------------------------------------
(* Only a manager that is in the map can be picked up by a command.        *)
LEMMA StepOwn ==
    ASSUME TypeOK, HoldInv, OwnInv, [Next]_vars
    PROVE  OwnInv'
<1> USE NameAssumption, NoneAssumption
                DEF TypeOK, HoldInv, OwnInv, Holding, Free, Unborn, Goto,
            Return, NoCall, Call, Made, mainVars, Connecting, Disconnecting
<1>1. ASSUME QuietStep \/ UNCHANGED vars PROVE OwnInv'
    BY <1>1, QuietFacts DEF Quiet, vars, mainVars, registry
<1>2. ASSUME NEW n \in Name, BootStart(n) PROVE OwnInv'
    BY <1>2 DEF BootStart
<1>3. ASSUME NEW m \in Mgr, ClientsQuit(m) PROVE OwnInv'
    BY <1>3 DEF ClientsQuit
<1>4. ASSUME Exit \/ MapFault PROVE OwnInv'
    BY <1>4 DEF Exit, MapFault, Die
<1>5. ASSUME NEW k \in Cmd, NEW n \in Name, ConnectLookup(k, n) PROVE OwnInv'
    BY <1>5 DEF ConnectLookup, Meets
<1>6. ASSUME NEW k \in Cmd, ConnectConfigure(k) PROVE OwnInv'
    BY <1>6 DEF ConnectConfigure
<1>7. ASSUME NEW k \in Cmd, ConnectStarted(k) PROVE OwnInv'
    BY <1>7 DEF ConnectStarted
<1>8. ASSUME NEW k \in Cmd, ConnectFailed(k) PROVE OwnInv'
    BY <1>8 DEF ConnectFailed
<1>9. ASSUME NEW k \in Cmd, ConnectUndo(k) PROVE OwnInv'
    BY <1>9 DEF ConnectUndo
<1>10. ASSUME NEW k \in Cmd, ConnectPublish(k) PROVE OwnInv'
    BY <1>10 DEF ConnectPublish
<1>11. ASSUME NEW k \in Cmd, NEW n \in Name, DisconnectTake(k, n)
      PROVE  OwnInv'
    BY <1>11 DEF DisconnectTake, Meets
<1>12. ASSUME NEW k \in Cmd, StopLocks(k) PROVE OwnInv'
    BY <1>12 DEF StopLocks
<1>13. ASSUME NEW k \in Cmd, StopDone(k) PROVE OwnInv'
    BY <1>13 DEF StopDone
<1>14. ASSUME NEW k \in Cmd, DisconnectForget(k) PROVE OwnInv'
    BY <1>14 DEF DisconnectForget
<1>15. ASSUME NEW k \in Cmd, NEW n \in Name, AddLookup(k, n) PROVE OwnInv'
    BY <1>15 DEF AddLookup, Meets
<1>16. ASSUME NEW k \in Cmd, AddAppend(k) PROVE OwnInv'
    BY <1>16 DEF AddAppend
<1>17. ASSUME NEW k \in Cmd, AddReturns(k) PROVE OwnInv'
    BY <1>17 DEF AddReturns
<1>18. ASSUME NEW k \in Cmd, NEW n \in Name, RmLookup(k, n) PROVE OwnInv'
    BY <1>18 DEF RmLookup
<1>19. ASSUME NEW k \in Cmd, RmLocks(k) PROVE OwnInv'
    BY <1>19 DEF RmLocks
<1>20. ASSUME NEW k \in Cmd, RmReturns(k), UNCHANGED mgr PROVE OwnInv'
    BY <1>20 DEF RmReturns
<1>21. ASSUME NEW k \in Cmd, RmReturns(k), mgr' # mgr PROVE OwnInv'
    BY <1>21 DEF RmReturns
<1>22. ASSUME NEW k \in Cmd, NEW m \in Mgr, StatusReads(k, m) PROVE OwnInv'
    BY <1>22 DEF StatusReads
<1>23. ASSUME NEW k \in Cmd, StatusLocks(k) PROVE OwnInv'
    BY <1>23 DEF StatusLocks
<1>24. ASSUME NEW k \in Cmd, StatusReturns(k) PROVE OwnInv'
    BY <1>24 DEF StatusReturns
<1>25. ASSUME NEW k \in Cmd, ListStarts(k) PROVE OwnInv'
    BY <1>25 DEF ListStarts
<1>26. ASSUME NEW k \in Cmd, ListReturns(k) PROVE OwnInv'
    BY <1>26 DEF ListReturns
<1> QED BY <1>1, <1>2, <1>3, <1>4, <1>5, <1>6, <1>7, <1>8, <1>9, <1>10, <1>11,
        <1>12, <1>13,
                <1>14, <1>15, <1>16, <1>17, <1>18, <1>19, <1>20, <1>21, <1>22,
        <1>23, <1>24, <1>25, <1>26
        DEF Next, Main, Environment, CmdStart, CmdProgress, QuietStep

-----------------------------------------------------------------------------
(* A command that finds another one at work marks the name.                *)
LEMMA StepPair ==
    ASSUME TypeOK, HoldInv, PairInv, [Next]_vars
    PROVE  PairInv'
<1> USE NameAssumption, NoneAssumption
                DEF TypeOK, HoldInv, PairInv, Holding, Changing, Unborn, Goto,
            Return, NoCall, Call, Made, mainVars, Connecting, Disconnecting
<1>1. ASSUME QuietStep \/ UNCHANGED vars PROVE PairInv'
    BY <1>1, QuietFacts DEF Quiet, vars, mainVars, registry
<1>2. ASSUME NEW n \in Name, BootStart(n) PROVE PairInv'
    BY <1>2 DEF BootStart
<1>3. ASSUME NEW m \in Mgr, ClientsQuit(m) PROVE PairInv'
    BY <1>3 DEF ClientsQuit
<1>4. ASSUME Exit \/ MapFault PROVE PairInv'
    BY <1>4 DEF Exit, MapFault, Die
<1>5. ASSUME NEW k \in Cmd, NEW n \in Name, ConnectLookup(k, n) PROVE PairInv'
    BY <1>5 DEF ConnectLookup, Meets
<1>6. ASSUME NEW k \in Cmd, ConnectConfigure(k) PROVE PairInv'
    BY <1>6 DEF ConnectConfigure
<1>7. ASSUME NEW k \in Cmd, ConnectStarted(k) PROVE PairInv'
    BY <1>7 DEF ConnectStarted
<1>8. ASSUME NEW k \in Cmd, ConnectFailed(k) PROVE PairInv'
    BY <1>8 DEF ConnectFailed
<1>9. ASSUME NEW k \in Cmd, ConnectUndo(k) PROVE PairInv'
    BY <1>9 DEF ConnectUndo
<1>10. ASSUME NEW k \in Cmd, ConnectPublish(k) PROVE PairInv'
    BY <1>10 DEF ConnectPublish
<1>11. ASSUME NEW k \in Cmd, NEW n \in Name, DisconnectTake(k, n)
      PROVE  PairInv'
    BY <1>11 DEF DisconnectTake, Meets
<1>12. ASSUME NEW k \in Cmd, StopLocks(k) PROVE PairInv'
    BY <1>12 DEF StopLocks
<1>13. ASSUME NEW k \in Cmd, StopDone(k) PROVE PairInv'
    BY <1>13 DEF StopDone
<1>14. ASSUME NEW k \in Cmd, DisconnectForget(k) PROVE PairInv'
    BY <1>14 DEF DisconnectForget
<1>15. ASSUME NEW k \in Cmd, NEW n \in Name, AddLookup(k, n) PROVE PairInv'
    BY <1>15 DEF AddLookup, Meets
<1>16. ASSUME NEW k \in Cmd, AddAppend(k) PROVE PairInv'
    BY <1>16 DEF AddAppend
<1>17. ASSUME NEW k \in Cmd, AddReturns(k) PROVE PairInv'
    BY <1>17 DEF AddReturns
<1>18. ASSUME NEW k \in Cmd, NEW n \in Name, RmLookup(k, n) PROVE PairInv'
    BY <1>18 DEF RmLookup
<1>19. ASSUME NEW k \in Cmd, RmLocks(k) PROVE PairInv'
    BY <1>19 DEF RmLocks
<1>20. ASSUME NEW k \in Cmd, RmReturns(k), UNCHANGED mgr PROVE PairInv'
    BY <1>20 DEF RmReturns
<1>21. ASSUME NEW k \in Cmd, RmReturns(k), mgr' # mgr PROVE PairInv'
    BY <1>21 DEF RmReturns
<1>22. ASSUME NEW k \in Cmd, NEW m \in Mgr, StatusReads(k, m) PROVE PairInv'
    BY <1>22 DEF StatusReads
<1>23. ASSUME NEW k \in Cmd, StatusLocks(k) PROVE PairInv'
    BY <1>23 DEF StatusLocks
<1>24. ASSUME NEW k \in Cmd, StatusReturns(k) PROVE PairInv'
    BY <1>24 DEF StatusReturns
<1>25. ASSUME NEW k \in Cmd, ListStarts(k) PROVE PairInv'
    BY <1>25 DEF ListStarts
<1>26. ASSUME NEW k \in Cmd, ListReturns(k) PROVE PairInv'
    BY <1>26 DEF ListReturns
<1> QED BY <1>1, <1>2, <1>3, <1>4, <1>5, <1>6, <1>7, <1>8, <1>9, <1>10, <1>11,
        <1>12, <1>13,
                <1>14, <1>15, <1>16, <1>17, <1>18, <1>19, <1>20, <1>21, <1>22,
        <1>23, <1>24, <1>25, <1>26
        DEF Next, Main, Environment, CmdStart, CmdProgress, QuietStep

-----------------------------------------------------------------------------
(* Only the one command that changes the registry under a name does so.    *)
LEMMA StepGap ==
    ASSUME TypeOK, BootInv, HoldInv, PairInv, GapInv, [Next]_vars
    PROVE  GapInv'
<1> USE NameAssumption, NoneAssumption
                DEF TypeOK, BootInv, HoldInv, PairInv, GapInv, Holding,
            Changing, Unborn, Goto, Return, NoCall, Call, Made, mainVars,
            Connecting, Disconnecting
<1>1. ASSUME QuietStep \/ UNCHANGED vars PROVE GapInv'
    BY <1>1, QuietFacts DEF Quiet, vars, mainVars, registry
<1>2. ASSUME NEW n \in Name, BootStart(n) PROVE GapInv'
    BY <1>2 DEF BootStart
<1>3. ASSUME NEW m \in Mgr, ClientsQuit(m) PROVE GapInv'
    BY <1>3 DEF ClientsQuit
<1>4. ASSUME Exit \/ MapFault PROVE GapInv'
    BY <1>4 DEF Exit, MapFault, Die
<1>5. ASSUME NEW k \in Cmd, NEW n \in Name, ConnectLookup(k, n) PROVE GapInv'
    BY <1>5 DEF ConnectLookup, Meets
<1>6. ASSUME NEW k \in Cmd, ConnectConfigure(k) PROVE GapInv'
    BY <1>6 DEF ConnectConfigure
<1>7. ASSUME NEW k \in Cmd, ConnectStarted(k) PROVE GapInv'
    BY <1>7 DEF ConnectStarted
<1>8. ASSUME NEW k \in Cmd, ConnectFailed(k) PROVE GapInv'
    BY <1>8 DEF ConnectFailed
<1>9. ASSUME NEW k \in Cmd, ConnectUndo(k) PROVE GapInv'
    BY <1>9 DEF ConnectUndo
<1>10. ASSUME NEW k \in Cmd, ConnectPublish(k) PROVE GapInv'
    BY <1>10 DEF ConnectPublish
<1>11. ASSUME NEW k \in Cmd, NEW n \in Name, DisconnectTake(k, n)
      PROVE  GapInv'
    BY <1>11 DEF DisconnectTake, Meets
<1>12. ASSUME NEW k \in Cmd, StopLocks(k) PROVE GapInv'
    BY <1>12 DEF StopLocks
<1>13. ASSUME NEW k \in Cmd, StopDone(k) PROVE GapInv'
    BY <1>13 DEF StopDone
<1>14. ASSUME NEW k \in Cmd, DisconnectForget(k) PROVE GapInv'
    BY <1>14 DEF DisconnectForget
<1>15. ASSUME NEW k \in Cmd, NEW n \in Name, AddLookup(k, n) PROVE GapInv'
    BY <1>15 DEF AddLookup, Meets
<1>16. ASSUME NEW k \in Cmd, AddAppend(k) PROVE GapInv'
    BY <1>16 DEF AddAppend
<1>17. ASSUME NEW k \in Cmd, AddReturns(k) PROVE GapInv'
    BY <1>17 DEF AddReturns
<1>18. ASSUME NEW k \in Cmd, NEW n \in Name, RmLookup(k, n) PROVE GapInv'
    BY <1>18 DEF RmLookup
<1>19. ASSUME NEW k \in Cmd, RmLocks(k) PROVE GapInv'
    BY <1>19 DEF RmLocks
<1>20. ASSUME NEW k \in Cmd, RmReturns(k), UNCHANGED mgr PROVE GapInv'
    BY <1>20 DEF RmReturns
<1>21. ASSUME NEW k \in Cmd, RmReturns(k), mgr' # mgr PROVE GapInv'
    BY <1>21 DEF RmReturns
<1>22. ASSUME NEW k \in Cmd, NEW m \in Mgr, StatusReads(k, m) PROVE GapInv'
    BY <1>22 DEF StatusReads
<1>23. ASSUME NEW k \in Cmd, StatusLocks(k) PROVE GapInv'
    BY <1>23 DEF StatusLocks
<1>24. ASSUME NEW k \in Cmd, StatusReturns(k) PROVE GapInv'
    BY <1>24 DEF StatusReturns
<1>25. ASSUME NEW k \in Cmd, ListStarts(k) PROVE GapInv'
    BY <1>25 DEF ListStarts
<1>26. ASSUME NEW k \in Cmd, ListReturns(k) PROVE GapInv'
    BY <1>26 DEF ListReturns
<1> QED BY <1>1, <1>2, <1>3, <1>4, <1>5, <1>6, <1>7, <1>8, <1>9, <1>10, <1>11,
        <1>12, <1>13,
                <1>14, <1>15, <1>16, <1>17, <1>18, <1>19, <1>20, <1>21, <1>22,
        <1>23, <1>24, <1>25, <1>26
        DEF Next, Main, Environment, CmdStart, CmdProgress, QuietStep

-----------------------------------------------------------------------------
(* The three properties.                                                   *)
LEMMA StepReachable ==
    ASSUME IInv, [Next]_vars
    PROVE  ReachableUnlessRaced'
<1> USE NameAssumption, NoneAssumption
                DEF IInv, TypeOK, BootInv, HoldInv, GapInv, PairInv,
            ReachableUnlessRaced, InHand, Holding, Changing, Free, Unborn,
            Goto, Return, NoCall, Call, Made, mainVars, Connecting,
            Disconnecting
<1>1. ASSUME QuietStep \/ UNCHANGED vars PROVE ReachableUnlessRaced'
    BY <1>1, QuietFacts DEF Quiet, vars, mainVars, registry
<1>2. ASSUME NEW n \in Name, BootStart(n) PROVE ReachableUnlessRaced'
    BY <1>2 DEF BootStart
<1>3. ASSUME NEW m \in Mgr, ClientsQuit(m) PROVE ReachableUnlessRaced'
    BY <1>3 DEF ClientsQuit
<1>4. ASSUME Exit \/ MapFault PROVE ReachableUnlessRaced'
    BY <1>4 DEF Exit, MapFault, Die
<1>5. ASSUME NEW k \in Cmd, NEW n \in Name, ConnectLookup(k, n)
      PROVE  ReachableUnlessRaced'
    BY <1>5 DEF ConnectLookup, Meets
<1>6. ASSUME NEW k \in Cmd, ConnectConfigure(k) PROVE ReachableUnlessRaced'
    <2>1. PICK m \in Free :
            /\ mgr' = [mgr EXCEPT ![m] = Made(cmd[k].name, "starting", FALSE)]
            /\ cmd' = [cmd EXCEPT ![k].op = "start", ![k].mgr = m]
        BY <1>6 DEF ConnectConfigure
    <2>2. mgr'[m].state = "starting"
        BY <2>1
    <2>3. \A x \in Mgr \ {m} : mgr'[x] = mgr[x] /\ (InHand(x) => InHand(x)')
        BY <1>6, <2>1 DEF ConnectConfigure
    <2> QED BY <1>6, <2>2, <2>3 DEF ConnectConfigure
<1>7. ASSUME NEW k \in Cmd, ConnectStarted(k) PROVE ReachableUnlessRaced'
    BY <1>7 DEF ConnectStarted
<1>8. ASSUME NEW k \in Cmd, ConnectFailed(k) PROVE ReachableUnlessRaced'
    BY <1>8 DEF ConnectFailed
<1>9. ASSUME NEW k \in Cmd, ConnectUndo(k) PROVE ReachableUnlessRaced'
    BY <1>9 DEF ConnectUndo
<1>10. ASSUME NEW k \in Cmd, ConnectPublish(k) PROVE ReachableUnlessRaced'
    BY <1>10 DEF ConnectPublish
<1>11. ASSUME NEW k \in Cmd, NEW n \in Name, DisconnectTake(k, n)
      PROVE  ReachableUnlessRaced'
    BY <1>11 DEF DisconnectTake, Meets
<1>12. ASSUME NEW k \in Cmd, StopLocks(k) PROVE ReachableUnlessRaced'
    BY <1>12 DEF StopLocks
<1>13. ASSUME NEW k \in Cmd, StopDone(k) PROVE ReachableUnlessRaced'
    BY <1>13 DEF StopDone
<1>14. ASSUME NEW k \in Cmd, DisconnectForget(k) PROVE ReachableUnlessRaced'
    BY <1>14 DEF DisconnectForget
<1>15. ASSUME NEW k \in Cmd, NEW n \in Name, AddLookup(k, n)
      PROVE  ReachableUnlessRaced'
    BY <1>15 DEF AddLookup, Meets
<1>16. ASSUME NEW k \in Cmd, AddAppend(k) PROVE ReachableUnlessRaced'
    BY <1>16 DEF AddAppend
<1>17. ASSUME NEW k \in Cmd, AddReturns(k) PROVE ReachableUnlessRaced'
    BY <1>17 DEF AddReturns
<1>18. ASSUME NEW k \in Cmd, NEW n \in Name, RmLookup(k, n)
      PROVE  ReachableUnlessRaced'
    BY <1>18 DEF RmLookup
<1>19. ASSUME NEW k \in Cmd, RmLocks(k) PROVE ReachableUnlessRaced'
    BY <1>19 DEF RmLocks
<1>20. ASSUME NEW k \in Cmd, RmReturns(k), UNCHANGED mgr
      PROVE  ReachableUnlessRaced'
    BY <1>20 DEF RmReturns
<1>21. ASSUME NEW k \in Cmd, RmReturns(k), mgr' # mgr
      PROVE  ReachableUnlessRaced'
    BY <1>21 DEF RmReturns
<1>22. ASSUME NEW k \in Cmd, NEW m \in Mgr, StatusReads(k, m)
      PROVE  ReachableUnlessRaced'
    BY <1>22 DEF StatusReads
<1>23. ASSUME NEW k \in Cmd, StatusLocks(k) PROVE ReachableUnlessRaced'
    BY <1>23 DEF StatusLocks
<1>24. ASSUME NEW k \in Cmd, StatusReturns(k) PROVE ReachableUnlessRaced'
    BY <1>24 DEF StatusReturns
<1>25. ASSUME NEW k \in Cmd, ListStarts(k) PROVE ReachableUnlessRaced'
    BY <1>25 DEF ListStarts
<1>26. ASSUME NEW k \in Cmd, ListReturns(k) PROVE ReachableUnlessRaced'
    BY <1>26 DEF ListReturns
<1> QED BY <1>1, <1>2, <1>3, <1>4, <1>5, <1>6, <1>7, <1>8, <1>9, <1>10, <1>11,
        <1>12, <1>13,
                <1>14, <1>15, <1>16, <1>17, <1>18, <1>19, <1>20, <1>21, <1>22,
        <1>23, <1>24, <1>25, <1>26
        DEF Next, Main, Environment, CmdStart, CmdProgress, QuietStep

-----------------------------------------------------------------------------
LEMMA StepConfigured ==
    ASSUME IInv, [Next]_vars
    PROVE  ConfiguredUnlessRaced'
<1> USE NameAssumption, NoneAssumption
                DEF IInv, TypeOK, BootInv, HoldInv, GapInv, PairInv,
            ConfiguredUnlessRaced, Holding, Changing, Goto, Return, NoCall,
            Call, Made, mainVars, Connecting, Disconnecting
<1>1. ASSUME QuietStep \/ UNCHANGED vars PROVE ConfiguredUnlessRaced'
    BY <1>1, QuietFacts DEF Quiet, vars, mainVars, registry
<1>2. ASSUME NEW n \in Name, BootStart(n) PROVE ConfiguredUnlessRaced'
    BY <1>2 DEF BootStart
<1>3. ASSUME NEW m \in Mgr, ClientsQuit(m) PROVE ConfiguredUnlessRaced'
    BY <1>3 DEF ClientsQuit
<1>4. ASSUME Exit \/ MapFault PROVE ConfiguredUnlessRaced'
    BY <1>4 DEF Exit, MapFault, Die
<1>5. ASSUME NEW k \in Cmd, NEW n \in Name, ConnectLookup(k, n)
      PROVE  ConfiguredUnlessRaced'
    BY <1>5 DEF ConnectLookup, Meets
<1>6. ASSUME NEW k \in Cmd, ConnectConfigure(k) PROVE ConfiguredUnlessRaced'
    BY <1>6 DEF ConnectConfigure
<1>7. ASSUME NEW k \in Cmd, ConnectStarted(k) PROVE ConfiguredUnlessRaced'
    BY <1>7 DEF ConnectStarted
<1>8. ASSUME NEW k \in Cmd, ConnectFailed(k) PROVE ConfiguredUnlessRaced'
    BY <1>8 DEF ConnectFailed
<1>9. ASSUME NEW k \in Cmd, ConnectUndo(k) PROVE ConfiguredUnlessRaced'
    BY <1>9 DEF ConnectUndo
<1>10. ASSUME NEW k \in Cmd, ConnectPublish(k) PROVE ConfiguredUnlessRaced'
    BY <1>10 DEF ConnectPublish
<1>11. ASSUME NEW k \in Cmd, NEW n \in Name, DisconnectTake(k, n)
      PROVE  ConfiguredUnlessRaced'
    BY <1>11 DEF DisconnectTake, Meets
<1>12. ASSUME NEW k \in Cmd, StopLocks(k) PROVE ConfiguredUnlessRaced'
    BY <1>12 DEF StopLocks
<1>13. ASSUME NEW k \in Cmd, StopDone(k) PROVE ConfiguredUnlessRaced'
    BY <1>13 DEF StopDone
<1>14. ASSUME NEW k \in Cmd, DisconnectForget(k) PROVE ConfiguredUnlessRaced'
    BY <1>14 DEF DisconnectForget
<1>15. ASSUME NEW k \in Cmd, NEW n \in Name, AddLookup(k, n)
      PROVE  ConfiguredUnlessRaced'
    BY <1>15 DEF AddLookup, Meets
<1>16. ASSUME NEW k \in Cmd, AddAppend(k) PROVE ConfiguredUnlessRaced'
    BY <1>16 DEF AddAppend
<1>17. ASSUME NEW k \in Cmd, AddReturns(k) PROVE ConfiguredUnlessRaced'
    BY <1>17 DEF AddReturns
<1>18. ASSUME NEW k \in Cmd, NEW n \in Name, RmLookup(k, n)
      PROVE  ConfiguredUnlessRaced'
    BY <1>18 DEF RmLookup
<1>19. ASSUME NEW k \in Cmd, RmLocks(k) PROVE ConfiguredUnlessRaced'
    BY <1>19 DEF RmLocks
<1>20. ASSUME NEW k \in Cmd, RmReturns(k), UNCHANGED mgr
      PROVE  ConfiguredUnlessRaced'
    BY <1>20 DEF RmReturns
<1>21. ASSUME NEW k \in Cmd, RmReturns(k), mgr' # mgr
      PROVE  ConfiguredUnlessRaced'
    BY <1>21 DEF RmReturns
<1>22. ASSUME NEW k \in Cmd, NEW m \in Mgr, StatusReads(k, m)
      PROVE  ConfiguredUnlessRaced'
    BY <1>22 DEF StatusReads
<1>23. ASSUME NEW k \in Cmd, StatusLocks(k) PROVE ConfiguredUnlessRaced'
    BY <1>23 DEF StatusLocks
<1>24. ASSUME NEW k \in Cmd, StatusReturns(k) PROVE ConfiguredUnlessRaced'
    BY <1>24 DEF StatusReturns
<1>25. ASSUME NEW k \in Cmd, ListStarts(k) PROVE ConfiguredUnlessRaced'
    BY <1>25 DEF ListStarts
<1>26. ASSUME NEW k \in Cmd, ListReturns(k) PROVE ConfiguredUnlessRaced'
    BY <1>26 DEF ListReturns
<1> QED BY <1>1, <1>2, <1>3, <1>4, <1>5, <1>6, <1>7, <1>8, <1>9, <1>10, <1>11,
        <1>12, <1>13,
                <1>14, <1>15, <1>16, <1>17, <1>18, <1>19, <1>20, <1>21, <1>22,
        <1>23, <1>24, <1>25, <1>26
        DEF Next, Main, Environment, CmdStart, CmdProgress, QuietStep

-----------------------------------------------------------------------------
LEMMA StepStopped ==
    ASSUME IInv, [Next]_vars
    PROVE  StoppedByOne'
<1> USE NameAssumption, NoneAssumption
                DEF IInv, TypeOK, HoldInv, OwnInv, StoppedByOne, Holding,
            Free, Goto, Return, NoCall, Call, Made, mainVars, Connecting,
            Disconnecting
<1>1. ASSUME QuietStep \/ UNCHANGED vars PROVE StoppedByOne'
    BY <1>1, QuietFacts DEF Quiet, vars, mainVars, registry
<1>2. ASSUME NEW n \in Name, BootStart(n) PROVE StoppedByOne'
    BY <1>2 DEF BootStart
<1>3. ASSUME NEW m \in Mgr, ClientsQuit(m) PROVE StoppedByOne'
    BY <1>3 DEF ClientsQuit
<1>4. ASSUME Exit \/ MapFault PROVE StoppedByOne'
    BY <1>4 DEF Exit, MapFault, Die
<1>5. ASSUME NEW k \in Cmd, NEW n \in Name, ConnectLookup(k, n)
      PROVE  StoppedByOne'
    BY <1>5 DEF ConnectLookup, Meets
<1>6. ASSUME NEW k \in Cmd, ConnectConfigure(k) PROVE StoppedByOne'
    BY <1>6 DEF ConnectConfigure
<1>7. ASSUME NEW k \in Cmd, ConnectStarted(k) PROVE StoppedByOne'
    BY <1>7 DEF ConnectStarted
<1>8. ASSUME NEW k \in Cmd, ConnectFailed(k) PROVE StoppedByOne'
    BY <1>8 DEF ConnectFailed
<1>9. ASSUME NEW k \in Cmd, ConnectUndo(k) PROVE StoppedByOne'
    BY <1>9 DEF ConnectUndo
<1>10. ASSUME NEW k \in Cmd, ConnectPublish(k) PROVE StoppedByOne'
    BY <1>10 DEF ConnectPublish
<1>11. ASSUME NEW k \in Cmd, NEW n \in Name, DisconnectTake(k, n)
      PROVE  StoppedByOne'
    BY <1>11 DEF DisconnectTake, Meets
<1>12. ASSUME NEW k \in Cmd, StopLocks(k) PROVE StoppedByOne'
    BY <1>12 DEF StopLocks
<1>13. ASSUME NEW k \in Cmd, StopDone(k) PROVE StoppedByOne'
    BY <1>13 DEF StopDone
<1>14. ASSUME NEW k \in Cmd, DisconnectForget(k) PROVE StoppedByOne'
    BY <1>14 DEF DisconnectForget
<1>15. ASSUME NEW k \in Cmd, NEW n \in Name, AddLookup(k, n)
      PROVE  StoppedByOne'
    BY <1>15 DEF AddLookup, Meets
<1>16. ASSUME NEW k \in Cmd, AddAppend(k) PROVE StoppedByOne'
    BY <1>16 DEF AddAppend
<1>17. ASSUME NEW k \in Cmd, AddReturns(k) PROVE StoppedByOne'
    BY <1>17 DEF AddReturns
<1>18. ASSUME NEW k \in Cmd, NEW n \in Name, RmLookup(k, n)
      PROVE  StoppedByOne'
    BY <1>18 DEF RmLookup
<1>19. ASSUME NEW k \in Cmd, RmLocks(k) PROVE StoppedByOne'
    BY <1>19 DEF RmLocks
<1>20. ASSUME NEW k \in Cmd, RmReturns(k), UNCHANGED mgr PROVE StoppedByOne'
    BY <1>20 DEF RmReturns
<1>21. ASSUME NEW k \in Cmd, RmReturns(k), mgr' # mgr PROVE StoppedByOne'
    BY <1>21 DEF RmReturns
<1>22. ASSUME NEW k \in Cmd, NEW m \in Mgr, StatusReads(k, m)
      PROVE  StoppedByOne'
    BY <1>22 DEF StatusReads
<1>23. ASSUME NEW k \in Cmd, StatusLocks(k) PROVE StoppedByOne'
    BY <1>23 DEF StatusLocks
<1>24. ASSUME NEW k \in Cmd, StatusReturns(k) PROVE StoppedByOne'
    BY <1>24 DEF StatusReturns
<1>25. ASSUME NEW k \in Cmd, ListStarts(k) PROVE StoppedByOne'
    BY <1>25 DEF ListStarts
<1>26. ASSUME NEW k \in Cmd, ListReturns(k) PROVE StoppedByOne'
    BY <1>26 DEF ListReturns
<1> QED BY <1>1, <1>2, <1>3, <1>4, <1>5, <1>6, <1>7, <1>8, <1>9, <1>10, <1>11,
        <1>12, <1>13,
                <1>14, <1>15, <1>16, <1>17, <1>18, <1>19, <1>20, <1>21, <1>22,
        <1>23, <1>24, <1>25, <1>26
        DEF Next, Main, Environment, CmdStart, CmdProgress, QuietStep

-----------------------------------------------------------------------------
(* The inductive invariant, and what follows from it.                      *)
LEMMA InitIInv == Init => IInv
<1> SUFFICES ASSUME Init PROVE IInv
    OBVIOUS
<1> USE NameAssumption, NoneAssumption DEF Init, NoCall, Call, Unborn, Made
<1>1. TypeOK
    BY DEF TypeOK
<1>2. BootInv
    BY DEF BootInv
<1>3. HoldInv /\ OwnInv
    BY DEF HoldInv, OwnInv, Holding
<1>4. PairInv /\ GapInv
    BY DEF PairInv, GapInv, Changing, Connecting, Disconnecting
<1>5. ReachableUnlessRaced /\ ConfiguredUnlessRaced /\ StoppedByOne
    BY DEF ReachableUnlessRaced, ConfiguredUnlessRaced, StoppedByOne
<1> QED BY <1>1, <1>2, <1>3, <1>4, <1>5 DEF IInv

LEMMA StepIInv == IInv /\ [Next]_vars => IInv'
<1> SUFFICES ASSUME IInv, [Next]_vars PROVE IInv'
    OBVIOUS
<1>1. TypeOK /\ BootInv /\ HoldInv /\ OwnInv /\ PairInv /\ GapInv
    BY DEF IInv
<1>2. TypeOK' /\ BootInv' /\ HoldInv' /\ OwnInv' /\ PairInv' /\ GapInv'
    BY <1>1, StepType, StepBoot, StepHold, StepOwn, StepPair, StepGap
<1>3. ReachableUnlessRaced' /\ ConfiguredUnlessRaced' /\ StoppedByOne'
    BY StepReachable, StepConfigured, StepStopped
<1> QED BY <1>2, <1>3 DEF IInv

LEMMA Invariance == Spec => []IInv
<1> QED BY InitIInv, StepIInv, PTL DEF Spec

(* The state keeps its shape (bot.go, Bot).                                *)
THEOREM BotTypeCorrect == Spec => []TypeOK
<1>1. IInv => TypeOK
    BY DEF IInv
<1> QED BY <1>1, Invariance, PTL

(* handleConnect, handleDisconnect, handleAddClients and handleRmClients   *)
(* lose no running manager, whatever their number, as long as none begins  *)
(* on a network that another one is changing.                              *)
THEOREM ManagersAreReachable == Spec => []ReachableUnlessRaced
<1>1. IInv => ReachableUnlessRaced
    BY DEF IInv
<1> QED BY <1>1, Invariance, PTL

(* Under the same condition every entry of b.networks has its              *)
(* configuration in b.cfg.Networks.                                        *)
THEOREM EntriesAreConfigured == Spec => []ConfiguredUnlessRaced
<1>1. IInv => ConfiguredUnlessRaced
    BY DEF IInv
<1> QED BY <1>1, Invariance, PTL

(* However commands overlap, handleDisconnect stops each manager once.     *)
THEOREM ManagersAreStoppedOnce == Spec => []StoppedByOne
<1>1. IInv => StoppedByOne
    BY DEF IInv
<1> QED BY <1>1, Invariance, PTL
=============================================================================
