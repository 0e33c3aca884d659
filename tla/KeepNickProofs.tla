--------------------------- MODULE KeepNickProofs ---------------------------
(***************************************************************************)
(* Proofs about KeepNick, for any number of processes, nicks, replacements *)
(* of the library client and outstanding handler runs.                     *)
(***************************************************************************)
EXTENDS KeepNick, TLAPS

\* A process that was created and has not ended is the one in the map, or
\* was told to stop.
MapInv ==
    \A p \in Proc : (pc[p] = "created" \/ p \in Active) =>
        p \in cancelled \/ p = keepNick \/ p \in early

\* The process of a registered handler will still run its deferred function.
HandlerInv ==
    \A h \in handlers : pc[h[1]] \in {"quit", "both", "attempt", "select", "cleanup"}

\* Handlers run only for processes that were started, and a run that would
\* find the nick acquired belongs to a process whose client had it.
RunInv ==
    \A r \in runs : r.proc # NoProc =>
        /\ r.proc \in Started
        /\ gnick[r.gen] = want[r.proc] => r.proc \in credited

CreditInv == acquired \subseteq credited /\ EndsWithNick

IInv == TypeOK /\ MapInv /\ HandlerInv /\ RunInv /\ CreditInv

-----------------------------------------------------------------------------
(* What the steps of the server do to the rest of the state.               *)

LEMMA DispatchedRuns ==
    ASSUME TypeOK, NEW on \in {"QUIT", "NICK"}, NEW kind \in Kinds,
           NEW from \in Nick, NEW to \in Nick \cup {Elsewhere},
           NEW r \in Dispatch(on, kind, from, to), r \notin runs
    PROVE  /\ r \in Runs
           /\ r.gen = girc
           /\ r.proc # NoProc => \E h \in handlers : h[1] = r.proc
<1>1. PICK p \in {q \in Proc : <<q, kind>> \in handlers} \cup {NoProc} :
          r = [proc |-> p, on |-> on, gen |-> girc, from |-> from, to |-> to]
    BY DEF Dispatch
<1>2. r \in Runs
    BY <1>1 DEF Runs, TypeOK
<1>3. p # NoProc => <<p, kind>> \in handlers /\ <<p, kind>>[1] = p
    BY <1>1
<1>4. QED BY <1>1, <1>2, <1>3

ServerFrame ==
    /\ UNCHANGED <<managerVars, procVars>>
    /\ handlers' \in {handlers, {}}
    /\ nick' = nick
    /\ girc' = girc \/ gnick' = gnick
    /\ \A g \in Gens : g # girc => gnick'[g] = gnick[g]
    /\ \A r \in runs' \ runs :
         /\ r \in Runs
         /\ r.gen = girc /\ girc' = girc
         /\ r.proc # NoProc => \E h \in handlers : h[1] = r.proc

LEMMA ServerFacts ==
    ASSUME TypeOK, Server
    PROVE  ServerFrame
<1>1. ASSUME NEW n \in Nick, Renamed(n) PROVE nick' = nick => ServerFrame
    <2>1. gnick[girc] \in Nick
        BY DEF TypeOK
    <2>2. \A r \in runs' \ runs : /\ r \in Runs
                                  /\ r.gen = girc
                                  /\ r.proc # NoProc => \E h \in handlers : h[1] = r.proc
        BY <1>1, <2>1, DispatchedRuns DEF Renamed, Kinds
    <2>3. QED BY <1>1, <2>2 DEF ServerFrame, Renamed, TypeOK
<1>2. ASSUME Connected PROVE ServerFrame
    <2>1. \A r \in runs' \ runs : r \in Runs /\ r.gen = girc /\ r.proc = NoProc
        BY <1>2, NickAssumption DEF Connected, Runs, TypeOK
    <2>2. QED BY <1>2, <2>1 DEF ServerFrame, Connected, TypeOK
<1>3. ASSUME Disconnected \/ ResetGircClient PROVE ServerFrame
    BY <1>3 DEF ServerFrame, Disconnected, ResetGircClient
<1>4. ASSUME NEW n \in Nick, StrangerTakes(n) PROVE ServerFrame
    BY <1>4 DEF ServerFrame, StrangerTakes
<1>5. ASSUME NEW n \in Nick, Answer(n) \/ OtherRename(n) PROVE ServerFrame
    BY <1>1, <1>5 DEF ServerFrame, Answer, OtherRename, Renamed
<1>6. ASSUME NEW n \in Nick, StrangerLeaves(n) \/ StrangerRenamed(n)
      PROVE  ServerFrame
    <2>1. \A r \in runs' \ runs : /\ r \in Runs
                                  /\ r.gen = girc
                                  /\ r.proc # NoProc => \E h \in handlers : h[1] = r.proc
        BY <1>6, DispatchedRuns DEF StrangerLeaves, StrangerRenamed, Kinds
    <2>2. QED BY <1>6, <2>1 DEF ServerFrame, StrangerLeaves, StrangerRenamed
<1>7. QED BY <1>2, <1>3, <1>4, <1>5, <1>6 DEF Server

LEMMA ServerTypes ==
    ASSUME TypeOK, Server
    PROVE  /\ girc' \in Gens
           /\ gnick' \in [Gens -> Nick]
           /\ online' \in BOOLEAN
           /\ asked' \subseteq Nick
           /\ taken' \subseteq Nick \ {Own}
<1> DEFINE Typed == /\ girc' \in Gens
                    /\ gnick' \in [Gens -> Nick]
                    /\ online' \in BOOLEAN
                    /\ asked' \subseteq Nick
                    /\ taken' \subseteq Nick \ {Own}
<1> USE DEF TypeOK
<1>1. ASSUME Connected \/ Disconnected PROVE Typed
    BY <1>1, NickAssumption DEF Connected, Disconnected
<1>2. ASSUME ResetGircClient PROVE Typed
    BY <1>2, BoundAssumption DEF ResetGircClient, Gens
<1>3. ASSUME NEW n \in Nick, Answer(n) \/ OtherRename(n) PROVE Typed
    BY <1>3 DEF Answer, OtherRename, Renamed
<1>4. ASSUME NEW n \in Nick, StrangerTakes(n) \/ StrangerLeaves(n) \/ StrangerRenamed(n)
      PROVE  Typed
    BY <1>4 DEF StrangerTakes, StrangerLeaves, StrangerRenamed
<1> HIDE DEF Typed
<1>5. Typed
    BY <1>1, <1>2, <1>3, <1>4 DEF Server
<1>6. QED BY <1>5 DEF Typed

-----------------------------------------------------------------------------
(* MapInv: a new map entry stops the old one, and an entry leaves the map  *)
(* only with a stop.                                                       *)
LEMMA StepMap ==
    ASSUME TypeOK, MapInv, Step
    PROVE  MapInv'
<1> USE NoProcAssumption DEF TypeOK, MapInv, Started, Active, Goto,
        managerVars, procVars, clientVars
<1>1. ASSUME NEW p \in Proc, FindClient(p) PROVE MapInv'
    BY <1>1 DEF FindClient
<1>2. ASSUME NEW p \in Proc, Create(p) PROVE MapInv'
    BY <1>2 DEF Create, StopProc
<1>3. ASSUME NEW p \in Proc, Start(p) PROVE MapInv'
    BY <1>3 DEF Start
<1>4. ASSUME NEW p \in Proc, AddQuitHandler(p) PROVE MapInv'
    BY <1>4 DEF AddQuitHandler, Register
<1>5. ASSUME NEW p \in Proc, AddNickHandler(p) PROVE MapInv'
    BY <1>5 DEF AddNickHandler, Register
<1>6. ASSUME NEW p \in Proc, StoreIDs(p) PROVE MapInv'
    BY <1>6 DEF StoreIDs
<1>7. ASSUME NEW p \in Proc, FirstAttempt(p) PROVE MapInv'
    BY <1>7 DEF FirstAttempt, AttemptNick
<1>8. ASSUME NEW p \in Proc, Tick(p) PROVE MapInv'
    BY <1>8 DEF Tick, AttemptNick
<1>9. ASSUME NEW p \in Proc, Done(p) PROVE MapInv'
    BY <1>9 DEF Done
<1>10. ASSUME NEW p \in Proc, CleanUp(p) PROVE MapInv'
    BY <1>10 DEF CleanUp
<1>11. CASE StopKeepNick
    BY <1>11 DEF StopKeepNick, StopProc
<1>12. CASE Remove
    BY <1>12 DEF Remove, StopProc
<1>13. CASE Cancel
    BY <1>13 DEF Cancel
<1>14. ASSUME NEW r \in runs, RunOwn(r) PROVE MapInv'
    BY <1>14 DEF RunOwn
<1>15. ASSUME NEW r \in runs, RunKeepNick(r) PROVE MapInv'
    BY <1>15 DEF RunKeepNick, HolderLeft, Credit
<1>16. CASE Server
    BY <1>16, ServerFacts DEF ServerFrame
<1>17. QED
    BY <1>1, <1>2, <1>3, <1>4, <1>5, <1>6, <1>7, <1>8, <1>9,
       <1>10, <1>11, <1>12, <1>13, <1>14, <1>15, <1>16
       DEF Step, Command, ProcStep

(* HandlerInv: handlers are registered on the way to the goroutine, whose  *)
(* deferred function removes all that the current library client knows.    *)
LEMMA StepHandlers ==
    ASSUME TypeOK, HandlerInv, Step
    PROVE  HandlerInv'
<1> USE DEF TypeOK, HandlerInv, Goto, managerVars, procVars, clientVars
<1>1. ASSUME NEW p \in Proc, FindClient(p) PROVE HandlerInv'
    BY <1>1 DEF FindClient
<1>2. ASSUME NEW p \in Proc, Create(p) PROVE HandlerInv'
    BY <1>2 DEF Create, StopProc
<1>3. ASSUME NEW p \in Proc, Start(p) PROVE HandlerInv'
    BY <1>3 DEF Start
<1>4. ASSUME NEW p \in Proc, AddQuitHandler(p) PROVE HandlerInv'
    BY <1>4 DEF AddQuitHandler, Register
<1>5. ASSUME NEW p \in Proc, AddNickHandler(p) PROVE HandlerInv'
    BY <1>5 DEF AddNickHandler, Register
<1>6. ASSUME NEW p \in Proc, StoreIDs(p) PROVE HandlerInv'
    BY <1>6 DEF StoreIDs
<1>7. ASSUME NEW p \in Proc, FirstAttempt(p) PROVE HandlerInv'
    BY <1>7 DEF FirstAttempt, AttemptNick
<1>8. ASSUME NEW p \in Proc, Tick(p) PROVE HandlerInv'
    BY <1>8 DEF Tick, AttemptNick
<1>9. ASSUME NEW p \in Proc, Done(p) PROVE HandlerInv'
    BY <1>9 DEF Done
<1>10. ASSUME NEW p \in Proc, CleanUp(p) PROVE HandlerInv'
    BY <1>10 DEF CleanUp
<1>11. CASE StopKeepNick
    BY <1>11 DEF StopKeepNick, StopProc
<1>12. CASE Remove
    BY <1>12 DEF Remove, StopProc
<1>13. CASE Cancel
    BY <1>13 DEF Cancel
<1>14. ASSUME NEW r \in runs, RunOwn(r) PROVE HandlerInv'
    BY <1>14 DEF RunOwn
<1>15. ASSUME NEW r \in runs, RunKeepNick(r) PROVE HandlerInv'
    BY <1>15 DEF RunKeepNick, HolderLeft, Credit
<1>16. CASE Server
    BY <1>16, ServerFacts DEF ServerFrame
<1>17. QED
    BY <1>1, <1>2, <1>3, <1>4, <1>5, <1>6, <1>7, <1>8, <1>9,
       <1>10, <1>11, <1>12, <1>13, <1>14, <1>15, <1>16
       DEF Step, Command, ProcStep

Kept(q) == q \in Started' /\ want'[q] = want[q]

(* A started process remains started and keeps its nick.                   *)
LEMMA StepStarted ==
    ASSUME TypeOK, Step, NEW q \in Started
    PROVE  Kept(q)
<1> USE DEF Kept, TypeOK, Started, Goto, managerVars, procVars, clientVars
<1>1. ASSUME NEW p \in Proc, FindClient(p) PROVE Kept(q)
    BY <1>1 DEF FindClient
<1>2. ASSUME NEW p \in Proc, Create(p) PROVE Kept(q)
    BY <1>2 DEF Create, StopProc
<1>3. ASSUME NEW p \in Proc, Start(p) PROVE Kept(q)
    BY <1>3 DEF Start
<1>4. ASSUME NEW p \in Proc, AddQuitHandler(p) PROVE Kept(q)
    BY <1>4 DEF AddQuitHandler, Register
<1>5. ASSUME NEW p \in Proc, AddNickHandler(p) PROVE Kept(q)
    BY <1>5 DEF AddNickHandler, Register
<1>6. ASSUME NEW p \in Proc, StoreIDs(p) PROVE Kept(q)
    BY <1>6 DEF StoreIDs
<1>7. ASSUME NEW p \in Proc, FirstAttempt(p) PROVE Kept(q)
    BY <1>7 DEF FirstAttempt, AttemptNick
<1>8. ASSUME NEW p \in Proc, Tick(p) PROVE Kept(q)
    BY <1>8 DEF Tick, AttemptNick
<1>9. ASSUME NEW p \in Proc, Done(p) PROVE Kept(q)
    BY <1>9 DEF Done
<1>10. ASSUME NEW p \in Proc, CleanUp(p) PROVE Kept(q)
    BY <1>10 DEF CleanUp
<1>11. CASE StopKeepNick
    BY <1>11 DEF StopKeepNick, StopProc
<1>12. CASE Remove
    BY <1>12 DEF Remove, StopProc
<1>13. CASE Cancel
    BY <1>13 DEF Cancel
<1>14. ASSUME NEW r \in runs, RunOwn(r) PROVE Kept(q)
    BY <1>14 DEF RunOwn
<1>15. ASSUME NEW r \in runs, RunKeepNick(r) PROVE Kept(q)
    BY <1>15 DEF RunKeepNick, HolderLeft, Credit
<1>16. CASE Server
    BY <1>16, ServerFacts DEF ServerFrame
<1>17. QED
    BY <1>1, <1>2, <1>3, <1>4, <1>5, <1>6, <1>7, <1>8, <1>9,
       <1>10, <1>11, <1>12, <1>13, <1>14, <1>15, <1>16
       DEF Step, Command, ProcStep

(* Only the server changes nicks of the client and lets handlers run.      *)
LEMMA OtherSteps ==
    ASSUME Step, ~ Server
    PROVE  runs' \subseteq runs /\ UNCHANGED <<girc, gnick>>
<1> DEFINE Quiet == runs' \subseteq runs /\ UNCHANGED <<girc, gnick>>
<1> USE DEF clientVars
<1>1. ASSUME Command PROVE Quiet
    BY <1>1 DEF Command, FindClient, Create, StopKeepNick, Remove, Cancel
<1>2. ASSUME NEW p \in Proc, ProcStep(p) PROVE Quiet
    BY <1>2 DEF ProcStep, Start, AddQuitHandler, AddNickHandler, Register,
                StoreIDs, FirstAttempt, Tick, Done, CleanUp
<1>3. ASSUME NEW r \in runs, RunOwn(r) \/ RunKeepNick(r) PROVE Quiet
    BY <1>3 DEF RunOwn, RunKeepNick
<1> HIDE DEF Quiet
<1>4. Quiet
    BY <1>1, <1>2, <1>3 DEF Step
<1>5. QED BY <1>4 DEF Quiet

(* RunInv: nick of the current library client counts as credit at once,    *)
(* and those of replaced ones do not change any more.                      *)
LEMMA NextRuns ==
    ASSUME IInv, Next
    PROVE  RunInv'
<1> SUFFICES ASSUME NEW r \in runs', r.proc # NoProc
             PROVE  /\ r.proc \in Started'
                    /\ gnick'[r.gen] = want'[r.proc] => r.proc \in credited'
    BY DEF RunInv
<1>1. TypeOK /\ HandlerInv /\ RunInv /\ Step /\ Credits
    BY DEF IInv, Next
<1>2. \A q \in Started : q \in Started' /\ want'[q] = want[q]
    BY <1>1, StepStarted DEF Kept
<1>3. r.proc \in Started' /\ r.gen = girc' /\ gnick'[r.gen] = want'[r.proc]
          => r.proc \in credited'
    BY <1>1 DEF Credits
<1>4. CASE r \in runs
    <2>1. r.gen \in Gens /\ girc \in Gens
        BY <1>1, <1>4 DEF TypeOK, Runs
    <2>2. r.gen = girc' \/ gnick'[r.gen] = gnick[r.gen]
        BY <1>1, <2>1, ServerFacts, OtherSteps DEF ServerFrame
    <2>3. QED BY <1>1, <1>2, <1>3, <1>4, <2>2 DEF RunInv, Credits
<1>5. CASE r \notin runs
    <2>1. Server /\ ServerFrame
        BY <1>1, <1>5, ServerFacts, OtherSteps
    <2>2. r.gen = girc'
        BY <1>5, <2>1 DEF ServerFrame
    <2>3. PICK h \in handlers : h[1] = r.proc
        BY <1>5, <2>1 DEF ServerFrame
    <2>4. r.proc \in Started
        BY <1>1, <2>3 DEF HandlerInv, Started, TypeOK, Kinds
    <2>5. QED BY <1>2, <1>3, <2>2, <2>4
<1>6. QED BY <1>4, <1>5

(* CreditInv: when a process takes its nick for acquired, the client has   *)
(* it now, or its credit is in the handler run.                            *)
LEMMA NextCredit ==
    ASSUME IInv, Step, Credits
    PROVE  CreditInv'
<1> USE DEF IInv, TypeOK, RunInv, CreditInv, EndsWithNick, Credits, Started,
        Goto, managerVars, procVars, clientVars
<1>1. ASSUME NEW p \in Proc, FindClient(p) PROVE CreditInv'
    BY <1>1 DEF FindClient
<1>2. ASSUME NEW p \in Proc, Create(p) PROVE CreditInv'
    BY <1>2 DEF Create, StopProc
<1>3. ASSUME NEW p \in Proc, Start(p) PROVE CreditInv'
    BY <1>3 DEF Start
<1>4. ASSUME NEW p \in Proc, AddQuitHandler(p) PROVE CreditInv'
    BY <1>4 DEF AddQuitHandler, Register
<1>5. ASSUME NEW p \in Proc, AddNickHandler(p) PROVE CreditInv'
    BY <1>5 DEF AddNickHandler, Register
<1>6. ASSUME NEW p \in Proc, StoreIDs(p) PROVE CreditInv'
    BY <1>6 DEF StoreIDs
<1>7. ASSUME NEW p \in Proc, FirstAttempt(p) PROVE CreditInv'
    BY <1>7 DEF FirstAttempt, AttemptNick
<1>8. ASSUME NEW p \in Proc, Tick(p) PROVE CreditInv'
    BY <1>8 DEF Tick, AttemptNick
<1>9. ASSUME NEW p \in Proc, Done(p) PROVE CreditInv'
    BY <1>9 DEF Done
<1>10. ASSUME NEW p \in Proc, CleanUp(p) PROVE CreditInv'
    BY <1>10 DEF CleanUp
<1>11. CASE StopKeepNick
    BY <1>11 DEF StopKeepNick, StopProc
<1>12. CASE Remove
    BY <1>12 DEF Remove, StopProc
<1>13. CASE Cancel
    BY <1>13 DEF Cancel
<1>14. ASSUME NEW r \in runs, RunOwn(r) PROVE CreditInv'
    BY <1>14 DEF RunOwn
<1>15. ASSUME NEW r \in runs, RunKeepNick(r) PROVE CreditInv'
    BY <1>15 DEF RunKeepNick, HolderLeft, Credit
<1>16. CASE Server
    BY <1>16, ServerFacts DEF ServerFrame
<1>17. QED
    BY <1>1, <1>2, <1>3, <1>4, <1>5, <1>6, <1>7, <1>8, <1>9,
       <1>10, <1>11, <1>12, <1>13, <1>14, <1>15, <1>16
       DEF Step, Command, ProcStep

(* TypeOK.                                                                 *)
LEMMA NextType ==
    ASSUME TypeOK, RunInv, Step, Credits
    PROVE  TypeOK'
<1> USE NoProcAssumption, NickAssumption DEF TypeOK, RunInv, Credits, Started,
        Kinds, Goto, managerVars, procVars, clientVars
<1>1. ASSUME NEW p \in Proc, FindClient(p) PROVE TypeOK'
    BY <1>1 DEF FindClient
<1>2. ASSUME NEW p \in Proc, Create(p) PROVE TypeOK'
    BY <1>2 DEF Create, StopProc
<1>3. ASSUME NEW p \in Proc, Start(p) PROVE TypeOK'
    BY <1>3 DEF Start
<1>4. ASSUME NEW p \in Proc, AddQuitHandler(p) PROVE TypeOK'
    BY <1>4 DEF AddQuitHandler, Register
<1>5. ASSUME NEW p \in Proc, AddNickHandler(p) PROVE TypeOK'
    BY <1>5 DEF AddNickHandler, Register
<1>6. ASSUME NEW p \in Proc, StoreIDs(p) PROVE TypeOK'
    BY <1>6 DEF StoreIDs
<1>7. ASSUME NEW p \in Proc, FirstAttempt(p) PROVE TypeOK'
    BY <1>7 DEF FirstAttempt, AttemptNick
<1>8. ASSUME NEW p \in Proc, Tick(p) PROVE TypeOK'
    BY <1>8 DEF Tick, AttemptNick
<1>9. ASSUME NEW p \in Proc, Done(p) PROVE TypeOK'
    BY <1>9 DEF Done
<1>10. ASSUME NEW p \in Proc, CleanUp(p) PROVE TypeOK'
    BY <1>10 DEF CleanUp
<1>11. CASE StopKeepNick
    BY <1>11 DEF StopKeepNick, StopProc
<1>12. CASE Remove
    BY <1>12 DEF Remove, StopProc
<1>13. CASE Cancel
    BY <1>13 DEF Cancel
<1>14. ASSUME NEW r \in runs, RunOwn(r) PROVE TypeOK'
    <2>1. gnick[r.gen] \in Nick
        BY DEF Runs
    <2>2. QED BY <1>14, <2>1 DEF RunOwn
<1>15. ASSUME NEW r \in runs, RunKeepNick(r) PROVE TypeOK'
    BY <1>15 DEF RunKeepNick, HolderLeft, Credit
<1>16. CASE Server
    BY <1>16, ServerFacts, ServerTypes DEF ServerFrame
<1>17. QED
    BY <1>1, <1>2, <1>3, <1>4, <1>5, <1>6, <1>7, <1>8, <1>9,
       <1>10, <1>11, <1>12, <1>13, <1>14, <1>15, <1>16
       DEF Step, Command, ProcStep


-----------------------------------------------------------------------------
LEMMA InitIInv == Init => IInv
<1> SUFFICES ASSUME Init PROVE IInv
    OBVIOUS
<1>1. Started = {} /\ Active = {} /\ 0 \in Gens /\ {} # Kinds
    BY BoundAssumption DEF Init, Started, Active, Gens, Kinds
<1>2. TypeOK
    BY <1>1, NickAssumption DEF Init, TypeOK
<1>3. MapInv /\ HandlerInv /\ RunInv /\ CreditInv
    BY <1>1 DEF Init, MapInv, HandlerInv, RunInv, CreditInv, EndsWithNick
<1>4. QED BY <1>2, <1>3 DEF IInv

LEMMA NextIInv == IInv /\ [Next]_vars => IInv'
<1> SUFFICES ASSUME IInv, [Next]_vars PROVE IInv'
    OBVIOUS
<1>1. CASE Next
    <2>1. MapInv' /\ HandlerInv'
        BY <1>1, StepMap, StepHandlers DEF Next, IInv
    <2>2. CreditInv' /\ TypeOK'
        BY <1>1, NextCredit, NextType DEF Next, IInv
    <2>3. QED BY <1>1, <2>1, <2>2, NextRuns DEF IInv
<1>2. CASE UNCHANGED vars
    BY <1>2 DEF vars, managerVars, procVars, clientVars, IInv, TypeOK, MapInv,
                HandlerInv, RunInv, CreditInv, EndsWithNick, Started, Active
<1>3. QED BY <1>1, <1>2

LEMMA Invariance == Spec => []IInv
BY InitIInv, NextIInv, PTL DEF Spec

(* The state keeps its shape; a process has its IDs stored exactly while   *)
(* its goroutine runs.                                                     *)
THEOREM KeepNickTypeCorrect == Spec => []TypeOK
<1>1. IInv => TypeOK
    BY DEF IInv
<1>2. QED BY <1>1, Invariance, PTL

(* However many commands start and stop keepnick for the client, only the  *)
(* process in nm.keepNicks runs on, apart from those that were stopped     *)
(* before their call of Start.                                             *)
THEOREM AtMostOneProcess == Spec => []OneProcess
<1>1. IInv => OneProcess
    BY DEF IInv, MapInv, OneProcess, Active, Started
<1>2. QED BY <1>1, Invariance, PTL

(* However often the library client is replaced, no handler of a process   *)
(* is left behind when its deferred function has run.                      *)
THEOREM HandlersAreCleanedUp == Spec => []NoStrayHandlers
<1>1. IInv => NoStrayHandlers
    BY DEF IInv, HandlerInv, NoStrayHandlers, Active, Started, TypeOK, Kinds
<1>2. QED BY <1>1, Invariance, PTL

(* However late handlers run and whichever library client they ask, a      *)
(* process ends of itself only if its nick was the client's since Start.   *)
THEOREM EndsAreEarned == Spec => []EndsWithNick
<1>1. IInv => EndsWithNick
    BY DEF IInv, CreditInv
<1>2. QED BY <1>1, Invariance, PTL
=============================================================================
