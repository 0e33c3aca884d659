---------------------------- MODULE ClientProofs -----------------------------
(***************************************************************************)
(* Three facts about a client, for any number of writers and any bounds.   *)
(*                                                                         *)
(* WaitKeepsPace: the writer inside Wait holds the lock, and what it still *)
(* sleeps covers what is missing of the delay.                             *)
(*                                                                         *)
(* FlagFollowsLink: the last handler run to come, unless it is outdated,   *)
(* speaks of the present link; if there is none, the flag does, unless an  *)
(* outdated run set it.                                                    *)
(*                                                                         *)
(* JoinedIsListed: a channel is only joined over a connection that is up,  *)
(* so that a Part that is sent always leaves it, and a Part which still    *)
(* has to change the list finds the channel left, unless a Join came       *)
(* between.                                                                *)
(***************************************************************************)
EXTENDS Client, SequenceTheorems, WellFoundedInduction, TLAPS

allVars == <<vars, linkVars, flagVars, channelVars>>

-----------------------------------------------------------------------------
SleepCovers ==
    \A w \in Writer : pc[w] = "hold" =>
        /\ holder = w
        /\ rest[w] + since >= Delay

IInv == TypeOK /\ SleepCovers

-----------------------------------------------------------------------------
LEMMA InitIInv == Init => IInv
BY DelayAssumption DEF Init, IInv, TypeOK, SleepCovers

LEMMA NextTypeOK == TypeOK /\ [Next]_vars => TypeOK'
<1> SUFFICES ASSUME TypeOK, [Next]_vars PROVE TypeOK'
    OBVIOUS
<1> USE DelayAssumption DEF TypeOK
<1>1. ASSUME NEW w \in Writer, Call(w) PROVE TypeOK'
    BY <1>1 DEF Call
<1>2. ASSUME NEW w \in Writer, Lock(w) PROVE TypeOK'
    BY <1>2 DEF Lock
<1>3. ASSUME NEW w \in Writer, Return(w) PROVE TypeOK'
    BY <1>3 DEF Return
<1>4. ASSUME NEW w \in Writer, Write(w) PROVE TypeOK'
    BY <1>4 DEF Write
<1>5. CASE Tick
    BY <1>5 DEF Tick
<1>6. CASE UNCHANGED vars
    BY <1>6 DEF vars
<1>7. QED BY <1>1, <1>2, <1>3, <1>4, <1>5, <1>6 DEF Next

LEMMA NextSleepCovers == IInv /\ [Next]_vars => SleepCovers'
<1> SUFFICES ASSUME TypeOK, SleepCovers, [Next]_vars,
                    NEW v \in Writer, pc'[v] = "hold"
             PROVE  holder' = v /\ rest'[v] + since' >= Delay
    BY DEF IInv, SleepCovers
<1> USE DelayAssumption, NobodyAssumption DEF TypeOK, SleepCovers
<1>1. ASSUME NEW w \in Writer, Call(w) PROVE holder' = v /\ rest'[v] + since' >= Delay
    BY <1>1 DEF Call
<1>2. ASSUME NEW w \in Writer, Lock(w) PROVE holder' = v /\ rest'[v] + since' >= Delay
    <2>1. v = w                 \* nobody else is inside Wait: the lock was free
        BY <1>2 DEF Lock
    <2>2. QED BY <1>2, <2>1 DEF Lock
<1>3. ASSUME NEW w \in Writer, Return(w) PROVE FALSE
    BY <1>3 DEF Return          \* v held the lock, and so did w
<1>4. ASSUME NEW w \in Writer, Write(w) PROVE holder' = v /\ rest'[v] + since' >= Delay
    BY <1>4 DEF Write
<1>5. CASE Tick
    <2>1. pc[v] = "hold" /\ holder' = v /\ rest[v] + since >= Delay
        BY <1>5 DEF Tick
    <2>2. /\ rest'[v] = IF rest[v] > 0 THEN rest[v] - 1 ELSE 0
          /\ since' = IF since < Delay THEN since + 1 ELSE since
        BY <1>5 DEF Tick
    <2>3. rest[v] \in Nat /\ since \in Nat /\ since <= Delay /\ Delay \in Nat
        OBVIOUS
    <2>4. QED BY <2>1, <2>2, <2>3
<1>6. CASE UNCHANGED vars
    BY <1>6 DEF vars
<1>7. QED BY <1>1, <1>2, <1>3, <1>4, <1>5, <1>6 DEF Next

(* Connections, handlers and channels leave the flood control alone.       *)
LEMMA ClientStepIsControlStep == [ClientNext]_allVars => [Next]_vars
BY DEF ClientNext, allVars

LEMMA ClientPassesControl == ClientSpec => Spec
<1>1. ClientInit => Init
    BY DEF ClientInit
<1>2. QED BY <1>1, ClientStepIsControlStep, PTL DEF ClientSpec, Spec, allVars

(* The state keeps its shape: nobody sleeps longer than the delay, and only *)
(* a writer holds the lock.                                                *)
THEOREM ControlTypeCorrect == ClientSpec => []TypeOK
<1>1. Init => TypeOK
    BY InitIInv DEF IInv
<1>2. QED BY <1>1, NextTypeOK, ClientPassesControl, PTL DEF Spec

(* Two calls of Wait return at least Delay apart, for every writer of a    *)
(* client: a writer leaves Wait only when its sleep is over, and then      *)
(* since has reached Delay.                                                *)
THEOREM WaitsArePaced == ClientSpec => WaitKeepsPace
<1>1. IInv /\ [Next]_vars => IInv'
    BY NextTypeOK, NextSleepCovers DEF IInv
<1>2. ASSUME IInv, [Next]_vars
      PROVE  [\A w \in Writer : pc[w] = "hold" /\ pc'[w] = "write" => since = Delay]_vars
    <2> SUFFICES ASSUME Next,
                        NEW w \in Writer, pc[w] = "hold", pc'[w] = "write"
                 PROVE  since = Delay
        BY <1>2
    <2> USE <1>2 DEF IInv, TypeOK
    <2>1. Return(w)
        BY DEF Next, Call, Lock, Return, Write, Tick
    <2>2. QED BY <2>1, DelayAssumption DEF Return, SleepCovers
<1>3. QED BY InitIInv, ClientPassesControl, <1>1, <1>2, PTL DEF Spec, WaitKeepsPace

-----------------------------------------------------------------------------
Run == [up : BOOLEAN, outdated : BOOLEAN]

NoNews == runs = << >> \/ runs[Len(runs)].outdated

FlagInv ==
    /\ runs \in Seq(Run)
    /\ connected \in BOOLEAN
    /\ late \in BOOLEAN
    /\ NoNews => \A i \in 1 .. Len(runs) : runs[i].outdated
    /\ NoNews /\ ~ late => (connected <=> link = "up")
    /\ ~ NoNews => (runs[Len(runs)].up <=> link = "up")

LEMMA OutdatedRuns ==
    ASSUME NEW rs \in Seq(Run)
    PROVE  /\ Outdated(rs) \in Seq(Run)
           /\ Len(Outdated(rs)) = Len(rs)
           /\ \A i \in 1 .. Len(rs) : Outdated(rs)[i].outdated
<1>1. DOMAIN rs = 1 .. Len(rs) /\ Len(rs) \in Nat /\ \A i \in 1 .. Len(rs) : rs[i] \in Run
    OBVIOUS
<1>2. Outdated(rs) = [i \in 1 .. Len(rs) |-> [rs[i] EXCEPT !.outdated = TRUE]]
    BY <1>1 DEF Outdated
<1>3. \A i \in 1 .. Len(rs) : [rs[i] EXCEPT !.outdated = TRUE] \in Run
    BY <1>1 DEF Run
<1>4. Outdated(rs) \in Seq(Run)
    BY <1>1, <1>2, <1>3, IsASeq
<1>5. QED BY <1>1, <1>2, <1>4, LenProperties DEF Run

(* What is left once the run i took effect: those before it are outdated,  *)
(* those after it are as they were.                                        *)
LEMMA RemainingRuns ==
    ASSUME runs \in Seq(Run), NEW i \in 1 .. Len(runs)
    PROVE  /\ Remaining(i) \in Seq(Run)
           /\ Len(Remaining(i)) = Len(runs) - 1
           /\ \A j \in 1 .. i - 1 : Remaining(i)[j].outdated
           /\ \A j \in i .. Len(runs) - 1 : Remaining(i)[j] = runs[j + 1]
<1> DEFINE before == SubSeq(runs, 1, i - 1)
           after == SubSeq(runs, i + 1, Len(runs))
<1>1. Len(runs) \in Nat /\ i \in Nat /\ 1 <= i /\ i <= Len(runs)
    BY LenProperties
<1>2. before \in Seq(Run) /\ Len(before) = i - 1
    BY <1>1, SubSeqProperties
<1>3. /\ after \in Seq(Run) /\ Len(after) = Len(runs) - i
      /\ \A j \in 1 .. Len(runs) - i : after[j] = runs[i + j]
    BY <1>1, SubSeqProperties
<1> HIDE DEF before, after
<1>4. /\ Outdated(before) \in Seq(Run) /\ Len(Outdated(before)) = i - 1
      /\ \A j \in 1 .. i - 1 : Outdated(before)[j].outdated
    BY <1>2, OutdatedRuns
<1>5. Remaining(i) = Outdated(before) \o after
    BY DEF Remaining, before, after
<1>6. /\ Remaining(i) \in Seq(Run) /\ Len(Remaining(i)) = Len(runs) - 1
      /\ \A j \in 1 .. Len(runs) - 1 :
            Remaining(i)[j] = IF j <= i - 1 THEN Outdated(before)[j] ELSE after[j - (i - 1)]
    <2> DEFINE first == Outdated(before)
    <2>1. first \in Seq(Run) /\ after \in Seq(Run)
        BY <1>3, <1>4
    <2> HIDE DEF first
    <2>2. /\ first \o after \in Seq(Run)
          /\ Len(first \o after) = Len(first) + Len(after)
          /\ \A j \in 1 .. Len(first) + Len(after) :
                (first \o after)[j] = IF j <= Len(first) THEN first[j]
                                      ELSE after[j - Len(first)]
        BY <2>1, ConcatProperties
    <2>3. Len(first) = i - 1 /\ Len(first) + Len(after) = Len(runs) - 1
        BY <1>1, <1>3, <1>4 DEF first
    <2>4. Remaining(i) = first \o after
        BY <1>5 DEF first
    <2>5. /\ Remaining(i) \in Seq(Run) /\ Len(Remaining(i)) = Len(runs) - 1
          /\ \A j \in 1 .. Len(runs) - 1 :
                Remaining(i)[j] = IF j <= i - 1 THEN first[j] ELSE after[j - (i - 1)]
        BY <2>2, <2>3, <2>4
    <2>6. QED BY <2>5 DEF first
<1>7. \A j \in 1 .. i - 1 : Remaining(i)[j].outdated
    BY <1>1, <1>4, <1>6
<1>8. \A j \in i .. Len(runs) - 1 : Remaining(i)[j] = runs[j + 1]
    BY <1>1, <1>3, <1>6
<1>9. QED BY <1>6, <1>7, <1>8

(* An event and a reset keep what FlagInv says; so does a run that takes   *)
(* effect: it sets the flag as the last event says, or outdated.           *)
LEMMA EventKeepsFlag ==
    ASSUME FlagInv, NEW up \in BOOLEAN, runs' = Event(up), up <=> link' = "up",
           UNCHANGED <<connected, late>>
    PROVE  FlagInv'
<1>1. /\ runs' \in Seq(Run)
      /\ runs' # << >> /\ runs'[Len(runs')] = [up |-> up, outdated |-> FALSE]
    BY AppendProperties DEF FlagInv, Event, Run
<1>2. ~ NoNews'
    BY <1>1 DEF NoNews
<1>3. runs'[Len(runs')].up <=> link' = "up"
    BY <1>1
<1>4. QED BY <1>1, <1>2, <1>3 DEF FlagInv

LEMMA LinkEndsKeepsFlag == FlagInv /\ LinkEnds => FlagInv'
<1> SUFFICES ASSUME FlagInv, LinkEnds PROVE FlagInv'
    OBVIOUS
<1>1. CASE runs' = Event(FALSE)
    BY <1>1, EventKeepsFlag DEF LinkEnds
<1>2. CASE link = "dialing" /\ UNCHANGED runs      \* the link was not up before
    BY <1>2 DEF LinkEnds, FlagInv, NoNews
<1>3. QED BY <1>1, <1>2 DEF LinkEnds

LEMMA RunKeepsFlag ==
    ASSUME FlagInv, NEW i \in 1 .. MaxRuns, RunHandler(i)
    PROVE  FlagInv'
<1>1. /\ runs \in Seq(Run) /\ i \in 1 .. Len(runs)
      /\ runs' = Remaining(i) /\ connected' = runs[i].up /\ late' = runs[i].outdated
      /\ link' = link
    BY LenProperties DEF FlagInv, RunHandler, linkVars
<1>2. Len(runs) \in Nat /\ runs[i] \in Run
    BY <1>1, ElementOfSeq, LenProperties
<1>3. /\ runs' \in Seq(Run) /\ Len(runs') = Len(runs) - 1
      /\ \A j \in 1 .. i - 1 : runs'[j].outdated
      /\ \A j \in i .. Len(runs) - 1 : runs'[j] = runs[j + 1]
    BY <1>1, RemainingRuns
<1>4. connected' \in BOOLEAN /\ late' \in BOOLEAN
    BY <1>1, <1>2 DEF Run
<1>5. CASE i = Len(runs)            \* no later event is left
  <2>1. \A j \in 1 .. Len(runs') : runs'[j].outdated
      BY <1>2, <1>3, <1>5
  <2>2. NoNews'
      BY <1>2, <1>3, <1>5, <2>1, EmptySeq DEF NoNews
  <2>3. ~ late' => (connected' <=> link' = "up")
      BY <1>1, <1>5, EmptySeq DEF FlagInv, NoNews
  <2>4. QED BY <1>3, <1>4, <2>1, <2>2, <2>3 DEF FlagInv
<1>6. CASE i < Len(runs)            \* the last event still has to be heard
  <2>1. runs # << >> /\ runs' # << >> /\ runs'[Len(runs')] = runs[Len(runs)]
      BY <1>1, <1>2, <1>3, <1>6, EmptySeq
  <2>2. NoNews' <=> NoNews
      BY <2>1 DEF NoNews
  <2>3. NoNews => late' /\ \A j \in 1 .. Len(runs') : runs'[j].outdated
      BY <1>1, <1>2, <1>3 DEF FlagInv
  <2>4. ~ NoNews => (runs'[Len(runs')].up <=> link' = "up")
      BY <1>1, <2>1 DEF FlagInv
  <2>5. QED BY <1>3, <1>4, <2>2, <2>3, <2>4 DEF FlagInv
<1>7. QED BY <1>1, <1>2, <1>5, <1>6

LEMMA ResetKeepsFlag == FlagInv /\ BackoffOver => FlagInv'
<1> SUFFICES ASSUME FlagInv, BackoffOver PROVE FlagInv'
    OBVIOUS
<1>1. /\ runs \in Seq(Run) /\ runs' = Outdated(runs)
      /\ connected' = FALSE /\ late' = FALSE /\ link' = "dialing"
    BY DEF FlagInv, BackoffOver
<1>2. /\ runs' \in Seq(Run) /\ Len(runs') \in Nat
      /\ \A i \in 1 .. Len(runs') : runs'[i].outdated
    BY <1>1, OutdatedRuns, LenProperties
<1>3. NoNews'
    BY <1>2, EmptySeq DEF NoNews
<1>4. QED BY <1>1, <1>2, <1>3 DEF FlagInv

LEMMA InitFlag == ClientInit => FlagInv
<1> SUFFICES ASSUME ClientInit PROVE FlagInv
    OBVIOUS
<1>1. runs = << >> /\ connected = FALSE /\ late = FALSE /\ link = "dialing"
    BY DEF ClientInit
<1>2. runs \in Seq(Run) /\ Len(runs) = 0 /\ NoNews
    BY <1>1, EmptySeq DEF NoNews
<1>3. \A i \in 1 .. Len(runs) : runs[i].outdated
    BY <1>2
<1>4. QED BY Zenon, <1>1, <1>2, <1>3 DEF FlagInv

LEMMA StepFlag == FlagInv /\ [ClientNext]_allVars => FlagInv'
<1> SUFFICES ASSUME FlagInv, [ClientNext]_allVars PROVE FlagInv'
    OBVIOUS
<1>1. ASSUME UNCHANGED <<link, flagVars>> PROVE FlagInv'
    BY <1>1 DEF FlagInv, NoNews, flagVars
<1>2. CASE Welcome
    BY <1>2, EventKeepsFlag DEF Welcome
<1>3. CASE ConnectReturns
    BY <1>3, LinkEndsKeepsFlag DEF ConnectReturns
<1>4. CASE ContextEnds
    BY <1>1, <1>4, LinkEndsKeepsFlag DEF ContextEnds
<1>5. CASE Cancel \/ JoinSends \/ JoinLists \/ PartSends \/ PartLists
    BY <1>1, <1>5 DEF Cancel, JoinSends, JoinLists, PartSends, PartLists, linkVars
<1>6. CASE \/ Next /\ UNCHANGED <<linkVars, flagVars, channelVars>>
           \/ UNCHANGED allVars
    BY <1>1, <1>6 DEF allVars, linkVars
<1>7. QED BY <1>2, <1>3, <1>4, <1>5, <1>6, RunKeepsFlag, ResetKeepsFlag
             DEF ClientNext, ClientStep

(* Once every handler has run, the flag agrees with the link, however late *)
(* and in whatever order the runs took effect, unless the last of them was *)
(* overtaken by one of a later event (client.go:131-150, 283-304).         *)
THEOREM FlagTellsTheTruth == ClientSpec => []FlagFollowsLink
<1>1. FlagInv => FlagFollowsLink
    BY DEF FlagInv, NoNews, FlagFollowsLink
<1>2. QED BY InitFlag, StepFlag, <1>1, PTL DEF ClientSpec, allVars

-----------------------------------------------------------------------------
ChannelType ==
    /\ calls \in [join : {"none", "list"}, part : {"none", "list"}]
    /\ joined \in BOOLEAN
    /\ listed \in Nat
    /\ crossed \in BOOLEAN

JoinedIsUp == joined => link = "up"

BackoffIsDown == loop = "backoff" => link = "down"

PartHasLeft == calls.part = "list" /\ ~ crossed => ~ joined

ChannelInv == ChannelType /\ JoinedIsUp /\ BackoffIsDown /\ PartHasLeft /\ JoinedIsListed

LEMMA InitChannel == ClientInit => ChannelInv
<1> SUFFICES ASSUME ClientInit PROVE ChannelInv
    OBVIOUS
<1> USE DEF ClientInit
<1>1. ChannelType
    BY DEF ChannelType
<1>2. JoinedIsUp /\ PartHasLeft /\ JoinedIsListed
    BY Zenon DEF JoinedIsUp, PartHasLeft, JoinedIsListed
<1>3. BackoffIsDown
    BY DEF BackoffIsDown
<1>4. QED BY <1>1, <1>2, <1>3 DEF ChannelInv

LEMMA StepChannel == ChannelInv /\ [ClientNext]_allVars => ChannelInv'
<1> SUFFICES ASSUME ChannelInv, [ClientNext]_allVars PROVE ChannelInv'
    OBVIOUS
<1> USE DEF ChannelInv, ChannelType, JoinedIsUp, BackoffIsDown, PartHasLeft, JoinedIsListed
<1>1. CASE Next /\ UNCHANGED <<linkVars, flagVars, channelVars>>
    BY <1>1 DEF linkVars, channelVars
<1>2. ASSUME NEW i \in 1 .. MaxRuns, RunHandler(i) PROVE ChannelInv'
    BY <1>2 DEF RunHandler, linkVars, channelVars
<1>3. CASE Welcome
    BY <1>3 DEF Welcome, channelVars
<1>4. ASSUME LinkEnds PROVE ChannelInv'
    BY <1>4 DEF LinkEnds
<1>5. CASE ConnectReturns
    BY <1>4, <1>5 DEF ConnectReturns
<1>6. CASE BackoffOver          \* the link was down, the channel not joined
    BY <1>6 DEF BackoffOver, channelVars
<1>7. CASE Cancel
    BY <1>7 DEF Cancel, channelVars
<1>8. CASE ContextEnds
    BY <1>4, <1>8 DEF ContextEnds, channelVars
<1>9. CASE JoinSends
    BY <1>9 DEF JoinSends, linkVars
<1>10. CASE JoinLists
    BY <1>10 DEF JoinLists, linkVars
<1>11. CASE PartSends
    BY <1>11 DEF PartSends, linkVars
<1>12. CASE PartLists
    BY <1>12 DEF PartLists, linkVars
<1>13. CASE UNCHANGED allVars
    BY <1>13 DEF allVars, linkVars, channelVars
<1>14. QED BY <1>1, <1>2, <1>3, <1>5, <1>6, <1>7, <1>8, <1>9, <1>10, <1>11, <1>12,
              <1>13 DEF ClientNext, ClientStep

(* A channel the client is in is in its list, through any number of        *)
(* reconnections, joins and parts, unless a Join and a Part overlapped.    *)
THEOREM JoinedChannelsAreListed == ClientSpec => []JoinedIsListed
<1>1. ChannelInv => JoinedIsListed
    BY DEF ChannelInv
<1>2. QED BY InitChannel, StepChannel, <1>1, PTL DEF ClientSpec, allVars

-----------------------------------------------------------------------------
(* Induction over the natural numbers, as the least element of a set: the  *)
(* principle is used with sets of counterexamples.                         *)
Less == {ss \in Nat \X Nat : ss[1] < ss[2]}

LEMMA Least ==
    ASSUME NEW T, T \subseteq Nat, T # {}
    PROVE  \E x \in T : \A y \in T : x <= y
<1>1. IsWellFoundedOn(OpToRel(<, Nat), Nat)
    BY NatLessThanWellFounded, Zenon
<1>2. OpToRel(<, Nat) = Less
    BY Zenon DEF OpToRel, Less
<1>3. IsWellFoundedOn(Less, Nat)
    BY <1>1, <1>2, Zenon
<1>4. PICK x \in T : \A y \in T : <<y, x>> \notin Less
    BY <1>3, WFMin, Zenon
<1>5. ASSUME NEW y \in T PROVE x <= y
    <2>1. x \in Nat /\ y \in Nat
        OBVIOUS
    <2>2. ~ (y < x)
        BY <1>4, <2>1 DEF Less
    <2>3. QED BY <2>1, <2>2
<1>6. QED BY <1>5

-----------------------------------------------------------------------------
(* Power is defined by recursion: the powers up to n exist for every n and *)
(* are the same for all, and together they are the function.               *)
Partial(b, n, g) ==
    /\ g \in [0 .. n -> Nat]
    /\ \A i \in 0 .. n : g[i] = IF i = 0 THEN 1 ELSE b * g[i - 1]

LEMMA PartialExists ==
    ASSUME NEW b \in Nat, NEW n \in Nat
    PROVE  \E g : Partial(b, n, g)
<1> DEFINE T == {i \in Nat : ~ \E g : Partial(b, i, g)}
<1>1. SUFFICES ASSUME T # {} PROVE FALSE
    OBVIOUS
<1>2. PICK m \in T : \A i \in T : m <= i
    <2>1. T \subseteq Nat
        OBVIOUS
    <2> HIDE DEF T
    <2>2. QED BY <1>1, <2>1, Least
<1>3. CASE m = 0
    <2>1. Partial(b, 0, [i \in 0 .. 0 |-> 1])
        BY DEF Partial
    <2>2. QED BY <1>3, <2>1
<1>4. CASE m # 0
    <2>1. m \in Nat /\ m - 1 \in Nat /\ m - 1 \notin T
        BY <1>2, <1>4
    <2>2. PICK g : Partial(b, m - 1, g)
        BY <2>1
    <2> DEFINE last == b * g[m - 1]
               h == [i \in 0 .. m |-> IF i = m THEN last ELSE g[i]]
    <2>3. g[m - 1] \in Nat
        BY <2>1, <2>2 DEF Partial
    <2>4. last \in Nat
        BY <2>3
    <2>5. \A i \in 0 .. m - 1 : g[i] \in Nat /\ g[i] = IF i = 0 THEN 1 ELSE b * g[i - 1]
        BY <2>1, <2>2 DEF Partial
    <2>6. h \in [0 .. m -> Nat]
        BY <2>1, <2>4, <2>5
    <2>7. ASSUME NEW i \in 0 .. m PROVE h[i] = IF i = 0 THEN 1 ELSE b * h[i - 1]
        <3>1. CASE i = m
            <4>1. h[i] = last /\ h[i - 1] = g[m - 1] /\ i # 0
                BY <2>1, <3>1
            <4>2. QED BY <4>1
        <3>2. CASE i # m
            <4>1. i \in 0 .. m - 1
                BY <2>1, <3>2
            <4>2. h[i] = g[i] /\ (i # 0 => h[i - 1] = g[i - 1])
                BY <2>1, <4>1
            <4>3. QED BY <2>5, <4>1, <4>2
        <3>3. QED BY <3>1, <3>2
    <2> HIDE DEF h
    <2>8. Partial(b, m, h)
        BY <2>6, <2>7 DEF Partial
    <2>9. QED BY <2>8
<1>5. QED BY <1>3, <1>4

LEMMA PartialUnique ==
    ASSUME NEW b \in Nat, NEW m \in Nat, NEW n \in Nat, NEW g, NEW h,
           Partial(b, m, g), Partial(b, n, h), NEW k \in Nat, k <= m, k <= n
    PROVE  g[k] = h[k]
<1> DEFINE T == {i \in 0 .. k : g[i] # h[i]}
<1>1. SUFFICES ASSUME T # {} PROVE FALSE
    OBVIOUS
<1>2. PICK i \in T : \A j \in T : i <= j
    <2>1. T \subseteq Nat
        OBVIOUS
    <2> HIDE DEF T
    <2>2. QED BY <1>1, <2>1, Least
<1>3. /\ g[i] = IF i = 0 THEN 1 ELSE b * g[i - 1]
      /\ h[i] = IF i = 0 THEN 1 ELSE b * h[i - 1]
      /\ i # 0 => i - 1 \in 0 .. k
    BY <1>2 DEF Partial
<1>4. i # 0 => g[i - 1] = h[i - 1]
    BY <1>2, <1>3
<1>5. QED BY <1>2, <1>3, <1>4

LEMMA PowerDef ==
    ASSUME NEW b \in Nat
    PROVE  Power(b) = [n \in Nat |-> IF n = 0 THEN 1 ELSE b * Power(b)[n - 1]]
<1> DEFINE part(n) == CHOOSE g : Partial(b, n, g)
           f == [n \in Nat |-> part(n)[n]]
<1>1. ASSUME NEW n \in Nat PROVE Partial(b, n, part(n))
    BY PartialExists
<1> HIDE DEF part
<1>2. ASSUME NEW n \in Nat PROVE f[n] = IF n = 0 THEN 1 ELSE b * f[n - 1]
    <2>1. f[n] = part(n)[n]
        OBVIOUS
    <2>2. part(n)[n] = IF n = 0 THEN 1 ELSE b * part(n)[n - 1]
        BY <1>1 DEF Partial
    <2>3. n # 0 => part(n)[n - 1] = part(n - 1)[n - 1]
        <3> SUFFICES ASSUME n # 0 PROVE part(n)[n - 1] = part(n - 1)[n - 1]
            OBVIOUS
        <3>1. n - 1 \in Nat /\ n - 1 <= n
            OBVIOUS
        <3>2. Partial(b, n, part(n)) /\ Partial(b, n - 1, part(n - 1))
            BY <1>1, <3>1
        <3>3. QED BY <3>1, <3>2, PartialUnique
    <2>4. n # 0 => f[n - 1] = part(n - 1)[n - 1]
        OBVIOUS
    <2>5. QED BY <2>1, <2>2, <2>3, <2>4
<1>3. f = [n \in Nat |-> IF n = 0 THEN 1 ELSE b * f[n - 1]]
    <2>1. f = [n \in Nat |-> f[n]]
        OBVIOUS
    <2> HIDE DEF f
    <2>2. QED BY <1>2, <2>1
<1> HIDE DEF f
<1>4. \E p : p = [n \in Nat |-> IF n = 0 THEN 1 ELSE b * p[n - 1]]
    BY <1>3
<1>5. QED BY <1>4 DEF Power

LEMMA PowerType == ASSUME NEW b \in Nat PROVE Power(b) \in [Nat -> Nat]
<1>1. \A n \in Nat : Power(b)[n] = IF n = 0 THEN 1 ELSE b * Power(b)[n - 1]
    BY PowerDef
<1> DEFINE T == {n \in Nat : Power(b)[n] \notin Nat}
<1>2. T = {}
    <2> SUFFICES ASSUME T # {} PROVE FALSE
        OBVIOUS
    <2>1. T \subseteq Nat
        OBVIOUS
    <2> HIDE DEF T
    <2>2. PICK n \in T : \A i \in T : n <= i
        BY <2>1, Least
    <2> USE DEF T
    <2>3. n \in Nat /\ (n # 0 => n - 1 \in Nat /\ n - 1 \notin T)
        BY <2>2
    <2>4. n # 0 => Power(b)[n - 1] \in Nat
        BY <2>3
    <2> DEFINE q == Power(b)[n - 1]
    <2>5. Power(b)[n] = IF n = 0 THEN 1 ELSE b * q
        BY <1>1, <2>3
    <2> HIDE DEF q
    <2>6. n # 0 => b * q \in Nat
        BY <2>4 DEF q
    <2>7. QED BY <2>2, <2>5, <2>6
<1>3. \A n \in Nat : Power(b)[n] \in Nat
    BY <1>2
<1>4. DOMAIN Power(b) = Nat /\ Power(b) = [n \in Nat |-> Power(b)[n]]
    BY PowerDef
<1>5. QED BY <1>3, <1>4

LEMMA PowersGrow ==
    ASSUME NEW n \in Nat
    PROVE  /\ Power(2)[n] \in Nat \ {0} /\ Power(3)[n] \in Nat
           /\ Power(2)[n] <= Power(3)[n]
<1> DEFINE a(i) == Power(2)[i]
           b(i) == Power(3)[i]
           T == {i \in Nat : ~ (0 < a(i) /\ a(i) <= b(i))}
<1>1. /\ \A i \in Nat : a(i) \in Nat /\ b(i) \in Nat
      /\ \A i \in Nat : /\ a(i) = IF i = 0 THEN 1 ELSE 2 * a(i - 1)
                        /\ b(i) = IF i = 0 THEN 1 ELSE 3 * b(i - 1)
    <2>1. Power(2) \in [Nat -> Nat] /\ Power(3) \in [Nat -> Nat]
        BY PowerType
    <2>2. /\ Power(2) = [i \in Nat |-> IF i = 0 THEN 1 ELSE 2 * Power(2)[i - 1]]
          /\ Power(3) = [i \in Nat |-> IF i = 0 THEN 1 ELSE 3 * Power(3)[i - 1]]
        BY PowerDef
    <2>3. QED BY <2>1, <2>2
<1> HIDE DEF a, b
<1>2. T = {}
    <2> SUFFICES ASSUME T # {} PROVE FALSE
        OBVIOUS
    <2>1. T \subseteq Nat
        OBVIOUS
    <2> HIDE DEF T
    <2>2. PICK i \in T : \A j \in T : i <= j
        BY <2>1, Least
    <2> USE DEF T
    <2>3. i \in Nat /\ (i # 0 => i - 1 \in Nat /\ i - 1 \notin T)
        BY <2>2
    <2>4. i # 0 => 0 < a(i - 1) /\ a(i - 1) <= b(i - 1)
        BY <2>3
    <2>5. QED BY <1>1, <2>2, <2>3, <2>4
<1>3. QED BY <1>1, <1>2 DEF a, b

-----------------------------------------------------------------------------
(* The delay in a backoff is the one computed for the present attempt.     *)
BackoffInv ==
    /\ attempt \in Nat
    /\ loop = "backoff" => attempt # 0 /\ delay \in Backoff(attempt)

LEMMA ProductAtLeastBase ==
    ASSUME NEW k \in Nat \ {0}
    PROVE  Product(k) \in Nat /\ Product(k) >= BaseDelay
<1> DEFINE a == Power(2)[k - 1]
           b == Power(3)[k - 1]
<1>1. BaseDelay \in Nat
    BY BackoffAssumption
<1>2. a \in Nat /\ a # 0 /\ b \in Nat /\ a <= b
    BY PowersGrow
<1>3. Product(k) = (BaseDelay * b) \div a
    BY DEF Product
<1> HIDE DEF a, b
<1>4. BaseDelay * b \in Nat /\ BaseDelay * a \in Nat /\ BaseDelay * a <= BaseDelay * b
    BY <1>1, <1>2
<1> DEFINE q == (BaseDelay * b) \div a
<1>5. q \in Nat /\ BaseDelay * b < a * (q + 1)
    <2> DEFINE c == BaseDelay * b
    <2>1. c \in Nat
        BY <1>4
    <2> HIDE DEF c
    <2>2. c \div a \in Nat /\ c < a * ((c \div a) + 1)
        BY <1>2, <2>1
    <2>3. QED BY <2>2 DEF c
<1> HIDE DEF q
<1>6. ASSUME q < BaseDelay PROVE FALSE
    <2>1. q + 1 <= BaseDelay
        BY <1>1, <1>5, <1>6
    <2>2. a * (q + 1) <= BaseDelay * a
        BY <1>1, <1>2, <1>5, <2>1
    <2>3. a * (q + 1) \in Nat
        BY <1>2, <1>5
    <2>4. QED BY <1>4, <1>5, <2>2, <2>3
<1>7. QED BY <1>1, <1>3, <1>5, <1>6 DEF q

LEMMA InitBackoff == ClientInit => BackoffInv
BY DEF ClientInit, BackoffInv

LEMMA StepBackoff == BackoffInv /\ [ClientNext]_allVars => BackoffInv'
<1> SUFFICES ASSUME BackoffInv, [ClientNext]_allVars PROVE BackoffInv'
    OBVIOUS
<1> USE DEF BackoffInv, Backoff, Product
<1>1. CASE UNCHANGED linkVars
    BY <1>1 DEF linkVars
<1>2. CASE Welcome
    BY <1>2 DEF Welcome
<1>3. CASE ConnectReturns
    BY <1>3 DEF ConnectReturns
<1>4. CASE BackoffOver
    BY <1>4 DEF BackoffOver
<1>5. CASE Cancel
    BY <1>5 DEF Cancel
<1>6. CASE ContextEnds
    BY <1>6 DEF ContextEnds
<1>7. QED BY <1>1, <1>2, <1>3, <1>4, <1>5, <1>6
          DEF ClientNext, ClientStep, RunHandler, JoinSends, JoinLists, PartSends,
              PartLists, allVars

(* The delay between attempts stays between the base delay and its cap,    *)
(* for any delays and retry limit, until the product leaves the range.     *)
THEOREM BackoffStaysInRange == ClientSpec => []BackoffInRange
<1>1. BackoffInv => BackoffInRange
    <2> SUFFICES ASSUME BackoffInv, loop = "backoff"
                 PROVE  /\ delay <= MaxDelay
                        /\ Product(attempt) <= MaxDuration => delay >= BaseDelay
        BY DEF BackoffInRange
    <2>1. /\ delay \in Backoff(attempt)
          /\ Product(attempt) \in Nat /\ Product(attempt) >= BaseDelay
        BY ProductAtLeastBase DEF BackoffInv
    <2>2. /\ BaseDelay \in Nat /\ MaxDelay \in Nat /\ MaxDuration \in Nat
          /\ BaseDelay <= MaxDelay
        BY BackoffAssumption
    <2>3. QED BY <2>1, <2>2 DEF Backoff
<1>2. QED BY InitBackoff, StepBackoff, <1>1, PTL DEF ClientSpec, allVars
=============================================================================
