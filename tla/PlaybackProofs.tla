--------------------------- MODULE PlaybackProofs ----------------------------
(***************************************************************************)
(* The flood guard keeps its hard limit, for any number of senders, any    *)
(* burst size and any refill rate.  The limit is not inductive: what a     *)
(* window may still let through depends on what the bucket holds and on    *)
(* the lag.  Credit measures both in ticks.                                *)
(*                                                                         *)
(* Playbacks are senders of the guard, so that the limit holds for their   *)
(* lines, and each of them keeps its own pace, for any delays, any lists   *)
(* of clients and any number of lines.                                     *)
(***************************************************************************)
EXTENDS Playback, TLAPS

Cap == MaxTokens * RefillRate + RefillRate - 1

Credit == Lower(Cap, tokens * RefillRate + lag)

Balance == passed * RefillRate + Credit <= Cap + age

-----------------------------------------------------------------------------
(* What a refill leaves in the bucket: no more tokens than it may hold, no *)
(* lag that could still earn one, and no more credit than before.          *)
LEMMA Division ==
    ASSUME NEW a \in Nat, NEW b \in Nat \ {0}
    PROVE  /\ a \div b \in Nat
           /\ (a \div b) * b <= a
           /\ a < b * ((a \div b) + 1)
PROOF OBVIOUS

LEMMA ProductIsNat ==
    ASSUME NEW a \in Nat, NEW b \in Nat
    PROVE  a * b \in Nat
PROOF OBVIOUS

LEMMA LowerGrows ==
    ASSUME NEW c \in Nat, NEW x \in Nat, NEW y \in Nat, y <= x + 1
    PROVE  /\ Lower(c, x) \in Nat /\ Lower(c, y) \in Nat
           /\ Lower(c, y) <= Lower(c, x) + 1
BY DEF Lower

LEMMA Products ==
    ASSUME TypeOK
    PROVE  /\ MaxTokens \in Nat /\ RefillRate \in Nat /\ RefillRate > 0
           /\ MaxLag \in Nat
           /\ tokens * RefillRate \in Nat
           /\ tokens * RefillRate <= MaxTokens * RefillRate
           /\ passed * RefillRate \in Nat
           /\ (passed + 1) * RefillRate = passed * RefillRate + RefillRate
<1>1. /\ MaxTokens \in Nat /\ RefillRate \in Nat /\ RefillRate > 0
      /\ tokens \in Nat /\ tokens <= MaxTokens /\ passed \in Nat
    BY GuardAssumption DEF TypeOK
<1>2. QED BY <1>1 DEF MaxLag

LEMMA RefillFacts ==
    ASSUME TypeOK
    PROVE  /\ TokensNow \in 0 .. MaxTokens
           /\ LagNow \in 0 .. MaxLag
           /\ LagNow < RefillRate
           /\ TokensNow * RefillRate + LagNow <= tokens * RefillRate + lag
<1> USE GuardAssumption
<1>1. /\ tokens \in Nat /\ tokens <= MaxTokens /\ lag \in Nat /\ lag <= MaxLag
      /\ MaxLag \in Nat
    BY Products DEF TypeOK
<1>2. Earned \in Nat /\ Earned * RefillRate <= lag /\ lag < RefillRate * (Earned + 1)
    BY <1>1, Division DEF Earned
<1>3. CASE Earned = 0
    BY <1>1, <1>2, <1>3 DEF TokensNow, LagNow
<1>4. CASE Earned > 0
    <2>1. TokensNow \in Nat /\ TokensNow <= MaxTokens /\ TokensNow <= tokens + Earned
        BY <1>1, <1>2, <1>4 DEF TokensNow, Lower
    <2>2. TokensNow * RefillRate <= (tokens + Earned) * RefillRate
        BY <1>1, <1>2, <2>1
    <2>3. (tokens + Earned) * RefillRate = tokens * RefillRate + Earned * RefillRate
        BY <1>1, <1>2
    <2>4. LagNow = 0
        BY <1>4 DEF LagNow
    <2>5. /\ TokensNow * RefillRate \in Nat
          /\ tokens * RefillRate \in Nat
          /\ Earned * RefillRate \in Nat
        BY <1>1, <1>2, <2>1
    <2> HIDE GuardAssumption
    <2>6. TokensNow * RefillRate + LagNow <= tokens * RefillRate + lag
        BY <1>1, <1>2, <2>2, <2>3, <2>4, <2>5
    <2>7. QED BY <1>1, <2>1, <2>4, <2>6, Products
<1>5. QED BY <1>2, <1>3, <1>4

-----------------------------------------------------------------------------
LEMMA InitTypeOK == Init => TypeOK
BY GuardAssumption DEF Init, TypeOK, MaxLag

LEMMA NextTypeOK == TypeOK /\ [Next]_guardVars => TypeOK'
<1> SUFFICES ASSUME TypeOK, [Next]_guardVars PROVE TypeOK'
    OBVIOUS
<1> USE DEF TypeOK
<1>0. MaxLag \in Nat /\ RefillRate \in Nat /\ MaxWindow \in Nat /\ MaxTokens \in Nat
    BY Products, GuardAssumption
<1>1. ASSUME NEW s \in Sender, Enter(s) PROVE TypeOK'
    BY <1>1 DEF Enter, bucket
<1>2. ASSUME NEW s \in Sender, Pass(s) PROVE TypeOK'
    <2>1. TokensNow - 1 \in 0 .. MaxTokens
        BY <1>0, <1>2, RefillFacts DEF Pass
    <2>2. QED BY <1>0, <1>2, <2>1, RefillFacts DEF Pass
<1>3. ASSUME NEW s \in Sender, Block(s) PROVE TypeOK'
    BY <1>0, <1>3, RefillFacts DEF Block
<1>4. ASSUME NEW s \in Sender, Leave(s) PROVE TypeOK'
    BY <1>4 DEF Leave, bucket
<1>5. CASE TokensAvailable
    BY <1>5, RefillFacts DEF TokensAvailable
<1>6. CASE Tick
    BY <1>0, <1>6 DEF Tick, Lower
<1>7. CASE NewWindow
    BY <1>0, <1>7 DEF NewWindow, bucket
<1>8. CASE UNCHANGED guardVars
    BY <1>8 DEF guardVars
<1>9. QED BY <1>1, <1>2, <1>3, <1>4, <1>5, <1>6, <1>7, <1>8 DEF Next

(* The bucket never holds more than MaxTokens, and the state keeps its     *)
(* shape, whatever the senders do.                                         *)
THEOREM GuardTypeCorrect == Spec => []TypeOK
<1>1. QED BY InitTypeOK, NextTypeOK, PTL DEF Spec

-----------------------------------------------------------------------------
LEMMA InitBalance == Init => Balance
<1> SUFFICES ASSUME Init PROVE Balance
    OBVIOUS
<1>1. TypeOK
    BY InitTypeOK
<1>2. passed * RefillRate = 0 /\ age = 0 /\ lag = 0
    BY GuardAssumption DEF Init
<1>3. QED BY <1>1, <1>2, Products DEF Balance, Credit, Cap, Lower

(* A step that refills only loses credit, a passing call pays for itself,  *)
(* and a tick earns at most the tick by which the window grows.            *)
LEMMA NextBalance == TypeOK /\ Balance /\ [Next]_guardVars => Balance'
<1> SUFFICES ASSUME TypeOK, Balance, [Next]_guardVars PROVE Balance'
    OBVIOUS
<1> DEFINE full == MaxTokens * RefillRate
           held == tokens * RefillRate
           past == passed * RefillRate
           left == TokensNow * RefillRate
<1>0. TypeOK'
    BY NextTypeOK
<1>1. /\ RefillRate \in Nat /\ RefillRate > 0
      /\ full \in Nat /\ held \in Nat /\ held <= full /\ past \in Nat
      /\ lag \in Nat /\ age \in Nat
      /\ Cap = full + RefillRate - 1
    BY Products, GuardAssumption DEF TypeOK, MaxLag, Cap
<1>2. /\ left \in Nat /\ left <= full
      /\ LagNow \in Nat /\ LagNow < RefillRate
      /\ left + LagNow <= held + lag
      /\ TokensNow \in Nat
    BY RefillFacts, GuardAssumption DEF MaxLag
<1>3. past + Lower(Cap, held + lag) <= Cap + age
    BY DEF Balance, Credit
<1>4. ASSUME NEW s \in Sender, Enter(s) \/ Leave(s) PROVE Balance'
    BY <1>4 DEF Enter, Leave, bucket, Balance, Credit, Cap
<1>5. ASSUME NEW s \in Sender, Pass(s) PROVE Balance'
    <2>1. (TokensNow - 1) * RefillRate = left - RefillRate
        BY <1>1, <1>2
    <2>2. tokens' * RefillRate = left - RefillRate
        BY <1>5, <2>1 DEF Pass
    <2>3. passed' * RefillRate = past + RefillRate
        BY <1>5, Products DEF Pass
    <2>4. lag' = LagNow /\ age' = age
        BY <1>5 DEF Pass
    <2>5. Credit' = Lower(Cap, left - RefillRate + LagNow)
        BY <2>2, <2>4 DEF Credit, Cap
    <2> HIDE DEF full, held, past, left
    <2>6. past + RefillRate + Lower(Cap, left - RefillRate + LagNow) <= Cap + age
        BY <1>1, <1>2, <1>3 DEF Lower
    <2>7. Balance' <=> passed' * RefillRate + Credit' <= Cap + age'
        BY DEF Balance, Cap
    <2>8. QED BY <2>3, <2>4, <2>5, <2>6, <2>7
<1>6. ASSUME \/ \E s \in Sender : Block(s)
             \/ TokensAvailable
      PROVE  Balance'
    <2>1. /\ tokens' = TokensNow /\ lag' = LagNow
          /\ passed' = passed /\ age' = age
        BY <1>6 DEF Block, TokensAvailable
    <2>2. Balance' <=> past + Lower(Cap, left + LagNow) <= Cap + age
        BY <2>1 DEF Balance, Credit, Cap
    <2> HIDE DEF full, held, past, left
    <2>3. QED BY <1>1, <1>2, <1>3, <2>2 DEF Lower
<1>7. CASE Tick /\ age < MaxWindow
    <2>0. MaxLag \in Nat
        BY Products
    <2>1. /\ tokens' = tokens /\ passed' = passed /\ age' = age + 1
          /\ lag' = Lower(lag + 1, MaxLag)
        BY <1>7 DEF Tick
    <2>2. Balance' <=> past + Lower(Cap, held + lag') <= Cap + (age + 1)
        BY <2>1 DEF Balance, Credit, Cap
    <2>3. lag' \in Nat /\ lag' <= lag + 1
        BY <1>1, <2>0, <2>1 DEF Lower
    <2>4. Cap \in Nat
        BY <1>1
    <2>5. /\ held + lag \in Nat /\ held + lag' \in Nat
          /\ held + lag' <= (held + lag) + 1
        BY <1>1, <2>3
    <2>6. /\ Lower(Cap, held + lag) \in Nat /\ Lower(Cap, held + lag') \in Nat
          /\ Lower(Cap, held + lag') <= Lower(Cap, held + lag) + 1
        BY <2>4, <2>5, LowerGrows
    <2>7. past + Lower(Cap, held + lag') <= Cap + (age + 1)
        BY <1>1, <1>3, <2>4, <2>6
    <2>8. QED BY <2>2, <2>7
<1>8. CASE (Tick /\ ~ (age < MaxWindow)) \/ NewWindow
    <2>1. passed' = 0 /\ age' = 0
        BY <1>8 DEF Tick, NewWindow
    <2>2. passed' * RefillRate = 0
        BY <1>1, <2>1
    <2>3. tokens' * RefillRate \in Nat /\ lag' \in Nat
        <3>1. MaxTokens \in Nat /\ MaxLag \in Nat
            BY Products
        <3>2. tokens' \in Nat /\ lag' \in Nat
            BY <1>0, <3>1 DEF TypeOK
        <3>3. QED BY <1>1, <3>2, ProductIsNat
    <2>4. Balance' <=> 0 + Lower(Cap, tokens' * RefillRate + lag') <= Cap + 0
        BY <2>1, <2>2 DEF Balance, Credit, Cap
    <2>5. Cap \in Nat
        BY <1>1
    <2>6. QED BY <2>3, <2>4, <2>5 DEF Lower
<1>9. CASE UNCHANGED guardVars
    BY <1>9 DEF guardVars, Balance, Credit, Cap
<1>10. QED BY <1>4, <1>5, <1>6, <1>7, <1>8, <1>9 DEF Next

(* Whatever the interleaving of the senders and wherever a window begins,  *)
(* Acquire lets through at most a full burst plus what the window earned.  *)
THEOREM GuardLimitsRate == Spec => []RateBound
<1>1. TypeOK /\ Balance => RateBound
    <2> SUFFICES ASSUME TypeOK, Balance PROVE RateBound
        OBVIOUS
    <2>1. /\ passed * RefillRate \in Nat /\ tokens * RefillRate + lag \in Nat
          /\ MaxTokens * RefillRate \in Nat /\ RefillRate \in Nat /\ age \in Nat
        BY Products, GuardAssumption DEF TypeOK, MaxLag
    <2>2. (MaxTokens + 1) * RefillRate = MaxTokens * RefillRate + RefillRate
        BY GuardAssumption
    <2>3. passed * RefillRate + Lower(Cap, tokens * RefillRate + lag) <= Cap + age
        BY DEF Balance, Credit
    <2>4. Cap = MaxTokens * RefillRate + RefillRate - 1 /\ Cap >= 0
        BY <2>1, GuardAssumption DEF Cap
    <2>5. passed * RefillRate <= Cap + age
        BY <2>1, <2>3, <2>4 DEF Lower
    <2>6. QED BY <2>1, <2>2, <2>4, <2>5 DEF RateBound
<1>2. QED BY InitTypeOK, NextTypeOK, InitBalance, NextBalance, <1>1, PTL DEF Spec

-----------------------------------------------------------------------------
(* While no call has returned and the bucket is empty, nothing was earned  *)
(* since the window began: the lag is as old as the window.                *)
QuietLag == passed = 0 /\ tokens = 0 => lag >= Lower(age, MaxLag)

LEMMA NextQuietLag ==
    TypeOK /\ QuietLag /\ [Next]_guardVars => QuietLag'
<1> SUFFICES ASSUME TypeOK, QuietLag, [Next]_guardVars PROVE QuietLag'
    OBVIOUS
<1>0. /\ MaxLag \in Nat /\ MaxWindow \in Nat /\ tokens \in Nat /\ lag \in Nat
      /\ age \in Nat /\ passed \in Nat /\ MaxTokens \in Nat \ {0}
    BY Products, GuardAssumption DEF TypeOK
<1>1. MaxLag' = MaxLag
    BY DEF MaxLag
<1>2. ASSUME tokens' = TokensNow, lag' = LagNow, UNCHANGED <<age, passed>>
      PROVE  QuietLag'
    <2>1. CASE Earned > 0
        <3>1. Earned \in Nat
            BY <1>0, GuardAssumption, Division DEF Earned
        <3>2. tokens' > 0
            BY <1>0, <1>2, <2>1, <3>1 DEF TokensNow, Lower
        <3>3. QED BY <3>2 DEF QuietLag
    <2>2. CASE ~(Earned > 0)
        BY <1>1, <1>2, <2>2 DEF TokensNow, LagNow, QuietLag, Lower
    <2>3. QED BY <2>1, <2>2
<1>3. ASSUME NEW s \in Sender, Enter(s) \/ Leave(s) PROVE QuietLag'
    BY <1>1, <1>3 DEF Enter, Leave, bucket, QuietLag, Lower
<1>4. ASSUME NEW s \in Sender, Pass(s) PROVE QuietLag'
    BY <1>0, <1>4 DEF Pass, QuietLag
<1>5. ASSUME NEW s \in Sender, Block(s) PROVE QuietLag'
    BY <1>2, <1>5 DEF Block
<1>6. CASE TokensAvailable
    BY <1>2, <1>6 DEF TokensAvailable
<1>7. CASE Tick
    BY <1>0, <1>1, <1>7 DEF Tick, QuietLag, Lower
<1>8. CASE NewWindow
    BY <1>0, <1>1, <1>8 DEF NewWindow, bucket, QuietLag, Lower
<1>9. CASE UNCHANGED guardVars
    BY <1>1, <1>9 DEF guardVars, QuietLag, Lower
<1>10. QED BY <1>3, <1>4, <1>5, <1>6, <1>7, <1>8, <1>9 DEF Next

(* A call of Acquire is refused only if another one returned less than a   *)
(* refill period ago, for any burst size, any refill rate and any number   *)
(* of senders, however often the bucket is read in between.                *)
THEOREM QuietPeriodsEarn == Spec => []QuietEarnsToken
<1>1. Init => QuietLag
    BY GuardAssumption DEF Init, QuietLag, Lower
<1>2. TypeOK /\ QuietLag => QuietEarnsToken
    <2> SUFFICES ASSUME TypeOK, QuietLag, passed = 0, age >= RefillRate
                 PROVE  TokensNow > 0
        BY DEF QuietEarnsToken
    <2>1. /\ MaxLag \in Nat /\ RefillRate \in Nat \ {0} /\ MaxTokens \in Nat \ {0}
          /\ tokens \in Nat /\ lag \in Nat /\ age \in Nat
        BY Products, GuardAssumption DEF TypeOK
    <2>2. Earned \in Nat /\ lag < RefillRate * (Earned + 1)
        BY <2>1, Division DEF Earned
    <2>3. CASE tokens > 0
        BY <2>1, <2>2, <2>3 DEF TokensNow, Lower
    <2>4. CASE tokens = 0
        <3>1. MaxLag >= RefillRate
            BY <2>1 DEF MaxLag
        <3>2. lag >= RefillRate
            BY <2>1, <2>4, <3>1 DEF QuietLag, Lower
        <3>3. Earned # 0
            BY <2>1, <2>2, <3>2
        <3>4. QED BY <2>1, <2>2, <3>3 DEF TokensNow, Lower
    <2>5. QED BY <2>1, <2>3, <2>4
<1>3. QED BY InitTypeOK, NextTypeOK, NextQuietLag, <1>1, <1>2, PTL DEF Spec

-----------------------------------------------------------------------------
(* Playbacks as senders of the guard.                                      *)
LEMMA PlayStepGuards == [PlayNext]_allVars => [Next]_guardVars
<1> SUFFICES ASSUME [PlayNext]_allVars PROVE [Next]_guardVars
    OBVIOUS
<1>1. ASSUME NEW p \in Sender, PlayStep(p) PROVE [Next]_guardVars
    BY <1>1 DEF PlayStep, NextLine, PauseOver, GapOver, AcquireToken, SendLine,
                PlayReturns, Next
<1>2. ASSUME NEW p \in Sender, NEW list \in Lists, StartPlay(p, list)
      PROVE  [Next]_guardVars
    BY <1>2 DEF StartPlay
<1>3. CASE PlayTick \/ (NewWindow /\ UNCHANGED playVars)
    BY <1>3 DEF PlayTick, Next
<1>4. CASE UNCHANGED allVars
    BY <1>4 DEF allVars
<1>5. QED BY <1>1, <1>2, <1>3, <1>4 DEF PlayNext

(* A playback touches the guard only as a sender may: each of its steps is *)
(* a step of Acquire or leaves the guard alone.                            *)
THEOREM PlaybacksUseTheGuard == PlaySpec => Spec
<1>1. PlayInit => Init
    BY DEF PlayInit
<1>2. QED BY <1>1, PlayStepGuards, PTL DEF PlaySpec, Spec

(* Hence the lines of all playbacks of a network together never exceed the *)
(* hard limit, whatever each of them computes for itself.                  *)
THEOREM PlaybacksKeepRate == PlaySpec => []RateBound
<1>1. QED BY PlaybacksUseTheGuard, GuardLimitsRate, PTL

(* And a line waits for its token only if another line of the network was  *)
(* let through less than a refill period ago.                              *)
THEOREM PlaybacksWaitForOthers == PlaySpec => []QuietEarnsToken
<1>1. QED BY PlaybacksUseTheGuard, QuietPeriodsEarn, PTL

-----------------------------------------------------------------------------
(* The pace of one playback.                                               *)
Stages == {"none", "top", "pause", "gap", "guard", "done"}

PlayTypeOK ==
    /\ play \in [Sender -> [stage : Stages, clients : Lists \cup {<< >>},
                           line : Nat, wait : Nat]]
    /\ ago \in [Sender -> [Client -> (0 .. LongAgo) \cup {Never}]]

(* A playback is inside Acquire exactly while it waits for its token, it   *)
(* has its clients as long as it runs, and no client has sent a line       *)
(* before the first one.                                                   *)
StageInv ==
    \A p \in Sender :
        /\ pc[p] # "idle" <=> play[p].stage = "guard"
        /\ play[p].stage = "none" => play[p] = Idle
        /\ play[p].stage # "none" => play[p].clients \in Lists
        /\ play[p].line = 0 => \A c \in Client : ago[p][c] = Never

(* After w more ticks, the last line of c is at least d ticks old.         *)
Kept(p, c, d, w) == ago[p][c] # Never => ago[p][c] + w >= d

(* What remains of a wait and the time that has passed add up to the delay *)
(* the wait is for; the delay of the client is over before the gap begins. *)
PaceInv ==
    \A p \in Sender :
        /\ play[p].stage \in {"pause", "gap", "guard"}
              => Kept(p, NextClient(p), FloodDelay,
                      IF play[p].stage = "pause" THEN play[p].wait ELSE 0)
        /\ play[p].stage \in {"gap", "guard"}
              => \A c \in Client : Kept(p, c, InterLineDelay(play[p].clients),
                      IF play[p].stage = "gap" THEN play[p].wait ELSE 0)

PlayInv == TypeOK /\ PlayTypeOK /\ StageInv /\ PaceInv

-----------------------------------------------------------------------------
LEMMA Delays ==
    /\ FloodDelay \in Nat /\ MinGap \in Nat /\ LongAgo \in Nat
    /\ FloodDelay <= LongAgo
    /\ Never \notin Nat
BY PlaybackAssumption DEF LongAgo

(* The line goes to a client of the playback, and the delay between two    *)
(* lines is one that times up to LongAgo can keep.                         *)
LEMMA ListFacts ==
    ASSUME NEW list \in Lists, NEW n \in Nat
    PROVE  /\ list[(n % Len(list)) + 1] \in Client
           /\ InterLineDelay(list) \in Nat
           /\ InterLineDelay(list) <= LongAgo
<1>1. list \in Seq(Client) /\ list # << >>
    BY PlaybackAssumption
<1>2. Len(list) \in Nat \ {0}
    BY <1>1
<1>3. (n % Len(list)) + 1 \in 1 .. Len(list)
    BY <1>2
<1>4. list[(n % Len(list)) + 1] \in Client
    BY <1>1, <1>3
<1>5. /\ FloodDelay \div Len(list) \in Nat
      /\ FloodDelay \div Len(list) <= FloodDelay
    BY <1>2, Delays, Division
<1>6. QED BY <1>4, <1>5, PlaybackAssumption DEF InterLineDelay, LongAgo

LEMMA TimePasses ==
    ASSUME NEW t \in (0 .. LongAgo) \cup {Never}, NEW w \in Nat
    PROVE  /\ Older(t) \in (0 .. LongAgo) \cup {Never}
           /\ Older(t) = Never <=> t = Never
           /\ Sooner(w) \in Nat
           /\ \A d \in 0 .. LongAgo :
                 t # Never /\ t + w >= d => Older(t) + Sooner(w) >= d
BY Delays DEF Older, Sooner

(* What a playback waits for, once its time types are known.               *)
LEMMA PlayFacts ==
    ASSUME PlayInv, NEW p \in Sender, play[p].stage # "none"
    PROVE  /\ play[p].clients \in Lists /\ play[p].line \in Nat /\ play[p].wait \in Nat
           /\ NextClient(p) \in Client
           /\ InterLineDelay(play[p].clients) \in 0 .. LongAgo
<1>1. play[p].line \in Nat /\ play[p].wait \in Nat
    BY DEF PlayInv, PlayTypeOK
<1>2. play[p].clients \in Lists
    BY DEF PlayInv, StageInv
<1>3. /\ NextClient(p) \in Client
      /\ InterLineDelay(play[p].clients) \in Nat
      /\ InterLineDelay(play[p].clients) <= LongAgo
    BY <1>1, <1>2, ListFacts DEF NextClient
<1>4. QED BY <1>1, <1>2, <1>3, Delays

LEMMA PlayInitInv == PlayInit => PlayInv
<1> SUFFICES ASSUME PlayInit PROVE PlayInv
    OBVIOUS
<1>1. TypeOK
    BY InitTypeOK DEF PlayInit
<1>2. PlayTypeOK
    BY DEF PlayInit, PlayTypeOK, Idle, Stages
<1>3. StageInv /\ PaceInv
    BY DEF PlayInit, Init, StageInv, PaceInv, Idle
<1>4. QED BY <1>1, <1>2, <1>3 DEF PlayInv

(* A step of one playback leaves the others where they are.                *)
LEMMA OnePlayMoves ==
    ASSUME PlayInv, TypeOK', NEW p \in Sender,
           \A q \in Sender \ {p} : /\ play'[q] = play[q] /\ ago'[q] = ago[q]
                                   /\ pc'[q] = pc[q],
           play' \in [Sender -> [stage : Stages, clients : Lists \cup {<< >>},
                               line : Nat, wait : Nat]],
           ago' \in [Sender -> [Client -> (0 .. LongAgo) \cup {Never}]],
           pc'[p] # "idle" <=> play'[p].stage = "guard",
           play'[p].stage # "none",
           play'[p].clients \in Lists,
           play'[p].line = 0 => \A c \in Client : ago'[p][c] = Never,
           play'[p].stage \in {"pause", "gap", "guard"}
              => Kept(p, NextClient(p), FloodDelay,
                      IF play[p].stage = "pause" THEN play[p].wait ELSE 0)',
           play'[p].stage \in {"gap", "guard"}
              => \A c \in Client : Kept(p, c, InterLineDelay(play[p].clients),
                      IF play[p].stage = "gap" THEN play[p].wait ELSE 0)'
    PROVE  PlayInv'
<1>1. PlayTypeOK'
    BY DEF PlayTypeOK
<1>2. StageInv'
    <2>1. ASSUME NEW q \in Sender \ {p}
          PROVE  /\ pc'[q] # "idle" <=> play'[q].stage = "guard"
                 /\ play'[q].stage = "none" => play'[q] = Idle
                 /\ play'[q].stage # "none" => play'[q].clients \in Lists
                 /\ play'[q].line = 0 => \A c \in Client : ago'[q][c] = Never
        BY <2>1 DEF PlayInv, StageInv
    <2>2. QED BY <2>1 DEF StageInv, Idle
<1>3. PaceInv'
    <2>1. ASSUME NEW q \in Sender \ {p}
          PROVE  /\ NextClient(q)' = NextClient(q)
                 /\ \A c, d, w : Kept(q, c, d, w)' <=> ago[q][c] # Never => ago[q][c] + w >= d
        BY <2>1 DEF NextClient, Kept
    <2>2. QED BY <2>1 DEF PlayInv, PaceInv, Kept
<1>4. QED BY <1>1, <1>2, <1>3 DEF PlayInv

LEMMA PlayNextInv == PlayInv /\ [PlayNext]_allVars => PlayInv'
<1> SUFFICES ASSUME PlayInv, [PlayNext]_allVars PROVE PlayInv'
    OBVIOUS
<1>0. TypeOK' /\ TypeOK /\ PlayTypeOK
    BY PlayStepGuards, NextTypeOK DEF PlayInv
<1>1. pc \in [Sender -> {"idle", "try", "go"}]
    BY <1>0 DEF TypeOK
<1>2. ASSUME NEW p \in Sender, NEW list \in Lists, StartPlay(p, list) PROVE PlayInv'
    <2>1. /\ play[p] = Idle /\ pc[p] = "idle"
          /\ \A c \in Client : ago[p][c] = Never
        BY <1>1, <1>2 DEF StartPlay, PlayInv, StageInv, Idle
    <2>2. /\ play' = [play EXCEPT ![p].stage = "top", ![p].clients = list]
          /\ ago' = ago /\ pc' = pc
        BY <1>2 DEF StartPlay, guardVars
    <2>3. QED BY <1>0, <2>1, <2>2, OnePlayMoves DEF PlayTypeOK, Stages, Idle
<1>3. ASSUME NEW p \in Sender, NextLine(p) PROVE PlayInv'
    <2> DEFINE t == ago[p][NextClient(p)]
               w == IF t = Never \/ t >= FloodDelay THEN 0 ELSE FloodDelay - t
    <2>1. /\ play[p].stage = "top" /\ ago' = ago /\ pc' = pc
          /\ play' = [play EXCEPT ![p].stage = "pause", ![p].wait = w]
        BY <1>3 DEF NextLine, guardVars
    <2>2. /\ pc[p] = "idle" /\ play[p].clients \in Lists
          /\ play[p].line = 0 => \A c \in Client : ago[p][c] = Never
        BY <2>1, <1>1 DEF PlayInv, StageInv
    <2>3. NextClient(p) \in Client
        BY <2>1, PlayFacts
    <2>4. t \in (0 .. LongAgo) \cup {Never}
        BY <1>0, <2>3 DEF PlayTypeOK
    <2>5. w \in Nat /\ (t # Never => t + w >= FloodDelay)
        BY <2>4, Delays
    <2> HIDE DEF w
    <2>6. NextClient(p)' = NextClient(p)
        BY <1>0, <2>1 DEF NextClient, PlayTypeOK
    <2>7. Kept(p, NextClient(p), FloodDelay,
               IF play[p].stage = "pause" THEN play[p].wait ELSE 0)'
        BY <1>0, <2>1, <2>5, <2>6 DEF Kept, PlayTypeOK
    <2>8. QED BY <1>0, <2>1, <2>2, <2>5, <2>7, OnePlayMoves DEF PlayTypeOK, Stages
<1>4. ASSUME NEW p \in Sender, PauseOver(p) PROVE PlayInv'
    <2> DEFINE ild == InterLineDelay(play[p].clients)
               w == IF play[p].line > 0 THEN ild ELSE 0
    <2>1. /\ play[p].stage = "pause" /\ play[p].wait = 0 /\ ago' = ago /\ pc' = pc
          /\ play' = [play EXCEPT ![p].stage = "gap", ![p].wait = w]
        BY <1>4 DEF PauseOver, guardVars
    <2>2. /\ pc[p] = "idle" /\ play[p].clients \in Lists
          /\ play[p].line = 0 => \A c \in Client : ago[p][c] = Never
        BY <2>1, <1>1 DEF PlayInv, StageInv
    <2>3. /\ NextClient(p) \in Client /\ ild \in Nat /\ play[p].line \in Nat
        BY <2>1, PlayFacts, Delays
    <2>4. \A c \in Client : ago[p][c] # Never => ago[p][c] + w >= ild
        BY <1>0, <2>2, <2>3, Delays DEF PlayTypeOK
    <2>5. ago[p][NextClient(p)] # Never => ago[p][NextClient(p)] + 0 >= FloodDelay
        BY <2>1 DEF PlayInv, PaceInv, Kept
    <2>6. w \in Nat
        BY <2>3
    <2> HIDE DEF w
    <2>7. /\ NextClient(p)' = NextClient(p) /\ play'[p].clients = play[p].clients
          /\ play'[p].stage = "gap" /\ play'[p].wait = w
        BY <1>0, <2>1 DEF NextClient, PlayTypeOK
    <2>8. /\ Kept(p, NextClient(p), FloodDelay,
                  IF play[p].stage = "pause" THEN play[p].wait ELSE 0)'
          /\ \A c \in Client : Kept(p, c, InterLineDelay(play[p].clients),
                  IF play[p].stage = "gap" THEN play[p].wait ELSE 0)'
        BY <2>1, <2>4, <2>5, <2>7 DEF Kept, InterLineDelay
    <2>9. QED BY <1>0, <2>1, <2>2, <2>6, <2>8, OnePlayMoves DEF PlayTypeOK, Stages
<1>5. ASSUME NEW p \in Sender, GapOver(p) PROVE PlayInv'
    <2>1. /\ play[p].stage = "gap" /\ play[p].wait = 0 /\ ago' = ago
          /\ pc' = [pc EXCEPT ![p] = "try"]
          /\ play' = [play EXCEPT ![p].stage = "guard"]
        BY <1>5 DEF GapOver, Enter
    <2>2. /\ play[p].clients \in Lists
          /\ play[p].line = 0 => \A c \in Client : ago[p][c] = Never
        BY <2>1 DEF PlayInv, StageInv
    <2>3. /\ NextClient(p)' = NextClient(p) /\ play'[p].clients = play[p].clients
          /\ play'[p].stage = "guard"
        BY <1>0, <2>1 DEF NextClient, PlayTypeOK
    <2>4. /\ Kept(p, NextClient(p), FloodDelay, 0)
          /\ \A c \in Client : Kept(p, c, InterLineDelay(play[p].clients), 0)
        BY <2>1 DEF PlayInv, PaceInv
    <2>5. /\ Kept(p, NextClient(p), FloodDelay,
                  IF play[p].stage = "pause" THEN play[p].wait ELSE 0)'
          /\ \A c \in Client : Kept(p, c, InterLineDelay(play[p].clients),
                  IF play[p].stage = "gap" THEN play[p].wait ELSE 0)'
        BY <2>1, <2>3, <2>4 DEF Kept, InterLineDelay
    <2>6. QED BY <1>0, <1>1, <2>1, <2>2, <2>5, OnePlayMoves DEF PlayTypeOK, Stages
<1>6. ASSUME NEW p \in Sender, AcquireToken(p) PROVE PlayInv'
    <2>1. /\ pc[p] = "try" /\ play' = play /\ ago' = ago
          /\ \A q \in Sender : pc'[q] # "idle" <=> pc[q] # "idle"
        BY <1>1, <1>6 DEF AcquireToken, Pass, Block, playVars
    <2>2. PlayTypeOK' /\ StageInv' /\ PaceInv'
        BY <1>0, <2>1 DEF PlayInv, PlayTypeOK, StageInv, PaceInv, Kept, NextClient,
                         InterLineDelay
    <2>3. QED BY <1>0, <2>2 DEF PlayInv
<1>7. ASSUME NEW p \in Sender, SendLine(p) PROVE PlayInv'
    <2>1. /\ pc[p] = "go" /\ pc' = [pc EXCEPT ![p] = "idle"]
          /\ ago' = [ago EXCEPT ![p][NextClient(p)] = 0]
          /\ play' = [play EXCEPT ![p].stage = "top", ![p].line = @ + 1]
        BY <1>7 DEF SendLine, Leave
    <2>2. play[p].stage = "guard" /\ play[p].clients \in Lists
        BY <2>1 DEF PlayInv, StageInv
    <2>3. play[p].line \in Nat /\ NextClient(p) \in Client /\ LongAgo \in Nat
        BY <2>2, PlayFacts, Delays
    <2>4. ago' \in [Sender -> [Client -> (0 .. LongAgo) \cup {Never}]]
        BY <1>0, <2>1, <2>3 DEF PlayTypeOK
    <2>5. /\ play' \in [Sender -> [stage : Stages, clients : Lists \cup {<< >>},
                                  line : Nat, wait : Nat]]
          /\ play'[p].stage = "top" /\ play'[p].line = play[p].line + 1
          /\ play'[p].clients = play[p].clients
        <3> DEFINE n == play[p].line + 1
        <3>1. n \in Nat
            BY <2>3
        <3>2. play' = [play EXCEPT ![p].stage = "top", ![p].line = n]
            BY <2>1
        <3> HIDE DEF n
        <3>3. /\ play' \in [Sender -> [stage : Stages, clients : Lists \cup {<< >>},
                                      line : Nat, wait : Nat]]
              /\ play'[p].stage = "top" /\ play'[p].line = n
              /\ play'[p].clients = play[p].clients
            BY <1>0, <3>1, <3>2 DEF PlayTypeOK, Stages
        <3>4. QED BY <3>3 DEF n
    <2>6. pc'[p] = "idle" /\ play'[p].line # 0
        BY <1>1, <2>1, <2>3, <2>5
    <2>7. \A q \in Sender \ {p} : /\ play'[q] = play[q] /\ ago'[q] = ago[q]
                                  /\ pc'[q] = pc[q]
        BY <1>0, <1>1, <2>1 DEF PlayTypeOK
    <2>8. QED BY <1>0, <2>2, <2>4, <2>5, <2>6, <2>7, OnePlayMoves
<1>8. ASSUME NEW p \in Sender, PlayReturns(p) PROVE PlayInv'
    <2>1. /\ play[p].stage = "top" /\ play' = [play EXCEPT ![p].stage = "done"]
          /\ ago' = ago /\ pc' = pc
        BY <1>8 DEF PlayReturns, guardVars
    <2>2. /\ pc[p] = "idle" /\ play[p].clients \in Lists
          /\ play[p].line = 0 => \A c \in Client : ago[p][c] = Never
        BY <2>1, <1>1 DEF PlayInv, StageInv
    <2>3. QED BY <1>0, <2>1, <2>2, OnePlayMoves DEF PlayTypeOK, Stages
<1>9. CASE PlayTick
    <2>1. /\ play' = [p \in Sender |-> [play[p] EXCEPT !.wait = Sooner(@)]]
          /\ ago' = [p \in Sender |-> [c \in Client |-> Older(ago[p][c])]]
          /\ pc' = pc
        BY <1>9 DEF PlayTick, Tick
    <2>2. ASSUME NEW p \in Sender
          PROVE  /\ play[p].wait \in Nat /\ Sooner(play[p].wait) \in Nat
                 /\ play'[p] = [play[p] EXCEPT !.wait = Sooner(@)]
                 /\ play'[p].stage = play[p].stage /\ play'[p].line = play[p].line
                 /\ play'[p].clients = play[p].clients
                 /\ play'[p].wait = Sooner(play[p].wait)
                 /\ NextClient(p)' = NextClient(p)
                 /\ Sooner(0) = 0
        BY <1>0, <2>1, TimePasses DEF PlayTypeOK, NextClient, Sooner
    <2>3. ASSUME NEW p \in Sender, NEW c \in Client
          PROVE  /\ ago[p][c] \in (0 .. LongAgo) \cup {Never}
                 /\ ago'[p][c] = Older(ago[p][c])
                 /\ ago'[p][c] \in (0 .. LongAgo) \cup {Never}
                 /\ ago'[p][c] = Never <=> ago[p][c] = Never
        BY <1>0, <2>1, TimePasses DEF PlayTypeOK
    <2>4. ASSUME NEW p \in Sender, NEW c \in Client, NEW d \in 0 .. LongAgo,
                 NEW w \in Nat, Kept(p, c, d, w)
          PROVE  ago'[p][c] # Never => ago'[p][c] + Sooner(w) >= d
        BY <2>3, <2>4, TimePasses DEF Kept
    <2>5. PlayTypeOK'
        BY <1>0, <2>1, <2>2, <2>3 DEF PlayTypeOK
    <2>6. StageInv'
        <3>1. ASSUME NEW p \in Sender
              PROVE  /\ pc'[p] # "idle" <=> play'[p].stage = "guard"
                     /\ play'[p].stage # "none" => play'[p].clients \in Lists
            BY <2>1, <2>2 DEF PlayInv, StageInv
        <3>2. ASSUME NEW p \in Sender, play'[p].stage = "none"
              PROVE  play'[p] = Idle
            <4>1. play[p] = Idle
                BY <2>2, <3>2 DEF PlayInv, StageInv
            <4>2. [Idle EXCEPT !.wait = 0] = Idle
                BY DEF Idle
            <4>3. play'[p] = [Idle EXCEPT !.wait = Sooner(Idle.wait)]
                BY <2>2, <4>1
            <4>4. Sooner(Idle.wait) = 0
                BY <2>2 DEF Idle
            <4>5. QED BY <4>2, <4>3, <4>4
        <3>3. ASSUME NEW p \in Sender, play'[p].line = 0, NEW c \in Client
              PROVE  ago'[p][c] = Never
            BY <2>2, <2>3, <3>3 DEF PlayInv, StageInv
        <3>4. QED BY <3>1, <3>2, <3>3 DEF StageInv
    <2>7. ASSUME NEW p \in Sender, play'[p].stage \in {"pause", "gap", "guard"}
          PROVE  Kept(p, NextClient(p), FloodDelay,
                      IF play[p].stage = "pause" THEN play[p].wait ELSE 0)'
        <3> DEFINE w == IF play[p].stage = "pause" THEN play[p].wait ELSE 0
        <3>1. play[p].stage \in {"pause", "gap", "guard"}
            BY <2>2, <2>7
        <3>2. NextClient(p) \in Client /\ FloodDelay \in 0 .. LongAgo /\ w \in Nat
            BY <2>2, <3>1, PlayFacts, Delays
        <3>3. Kept(p, NextClient(p), FloodDelay, w)
            BY <3>1 DEF PlayInv, PaceInv
        <3>4. w' = Sooner(w)
            BY <2>2
        <3> HIDE DEF w
        <3>5. Kept(p, NextClient(p), FloodDelay, w)'
            BY <2>2, <2>4, <3>2, <3>3, <3>4 DEF Kept
        <3>6. QED BY <3>5 DEF w
    <2>8. ASSUME NEW p \in Sender, play'[p].stage \in {"gap", "guard"},
                 NEW c \in Client
          PROVE  Kept(p, c, InterLineDelay(play[p].clients),
                      IF play[p].stage = "gap" THEN play[p].wait ELSE 0)'
        <3> DEFINE w == IF play[p].stage = "gap" THEN play[p].wait ELSE 0
                   d == InterLineDelay(play[p].clients)
        <3>1. play[p].stage \in {"gap", "guard"}
            BY <2>2, <2>8
        <3>2. d \in 0 .. LongAgo /\ w \in Nat
            BY <2>2, <3>1, PlayFacts
        <3>3. Kept(p, c, d, w)
            BY <3>1 DEF PlayInv, PaceInv
        <3>4. w' = Sooner(w) /\ d' = d
            BY <2>2 DEF InterLineDelay
        <3> HIDE DEF w, d
        <3>5. Kept(p, c, d, w)'
            BY <2>4, <3>2, <3>3, <3>4 DEF Kept
        <3>6. QED BY <3>5 DEF w, d
    <2>9. PaceInv'
        BY <2>7, <2>8 DEF PaceInv
    <2>10. QED BY <1>0, <2>5, <2>6, <2>9 DEF PlayInv
<1>10. CASE (NewWindow /\ UNCHANGED playVars) \/ UNCHANGED allVars
    <2>1. play' = play /\ ago' = ago /\ pc' = pc
        BY <1>10 DEF NewWindow, playVars, allVars, guardVars
    <2>2. PlayTypeOK' /\ StageInv' /\ PaceInv'
        BY <2>1 DEF PlayInv, PlayTypeOK, StageInv, PaceInv, Kept, NextClient,
                    InterLineDelay
    <2>3. QED BY <1>0, <2>2 DEF PlayInv
<1>11. QED BY <1>2, <1>3, <1>4, <1>5, <1>6, <1>7, <1>8, <1>9, <1>10
           DEF PlayNext, PlayStep

(* Only SendLine moves a playback on, and it finds every delay kept.       *)
LEMMA SendsInPace ==
    ASSUME PlayInv, [PlayNext]_allVars, NEW p \in Sender, Sends(p),
           NEW c \in Client, ago[p][c] # Never
    PROVE  ago[p][c] >= IF c = NextClient(p)
                        THEN FloodDelay ELSE InterLineDelay(play[p].clients)
<1>0. PlayTypeOK /\ play[p].line \in Nat
    BY DEF PlayInv, PlayTypeOK
<1>1. SendLine(p)
    <2>1. ASSUME NEW q \in Sender,
                 \/ \E list \in Lists : StartPlay(q, list)
                 \/ NextLine(q) \/ PauseOver(q) \/ GapOver(q)
                 \/ AcquireToken(q) \/ PlayReturns(q) \/ (SendLine(q) /\ q # p)
          PROVE  FALSE
        <3>1. CASE SendLine(q) /\ q # p
            <4>1. play'[p] = play[p]
                BY <1>0, <3>1 DEF SendLine, PlayTypeOK
            <4>2. QED BY <1>0, <4>1 DEF Sends
        <3>2. CASE ~ (SendLine(q) /\ q # p)
            <4>1. play'[p].line = play[p].line
                BY <1>0, <2>1, <3>2 DEF StartPlay, NextLine, PauseOver, GapOver,
                       AcquireToken, PlayReturns, playVars, PlayTypeOK
            <4>2. QED BY <1>0, <4>1 DEF Sends
        <3>3. QED BY <3>1, <3>2
    <2>2. ~ PlayTick /\ ~ (NewWindow /\ UNCHANGED playVars) /\ ~ UNCHANGED allVars
        BY <1>0 DEF PlayTick, playVars, allVars, Sends, PlayTypeOK
    <2>3. QED BY <2>1, <2>2 DEF PlayNext, PlayStep
<1>2. play[p].stage = "guard"
    BY <1>1 DEF SendLine, Leave, PlayInv, StageInv
<1>3. /\ Kept(p, NextClient(p), FloodDelay, 0)
      /\ Kept(p, c, InterLineDelay(play[p].clients), 0)
    BY <1>2 DEF PlayInv, PaceInv
<1>4. ago[p][c] \in Nat
    BY <1>0, Delays DEF PlayTypeOK
<1>5. QED BY <1>3, <1>4 DEF Kept

(* Within one playback every client keeps the whole delay between its own  *)
(* lines, and consecutive lines keep the inter-line delay, for any delays, *)
(* lists of clients and numbers of lines, however late timers fire and     *)
(* however long the guard blocks.                                          *)
THEOREM PlaysKeepPace == PlaySpec => PlayKeepsPace
<1>1. PlayInv /\ [PlayNext]_allVars =>
        [\A p \in Sender : Sends(p) =>
           \A c \in Client : ago[p][c] # Never =>
              ago[p][c] >= IF c = NextClient(p)
                           THEN FloodDelay ELSE InterLineDelay(play[p].clients)]_allVars
    BY SendsInPace
<1>2. QED BY PlayInitInv, PlayNextInv, <1>1, PTL DEF PlaySpec, PlayKeepsPace
=============================================================================
