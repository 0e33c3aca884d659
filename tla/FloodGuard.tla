----------------------------- MODULE FloodGuard ------------------------------
(***************************************************************************)
(* GlobalFloodGuard (internal/irc/flood.go): the token bucket of a network *)
(* and the goroutines that take a token from it before they send.          *)
(*                                                                         *)
(* Time is counted in ticks and only differences are kept: lag is the time *)
(* since lastRefill, cut off where a longer lag cannot earn more tokens.   *)
(* The counter of blocked calls is left out; nothing reads it.             *)
(***************************************************************************)
EXTENDS Naturals

CONSTANTS
    Sender,      \* goroutines that call Acquire
    MaxTokens,   \* burst size
    RefillRate,  \* ticks per token
    MaxWindow    \* bound: length of the windows over which sends are counted

ASSUME GuardAssumption ==
    /\ MaxTokens \in Nat \ {0}
    /\ RefillRate \in Nat \ {0}
    /\ MaxWindow \in Nat

VARIABLES
    tokens,   \* GlobalFloodGuard.tokens
    lag,      \* time since GlobalFloodGuard.lastRefill
    pc,       \* "idle", "try" (inside Acquire) or "go" (it returned)
    nap,      \* time each sender still sleeps
    age,      \* history: age of the present window
    passed    \* history: calls of Acquire that returned in this window

bucket    == <<tokens, lag>>
guardVars == <<tokens, lag, pc, nap, age, passed>>

Lower(a, b) == IF a < b THEN a ELSE b

MaxLag == MaxTokens * RefillRate

Init ==
    /\ tokens = MaxTokens
    /\ lag = 0
    /\ pc = [s \in Sender |-> "idle"]
    /\ nap = [s \in Sender |-> 0]
    /\ age = 0
    /\ passed = 0

-----------------------------------------------------------------------------
(* refillTokens: whole periods become tokens; the rest of the lag is lost  *)
(* when there is at least one.                                             *)
Earned == lag \div RefillRate

TokensNow == IF Earned > 0 THEN Lower(tokens + Earned, MaxTokens) ELSE tokens

\* Faulty variant: lastRefill is set even if no period has passed.
LagAlwaysReset == 0

LagNow == IF Earned > 0 THEN 0 ELSE lag

(* Acquire, from the call to its return.                                   *)
Enter(s) ==
    /\ pc[s] = "idle"
    /\ pc' = [pc EXCEPT ![s] = "try"]
    /\ UNCHANGED <<bucket, nap, age, passed>>

\* Faulty variant: the token is not taken out of the bucket.
PassFree(s) ==
    /\ pc[s] = "try" /\ nap[s] = 0
    /\ TokensNow > 0
    /\ tokens' = TokensNow
    /\ lag' = LagNow
    /\ pc' = [pc EXCEPT ![s] = "go"]
    /\ passed' = passed + 1
    /\ UNCHANGED <<nap, age>>

Pass(s) ==
    /\ pc[s] = "try" /\ nap[s] = 0
    /\ TokensNow > 0
    /\ tokens' = TokensNow - 1
    /\ lag' = LagNow
    /\ pc' = [pc EXCEPT ![s] = "go"]
    /\ passed' = passed + 1
    /\ UNCHANGED <<nap, age>>

Block(s) ==
    /\ pc[s] = "try" /\ nap[s] = 0
    /\ TokensNow = 0
    /\ tokens' = TokensNow
    /\ lag' = LagNow
    /\ nap' = [nap EXCEPT ![s] = RefillRate]
    /\ UNCHANGED <<pc, age, passed>>

(* The sender goes on; in the player, to send its line.                    *)
Leave(s) ==
    /\ pc[s] = "go"
    /\ pc' = [pc EXCEPT ![s] = "idle"]
    /\ UNCHANGED <<bucket, nap, age, passed>>

(* TokensAvailable refills too.                                            *)
TokensAvailable ==
    /\ tokens' = TokensNow
    /\ lag' = LagNow
    /\ UNCHANGED <<pc, nap, age, passed>>

-----------------------------------------------------------------------------
(* Time, and the windows of the history: one may begin at any moment.      *)
Tick ==
    /\ lag' = Lower(lag + 1, MaxLag)
    /\ nap' = [s \in Sender |-> IF nap[s] > 0 THEN nap[s] - 1 ELSE 0]
    /\ IF age < MaxWindow
       THEN age' = age + 1 /\ UNCHANGED passed
       ELSE age' = 0 /\ passed' = 0
    /\ UNCHANGED <<tokens, pc>>

NewWindow ==
    /\ age' = 0
    /\ passed' = 0
    /\ UNCHANGED <<bucket, pc, nap>>

Next ==
    \/ \E s \in Sender : Enter(s) \/ Pass(s) \/ Block(s) \/ Leave(s)
    \/ TokensAvailable
    \/ Tick
    \/ NewWindow

Spec == Init /\ [][Next]_guardVars

(* Time passes, and a goroutine whose sleep is over runs.  Nothing says    *)
(* which of two goroutines runs first.                                     *)
FairSpec ==
    /\ Spec
    /\ WF_guardVars(Tick)
    /\ \A s \in Sender : WF_guardVars(Pass(s) \/ Block(s)) /\ WF_guardVars(Leave(s))

-----------------------------------------------------------------------------
(* Shape of the state; the bucket never overflows.                         *)
TypeOK ==
    /\ tokens \in 0 .. MaxTokens
    /\ lag \in 0 .. MaxLag
    /\ pc \in [Sender -> {"idle", "try", "go"}]
    /\ nap \in [Sender -> 0 .. RefillRate]
    /\ age \in 0 .. MaxWindow
    /\ passed \in Nat

(* The hard limit: in a window of length age, whenever it began and however *)
(* many senders compete, at most MaxTokens + ceil(age / RefillRate) calls   *)
(* of Acquire return.  Only playbacks call it: flood.go:57-59 and 88-89     *)
(* speak of all messages, but !say, !pm and !raw send without (bot.go:636,  *)
(* 694, 735, 745) and are not bounded by this.                             *)
RateBound == passed * RefillRate < (MaxTokens + 1) * RefillRate + age

(* A call is refused only because of another one: whenever a refill period  *)
(* or more has gone by in which no call returned, the next one finds a     *)
(* token.  Windows begin at any moment, so this is about every such period.*)
(* Where it fails, senders may starve although nobody uses the network.    *)
QuietEarnsToken == passed = 0 /\ age >= RefillRate => TokensNow > 0

(* The guard never blocks everybody for good: while somebody waits for a   *)
(* token, somebody gets one.                                               *)
SomebodyPasses ==
    (\E s \in Sender : pc[s] = "try") ~> (\E s \in Sender : pc[s] = "go")
=============================================================================
