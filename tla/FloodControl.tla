---------------------------- MODULE FloodControl -----------------------------
(***************************************************************************)
(* FloodControl (internal/irc/flood.go) of one client, and the goroutines  *)
(* of !say, !pm and !raw that send through that client: each passes Wait,  *)
(* which sleeps with the lock held, and then hands its message over.       *)
(*                                                                         *)
(* Time is counted in ticks; a goroutine whose timer fires may run late.   *)
(* The message counter is left out; nothing reads it.                      *)
(***************************************************************************)
EXTENDS Naturals

CONSTANTS
    Writer,   \* goroutines that call Privmsg or SendRaw
    Delay,    \* FloodControl.delay, in ticks
    None      \* nobody

ASSUME DelayAssumption == Delay \in Nat \ {0}
ASSUME NobodyAssumption == None \notin Writer

VARIABLES
    pc,       \* "idle", "lock", "hold" (inside Wait) or "write" (Wait returned)
    rest,     \* time each writer still sleeps
    holder,   \* who holds FloodControl.mu, or None
    since     \* time since FloodControl.lastSend, longer times are equal

vars == <<pc, rest, holder, since>>

Init ==
    /\ pc = [w \in Writer |-> "idle"]
    /\ rest = [w \in Writer |-> 0]
    /\ holder = None
    /\ since = Delay

-----------------------------------------------------------------------------
(* Privmsg and SendRaw.                                                    *)
Call(w) ==
    /\ pc[w] = "idle"
    /\ pc' = [pc EXCEPT ![w] = "lock"]
    /\ UNCHANGED <<rest, holder, since>>

(* Wait: the lock is taken and the rest of the delay slept through ...     *)

\* Faulty variant: the lock is given up before the sleep.
LockUnheld(w) ==
    /\ pc[w] = "lock"
    /\ holder = None
    /\ pc' = [pc EXCEPT ![w] = "hold"]
    /\ rest' = [rest EXCEPT ![w] = Delay - since]
    /\ UNCHANGED <<holder, since>>

Lock(w) ==
    /\ pc[w] = "lock"
    /\ holder = None
    /\ holder' = w
    /\ pc' = [pc EXCEPT ![w] = "hold"]
    /\ rest' = [rest EXCEPT ![w] = Delay - since]
    /\ UNCHANGED since

(* ... and then lastSend is set and the lock given up.                     *)

\* Faulty variant: the lock is not given up.
ReturnLocked(w) ==
    /\ pc[w] = "hold" /\ rest[w] = 0
    /\ since' = 0
    /\ pc' = [pc EXCEPT ![w] = "write"]
    /\ UNCHANGED <<rest, holder>>

Return(w) ==
    /\ pc[w] = "hold" /\ rest[w] = 0
    /\ since' = 0
    /\ holder' = None
    /\ pc' = [pc EXCEPT ![w] = "write"]
    /\ UNCHANGED rest

Write(w) ==
    /\ pc[w] = "write"
    /\ pc' = [pc EXCEPT ![w] = "idle"]
    /\ UNCHANGED <<rest, holder, since>>

Tick ==
    /\ since' = IF since < Delay THEN since + 1 ELSE since
    /\ rest' = [w \in Writer |-> IF rest[w] > 0 THEN rest[w] - 1 ELSE 0]
    /\ UNCHANGED <<pc, holder>>

Next ==
    \/ \E w \in Writer : Call(w) \/ Lock(w) \/ Return(w) \/ Write(w)
    \/ Tick

Spec == Init /\ [][Next]_vars

(* Time passes and goroutines run; sync.Mutex starves no waiter (SF).      *)
Fairness ==
    /\ WF_vars(Tick)
    /\ \A w \in Writer : SF_vars(Lock(w)) /\ WF_vars(Return(w)) /\ WF_vars(Write(w))

FairSpec == Spec /\ Fairness

-----------------------------------------------------------------------------
(* Shape of the state.                                                     *)
TypeOK ==
    /\ pc \in [Writer -> {"idle", "lock", "hold", "write"}]
    /\ rest \in [Writer -> 0 .. Delay]
    /\ holder \in Writer \cup {None}
    /\ since \in 0 .. Delay

(* Two calls of Wait return at least the delay apart, however many writers *)
(* queue up behind the lock and however late their timers fire.            *)
WaitKeepsPace ==
    [][\A w \in Writer : pc[w] = "hold" /\ pc'[w] = "write" => since = Delay]_vars

(* Every message is sent in the end, although a writer sleeps with the     *)
(* lock held and new writers keep coming.                                  *)
EveryMessageIsSent == \A w \in Writer : pc[w] = "lock" ~> pc[w] = "idle"
=============================================================================
