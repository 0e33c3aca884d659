------------------------------ MODULE Playback -------------------------------
(***************************************************************************)
(* Art playbacks (internal/art/player.go) on the clients of one network.   *)
(* Every !art starts a playback of its own, which paces its lines by the   *)
(* times it remembers itself and takes a token of the network's flood      *)
(* guard for every line: the senders of FloodGuard are here the calls of   *)
(* Player.Play.  Nothing but the guard is common to two playbacks, and     *)
(* since they run under context.Background() none is cancelled.            *)
(*                                                                         *)
(* Time is counted in ticks; a goroutine whose timer fires may run late.   *)
(* The library's queue behind PrivmsgNoFlood is not modelled.              *)
(***************************************************************************)
EXTENDS FloodGuard, Sequences

CONSTANTS
    Client,      \* clients of the network
    Lists,       \* what SelectClients may return: clients in list order
    Lines,       \* lines of an art file
    FloodDelay,  \* ticks
    MinGap,      \* minInterLineDelay in ticks
    Never        \* the zero time

ASSUME PlaybackAssumption ==
    /\ Lists \subseteq Seq(Client) \ {<< >>}
    /\ \A list \in Lists : \A i, j \in DOMAIN list : list[i] = list[j] => i = j
    /\ Lines \in Nat \ {0}
    /\ MinGap \in Nat /\ FloodDelay \in Nat \ {0}
    /\ Never \notin Nat

VARIABLES
    play,        \* locals of each call of Play
    ago          \* time since tracker.lastSend, for each play and client

playVars == <<play, ago>>
allVars  == <<guardVars, playVars>>

Idle == [stage |-> "none", clients |-> << >>, line |-> 0, wait |-> 0]

\* Times that keep every delay are not told apart.
LongAgo == IF FloodDelay < MinGap THEN MinGap ELSE FloodDelay
Older(t) == IF t = Never \/ t = LongAgo THEN t ELSE t + 1
Sooner(t) == IF t = 0 THEN 0 ELSE t - 1

PlayInit ==
    /\ Init
    /\ play = [p \in Sender |-> Idle]
    /\ ago = [p \in Sender |-> [c \in Client |-> Never]]

-----------------------------------------------------------------------------
(* Player.Play.                                                            *)
NextClient(p) ==
    play[p].clients[(play[p].line % Len(play[p].clients)) + 1]

InterLineDelay(clients) ==
    LET d == FloodDelay \div Len(clients) IN IF d < MinGap THEN MinGap ELSE d

(* !art selects connected clients and starts the playback.                 *)
StartPlay(p, list) ==
    /\ play[p].stage = "none"
    /\ play' = [play EXCEPT ![p].stage = "top", ![p].clients = list]
    /\ UNCHANGED <<guardVars, ago>>

(* The per-client delay is computed from the time of the client's last     *)
(* line of this playback.                                                  *)
NextLine(p) ==
    LET t == ago[p][NextClient(p)] IN
    /\ play[p].stage = "top"
    /\ play[p].line < Lines
    /\ play' = [play EXCEPT ![p].stage = "pause",
                            ![p].wait = IF t = Never \/ t >= FloodDelay
                                        THEN 0 ELSE FloodDelay - t]
    /\ UNCHANGED <<guardVars, ago>>

\* Faulty variant: no gap before the first line of each client.
PauseOverGapless(p) ==
    /\ play[p].stage = "pause" /\ play[p].wait = 0
    /\ play' = [play EXCEPT ![p].stage = "gap",
                            ![p].wait = IF play[p].line >= Len(play[p].clients)
                                        THEN InterLineDelay(play[p].clients) ELSE 0]
    /\ UNCHANGED <<guardVars, ago>>

PauseOver(p) ==
    /\ play[p].stage = "pause" /\ play[p].wait = 0
    /\ play' = [play EXCEPT ![p].stage = "gap",
                            ![p].wait = IF play[p].line > 0
                                        THEN InterLineDelay(play[p].clients) ELSE 0]
    /\ UNCHANGED <<guardVars, ago>>

GapOver(p) ==
    /\ play[p].stage = "gap" /\ play[p].wait = 0
    /\ Enter(p)
    /\ play' = [play EXCEPT ![p].stage = "guard"]
    /\ UNCHANGED ago

AcquireToken(p) ==
    /\ Pass(p) \/ Block(p)
    /\ UNCHANGED playVars

(* PrivmsgNoFlood, then lastSend = now.                                    *)
SendLine(p) ==
    LET c == NextClient(p) IN
    /\ Leave(p)
    /\ ago' = [ago EXCEPT ![p][c] = 0]
    /\ play' = [play EXCEPT ![p].stage = "top", ![p].line = @ + 1]

\* Faulty variant: the end of the art is looked for one line too late.
PlayReturnsEarly(p) ==
    /\ play[p].stage = "top" /\ play[p].line > Lines
    /\ play' = [play EXCEPT ![p].stage = "done"]
    /\ UNCHANGED <<guardVars, ago>>

PlayReturns(p) ==
    /\ play[p].stage = "top" /\ play[p].line = Lines
    /\ play' = [play EXCEPT ![p].stage = "done"]
    /\ UNCHANGED <<guardVars, ago>>

-----------------------------------------------------------------------------
PlayTick ==
    /\ Tick
    /\ play' = [p \in Sender |-> [play[p] EXCEPT !.wait = Sooner(@)]]
    /\ ago' = [p \in Sender |-> [c \in Client |-> Older(ago[p][c])]]

PlayStep(p) ==
    \/ NextLine(p)
    \/ PauseOver(p)
    \/ GapOver(p)
    \/ AcquireToken(p)
    \/ SendLine(p)
    \/ PlayReturns(p)

PlayNext ==
    \/ \E p \in Sender : PlayStep(p) \/ \E list \in Lists : StartPlay(p, list)
    \/ PlayTick
    \/ NewWindow /\ UNCHANGED playVars

PlaySpec == PlayInit /\ [][PlayNext]_allVars

(* Time passes and goroutines run.                                         *)
PlayFairSpec ==
    /\ PlaySpec
    /\ WF_allVars(PlayTick)
    /\ \A p \in Sender : WF_allVars(PlayStep(p))

-----------------------------------------------------------------------------
Sends(p) == play'[p].line > play[p].line

(* Within one playback every client keeps the whole delay between its own  *)
(* lines, and consecutive lines keep at least the inter-line delay, however *)
(* late timers fire and however long the guard blocks.                     *)
PlayKeepsPace ==
    [][\A p \in Sender : Sends(p) =>
         \A c \in Client : ago[p][c] # Never =>
            ago[p][c] >= IF c = NextClient(p)
                         THEN FloodDelay ELSE InterLineDelay(play[p].clients)]_allVars

(* Every playback comes to its end, although all of them compete for the   *)
(* tokens of one guard and nothing orders them.                            *)
EveryPlayEnds == \A p \in Sender : play[p].stage = "top" ~> play[p].stage = "done"
=============================================================================
