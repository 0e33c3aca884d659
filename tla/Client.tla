------------------------------- MODULE Client -------------------------------
(***************************************************************************)
(* An IRC client (internal/irc/client.go): the flood control its senders   *)
(* pass, and beside it the loop of ConnectWithRetry, the flag connected,   *)
(* which the library's handlers set, and the list of joined channels.      *)
(*                                                                         *)
(* The library runs every handler in a goroutine of its own, so two runs   *)
(* may take effect in either order, and a run may belong to a library      *)
(* client that resetGircClient has replaced.  One channel stands for all;  *)
(* at most one Join and one Part of it are under way.                      *)
(***************************************************************************)
EXTENDS FloodControl, Sequences

CONSTANTS
    MaxRetries,    \* argument of ConnectWithRetry, 0 for no limit
    BaseDelay, MaxDelay,
    MaxDuration,   \* the largest time.Duration
    MaxAttempt,    \* bound on attempts
    MaxRuns,       \* bound on handler runs that have not taken effect
    MaxListed      \* bound on entries of the channel

ASSUME BackoffAssumption ==
    /\ {MaxRetries, BaseDelay, MaxDelay, MaxDuration, MaxAttempt} \subseteq Nat
    /\ 0 < BaseDelay /\ BaseDelay <= MaxDelay /\ MaxDelay <= MaxDuration
ASSUME RunsAssumption == {MaxRuns, MaxListed} \subseteq Nat

VARIABLES
    loop,        \* ConnectWithRetry: "connect", "backoff" or "ended"
    link,        \* the connection: "down", "dialing" or "up"
    cancelled,   \* the context is done
    attempt,     \* local of ConnectWithRetry
    delay,       \* local of ConnectWithRetry
    connected,   \* Client.connected
    runs,        \* handler runs to come, in the order of their events
    late,        \* history: connected was last set by an outdated run
    calls,       \* what a call of Join and one of Part does next
    joined,      \* the server has the client in the channel
    listed,      \* entries of the channel in Client.channels
    crossed      \* history: a Join and a Part overlapped

linkVars    == <<loop, link, cancelled, attempt, delay>>
flagVars    == <<connected, runs, late>>
channelVars == <<calls, joined, listed, crossed>>

ClientInit ==
    /\ Init
    /\ loop = "connect" /\ link = "dialing" /\ cancelled = FALSE
    /\ attempt = 0 /\ delay = 0
    /\ connected = FALSE /\ runs = << >> /\ late = FALSE
    /\ calls = [join |-> "none", part |-> "none"]
    /\ joined = FALSE /\ listed = 0 /\ crossed = FALSE

-----------------------------------------------------------------------------
(* Handlers.  A run is outdated once a later event has set the flag.       *)
Event(up) == Append(runs, [up |-> up, outdated |-> FALSE])

Outdated(rs) == [i \in DOMAIN rs |-> [rs[i] EXCEPT !.outdated = TRUE]]

Remaining(i) ==
    Outdated(SubSeq(runs, 1, i - 1)) \o SubSeq(runs, i + 1, Len(runs))

\* Faulty variant: a connection that ends leaves the flag alone.
RunHandlerSticky(i) ==
    /\ i \in DOMAIN runs
    /\ connected' = (connected \/ runs[i].up)
    /\ late' = runs[i].outdated
    /\ runs' = Remaining(i)
    /\ UNCHANGED <<linkVars, channelVars>>

RunHandler(i) ==
    /\ i \in DOMAIN runs
    /\ connected' = runs[i].up
    /\ late' = runs[i].outdated
    /\ runs' = Remaining(i)
    /\ UNCHANGED <<linkVars, channelVars>>

-----------------------------------------------------------------------------
(* Connect and ConnectWithRetry.                                           *)
Welcome ==
    /\ loop = "connect" /\ link = "dialing"
    /\ Len(runs) < MaxRuns
    /\ link' = "up"
    /\ runs' = Event(TRUE)
    /\ UNCHANGED <<loop, cancelled, attempt, delay, connected, late, channelVars>>

(* The connection ends; of one that was not welcomed nothing may be heard. *)
LinkEnds ==
    /\ link' = "down"
    /\ joined' = FALSE
    /\ \/ Len(runs) < MaxRuns /\ runs' = Event(FALSE)
       \/ link = "dialing" /\ UNCHANGED runs
    /\ UNCHANGED <<connected, late, calls, listed, crossed>>

(* BaseDelay * 1.5^(k - 1), rounded down.  A product beyond the range of   *)
(* Duration becomes the largest or a negative one, by the machine, and the *)
(* timer of a negative one fires at once.                                  *)
Power(b) == LET p[n \in Nat] == IF n = 0 THEN 1 ELSE b * p[n - 1] IN p

Product(k) == (BaseDelay * Power(3)[k - 1]) \div Power(2)[k - 1]

\* Faulty variant: the cap is not applied.
BackoffUncapped(k) ==
    IF Product(k) > MaxDuration THEN {0, MaxDelay} ELSE {Product(k)}

Backoff(k) ==
    IF Product(k) > MaxDuration THEN {0, MaxDelay}
    ELSE {IF Product(k) > MaxDelay THEN MaxDelay ELSE Product(k)}

(* Connect returns, whether the connection failed or was lost.             *)
ConnectReturns ==
    /\ loop = "connect" /\ attempt < MaxAttempt
    /\ LinkEnds
    /\ IF cancelled
       THEN loop' = "ended" /\ UNCHANGED <<attempt, delay>>
       ELSE /\ attempt' = attempt + 1
            /\ IF MaxRetries > 0 /\ attempt' >= MaxRetries
               THEN loop' = "ended" /\ UNCHANGED delay
               ELSE loop' = "backoff" /\ delay' \in Backoff(attempt')
    /\ UNCHANGED cancelled

(* The timer fires: resetGircClient, and the next Connect.                 *)
BackoffOver ==
    /\ loop = "backoff"
    /\ connected' = FALSE
    /\ late' = FALSE
    /\ runs' = Outdated(runs)
    /\ loop' = "connect" /\ link' = "dialing"
    /\ UNCHANGED <<cancelled, attempt, delay, channelVars>>

Cancel ==
    /\ ~ cancelled
    /\ cancelled' = TRUE
    /\ UNCHANGED <<loop, link, attempt, delay, flagVars, channelVars>>

(* Connect calls Quit, which closes the connection with or without a QUIT. *)
ContextEnds ==
    /\ cancelled /\ loop # "ended"
    /\ IF loop = "connect" THEN LinkEnds ELSE UNCHANGED <<link, flagVars, channelVars>>
    /\ loop' = "ended"
    /\ UNCHANGED <<cancelled, attempt, delay>>

-----------------------------------------------------------------------------
(* Join and Part, called by onConnect and by commands: the command goes    *)
(* out first, then the list is changed under the lock.                     *)
JoinSends ==
    /\ calls.join = "none"
    /\ calls' = [calls EXCEPT !.join = "list"]
    /\ joined' = (joined \/ link = "up")
    /\ crossed' = (crossed \/ calls.part = "list")
    /\ UNCHANGED <<linkVars, flagVars, listed>>

\* Faulty variant: a client that is not marked connected lists nothing.
JoinListsUp ==
    /\ calls.join = "list" /\ listed < MaxListed
    /\ calls' = [calls EXCEPT !.join = "none"]
    /\ listed' = IF connected THEN listed + 1 ELSE listed
    /\ UNCHANGED <<linkVars, flagVars, joined, crossed>>

JoinLists ==
    /\ calls.join = "list" /\ listed < MaxListed
    /\ calls' = [calls EXCEPT !.join = "none"]
    /\ listed' = listed + 1
    /\ UNCHANGED <<linkVars, flagVars, joined, crossed>>

PartSends ==
    /\ calls.part = "none"
    /\ calls' = [calls EXCEPT !.part = "list"]
    /\ joined' = (joined /\ link # "up")
    /\ crossed' = (crossed \/ calls.join = "list")
    /\ UNCHANGED <<linkVars, flagVars, listed>>

PartLists ==
    /\ calls.part = "list"
    /\ calls' = [calls EXCEPT !.part = "none"]
    /\ listed' = IF listed > 0 THEN listed - 1 ELSE 0
    /\ UNCHANGED <<linkVars, flagVars, joined, crossed>>

-----------------------------------------------------------------------------
ClientStep ==
    \/ \E i \in 1 .. MaxRuns : RunHandler(i)
    \/ Welcome
    \/ ConnectReturns
    \/ BackoffOver
    \/ Cancel
    \/ ContextEnds
    \/ JoinSends
    \/ JoinLists
    \/ PartSends
    \/ PartLists

ClientNext ==
    \/ Next /\ UNCHANGED <<linkVars, flagVars, channelVars>>
    \/ ClientStep /\ UNCHANGED vars

ClientSpec == ClientInit /\ [][ClientNext]_<<vars, linkVars, flagVars, channelVars>>

(* The connection owes nobody anything; senders are as in FloodControl.    *)
FairClientSpec == ClientSpec /\ Fairness

-----------------------------------------------------------------------------
(* Once every handler has run, the flag tells the truth, across any number *)
(* of reconnections, unless the run that set it last was overtaken by one  *)
(* of a later event (client.go:131-150, 283-304): SelectClients, Quit and  *)
(* the status rely on it.                                                  *)
FlagFollowsLink ==
    runs = << >> /\ ~ late => (connected <=> link = "up")

(* The backoff stays between the base delay and its cap, until attempts,   *)
(* which no success resets, take the product out of the range of Duration  *)
(* (client.go:241).                                                        *)
BackoffInRange ==
    loop = "backoff" =>
        /\ delay <= MaxDelay
        /\ Product(attempt) <= MaxDuration => delay >= BaseDelay

(* A channel the client is in is in its list, through reconnections and    *)
(* repeated joins, unless a Join and a Part overlapped (client.go:506-526).*)
JoinedIsListed ==
    joined /\ calls.join # "list" /\ ~ crossed => listed > 0
=============================================================================
