# A verification project for funbot

funbot is an IRC controller written in Go: one *home* client listens for commands
of an authorised user, and *network managers* keep any number of clients connected
to other networks, each through a proxy of its own. This directory holds TLA+
modules for the concurrent parts of it, the TLC runs that check them on small
instances, and proofs, checked by TLAPS, of what holds for every instance.

`PROJECT.json` lists the components, the runs, the hazards, the theorems and, for
each definition, the lines of the source it stands for.

## 1. The system

| component | source | state | operations | who calls it |
|---|---|---|---|---|
| proxy pool, API source | `internal/proxy/proxy.go` | list of proxies (healthy, networks, failures, last use) under `Pool.mu`; limits | FetchFromAPI, AcquireForNetwork, ReleaseByAddressFromNetwork, EnsureAvailable, RefillIfNeeded, StartRefresher | managers, client goroutines, the refresher |
| proxy pool, rotating source | same file | one entry per connection, all with one address | acquireRotatingLocked, the `Rotating` branches of release | the same |
| network manager | `internal/bot/network.go` | client list and keepnick map under `nm.mu`; the context | AddClients, RemoveClients, Stop, the rotation goroutine of each client, StartKeepNick, StopKeepNick | commands, each in a goroutine of the IRC library |
| IRC client | `internal/irc/client.go` | library client, `connected`, nick, channels, proxy address | Connect, ConnectWithRetry, resetGircClient, SetProxy, Quit, Privmsg, ... | rotation goroutine, commands, library handlers |
| flood control | `internal/irc/flood.go` | last send of one client | Wait | Privmsg, SendRaw |
| flood guard | `internal/irc/flood.go` | token bucket of one network | Acquire, TokensAvailable | the art player |
| art player | `internal/art/player.go` | times of the last line of each client, per playback | Play | one goroutine per `!art` |
| keepnick | `internal/irc/keepnick.go` | active, acquired, handler IDs | Start, Stop, attemptNick | manager, library handlers |
| bot commands, registry | `internal/bot/bot.go`, `commands.go`, `context.go` | `b.networks`, `b.cfg.Networks`, the sticky context | one handler per command | home client's PRIVMSG handler |
| nick generators | `internal/nick/` | set of nicks given | Generate | AddClients |
| art repository, catalog | `internal/art/repo.go`, `catalog.go` | working copy; list of entries | Init, Pull, Refresh, searches | Bot.Run, commands |
| start, shutdown | `cmd/funbot/main.go`, `Bot.Run` | the root context | signal handling | |
| auth, config | `internal/auth`, `internal/config` | none after start | | |

How they interact. The library runs every event handler registered with `AddBg` in
a goroutine of its own, so **two commands run at the same time** whenever the
second arrives before the first returns, and connecting or quitting takes seconds.
The pool and the client list have a lock each; neither is held from one pool call to
the next. The rotation goroutine shares the client's proxy address with
RemoveClients and Stop. The refresher replaces the pool's list under everybody. Senders meet
at the flood control of a client, playbacks at the flood guard of a network.

What is hard, then: operations made of several critical sections (EnsureAvailable
then Acquire; index then append; release then acquire then SetProxy), refreshes that
land between them, a client goroutine that outlives its client, locks held while
sleeping, and pacing that each sender computes alone. What should hold of each part:

* pool: a loan survives refreshes; no loan is recorded that nobody has; a proxy
  has one user per network; failures are held against a proxy only while it is in use;
* manager: no proxy is lost; the two records of a loan agree; IDs are distinct; a
  removed client is gone; rotations end and commands return;
* flood control, guard, player: the delays and the rate limit of playbacks hold however
  late goroutines run, and every message is sent;
* keepnick: at most one live process per client, stopped when it is stopped;
* client: the connected flag settles on the truth, the backoff stays in its range, a
  joined channel is in the list;
* registry: a running manager can be reached by its name and is stopped once; commands
  return; a signal ends the process;
* commands: what the operator writes is read as written and acts in one context;
* nicks, configuration: a valid network starts, a nick is too long or given twice only
  when the generator had no other;
* art: what is found can be loaded.

## 2. The modules

    Pool                    operations of proxy.go on pool values;  PoolProofs
     |-- ProxyPool          callers, refresher; refines ProxyLeases;  ProxyPoolProofs
     `-- NetworkManager     clients that rotate, commands; either source of proxies;
                            refines NetworkLeases;  NetworkManagerProofs
    ProxyLeases             abstract: leases that are exclusive on each network
    NetworkLeases           abstract: leases of one network that pass from hand to hand
    FloodGuard              token bucket
     `-- Playback           playbacks as the senders of the guard;  PlaybackProofs
    FloodControl            Wait of one client
     `-- Client             the client around it;  ClientProofs
    KeepNick                keepnick processes of one client;  KeepNickProofs
    Bot                     life of the process, registry of networks;  BotProofs
    ArtRepo                 clone, updater and catalog, across restarts
    Nicks                   nick generators and configuration, as operators
     `-- Commands           handlers of the operator's messages, on ArtRepo and Nicks;
                            CommandsProofs
    MC*                     instances for TLC

**Pool** has no variables. A pool value maps the address of each loaded proxy to its
health, networks and failure count; each operation of the code, which runs in one
critical section of `Pool.mu`, is one operator. The order of `LastUsed` is a second
value, `order`: the pairs of addresses of which the second was used last, with `<<a, a>>` for
each that was used at all; it is only kept to choose a candidate, and no property is about it. Country, use counters and credentials decide nothing and are left out.
An answer of the API is any set of live endpoints. *Assumed*: one answer lists an
endpoint once, so that an address is an entry.

**ProxyPool** interleaves the critical sections. A caller does what AddClients and a
rotation do: EnsureAvailable (`Ensure`, `EnsureFetch`, `EnsureRecount`, up to three
rounds, or `EnsureFetchFails`), then `Acquire` or `AcquireNil`, later `Release`. The
refresher is `RefreshTick`, `RefillIfNeeded`, `RefillFetch`. `purgedInUse` is a history
variable.

**ProxyLeases** is the promise: on each network a proxy is lent to one caller, who gives it
back. `Forfeit` is the one exception: of a proxy that callers of several networks have, one
gives it up for dead and the others' leases end. ProxyPool maps to it with the loans whose
proxy was not purged in use as leases (`Held`).

**NetworkManager** is one manager. For each client `pc` is the place of its goroutine:
`dial`, `online`, `backoff` (ConnectWithRetry), `release`, `ensure`, `fetch`, `acquire`,
`setproxy` (the rotation), `gone`. `current` is the goroutine's `currentProxy` and
`proxyAddr` the client's field; they differ between `AcquireNew` and `SetProxy`. A command
is a record: AddClients goes through `fetch`, `recount`, `acquire`, `index`, `append`;
RemoveClients and Stop take `mu`, and release and quit one client after the other. `Cancel`
is the signal. `AppendsAlone` says that while AddClients is between its index and its append nobody
else appends or removes; `UniqueUndisturbed` promises distinct IDs as long as that held. The source is chosen at the start: with a rotating one every entry of the pool
has the same address, so the entries of the network are the number `exits`, an acquisition
always succeeds and a release takes an entry, whoever it was made for. Dialling, disconnects and backoff may happen or not, at any time.

**NetworkLeases** is what a manager promises of the proxies of its pool: one is lent to nobody or to
one holder, a command or a client's goroutine; a command hands it over to the client that it was taken
for; a holder disappears only after the context has ended, and what it had then stays lent. `Leases` maps NetworkManager
to it: the pool's marks are what is lent, `HolderOf` is who uses it. `LeasesUntilRemoval` says that
the manager does so until a client is taken off the list or the manager stopped; from then on a
loan may be another's (`manager_removed`).

**KeepNick** is one client, the commands on its entry of `nm.keepNicks`, and the processes
they start. `pc` follows a process from StartKeepNick's lookup (`found`), the map (`created`),
the critical section of Start (`starting`) and the three steps after it (`quit`, `both`,
`attempt`: handlers and IDs) to the loop (`select`), the deferred function (`cleanup`) and
`done`. `handlers` are those of the current library client; `ResetGircClient` empties it. An
event only adds to `runs`; `RunOwn` and `RunKeepNick` are the background goroutines, which read
`GetNick()` of the library client they were registered with, when they run. `nick` is the
client's own field and may be behind. `attemptNick` is one step: what changes between its
comparison and its command can only make the command superfluous or lose it, which
`Answer` and `Disconnected` do as well. `early` and `credited` are history variables.

**FloodGuard**, **FloodControl** and **Playback** measure time in ticks and keep only time
differences, cut off where longer ones make no difference to the code, so that runs are
finite without an end of time. Any step may be late; `Tick` never waits for anybody.
`NextLine`, `PauseOver`, `GapOver`, `AcquireToken`, `SendLine` of Playback are the
steps of one round of the conductor's loop. Playback extends FloodGuard: its `Sender`s are the
playbacks, and each of its steps is a step of the guard or leaves it alone. Two playbacks share
only the guard, as in the code.

**Client** extends FloodControl, so that its writers run beside the loop of ConnectWithRetry
(`loop`, `attempt`, `delay`), the connection (`link`), the flag and the channel list. An event
of the library only adds to `runs`; a run sets the flag when it takes effect, in any order and
also when it belongs to a library client that was replaced. Join and Part send first and
change the list afterwards, so that the two steps of one may fall between those of the
other. `Backoff` is the arithmetic of the delay with the conversion to `time.Duration` at its
end: beyond the range the result is the largest or a negative duration.

**Bot** has Run's phases (`boot`, `home`, `quit`, `exited`, and a restart) and the command
goroutines, each with the place it has reached. handleConnect is `ConnectLookup`,
`ConnectConfigure`, `ConnectStarted` or `ConnectFailed` and `ConnectUndo`, `ConnectPublish`;
handleDisconnect is `DisconnectTake`, `StopLocks`, `StopDone`, `DisconnectForget`. A manager is
its name, its context (the root's or Background) and whether it has clients. `Locked` and
`NetMuRead` are the two locks that are held while somebody waits. `MapFault` is what Go's
runtime may do when two goroutines use the map `b.cfg.Networks` at once. `raced` is a history
variable: the names on which connecting, disconnecting and adding overlapped.

**ArtRepo** is the clone on disk, which survives the process, and the catalog, which does not.
git is external: it succeeds, fails or is killed and leaves something between old and new.
**Commands** reads the arguments with one operator per command (`JoinArgs`, `SayArgs`, ...) and
follows a handler through `network` and `channel` (the two reads of the context), `find`,
`route`, `load`, `act`. `asked` is what the message named, `alone` marks the two forms that read no
network (a bare `!part`, `!nick` with one argument). `during` and `torn` are history: the contexts
that were set while the handler was under way, and whether one was set between its reads. Whether a network has a
manager and clients is open (`RouteNetwork`): Bot has the registry. **Nicks** has no state; its
operators are checked in the run of Commands. A nick is a sequence of symbols: the prefix and a text
cut to its room (`RandomDraw`), or the prefix and two words, cut afterwards (`WordlistDraw`);
`Generate` is the wrapper around both, which puts the index behind its last draw.

Definitions named after a fault (`PurgesLate`, `LockUnheld`, ...) stand before the
definition they distort and are used by nothing: putting one in place of the real
definition must break the property PROJECT.json pairs it with.

## 3. The runs

| run | instance | states | what it shows |
|---|---|---|---|
| pool | 2 proxies, 2 networks, 2 + 1 callers, maxRetries 1, need up to 2 | 327,510 | TypeOK, IdleIsForgiven, NoLeakedMark, ExclusiveUnlessPurged, InUsePreserved, LeaseSpec |
| manager | 2 clients, 2 commands, 2 proxies or the endpoint, maxRetries 2 | 1,247,876 | TypeOK, NoLeakedMark, OneUserUntilRemoval, LeasesUntilRemoval |
| manager_live | 2 clients, 2 commands, 1 proxy or the endpoint, maxRetries 1, adds of 1 | 232,739 | UniqueUndisturbed, RotationEnds, CommandsReturn |
| manager_removed | 1 client, 1 command | violation | a removed client reconnects |
| keepnick | 2 processes, 1 library client | 475,240 | OneProcess, EndsWithNick |
| keepnick_live | 1 process, 2 library clients | 62,980 | TypeOK, NoStrayHandlers, CancelledEnds, KeepsTrying |
| keepnick_handlers | 1 process, 2 library clients | violation | a process without handlers after a reconnection |
| guard | 3 senders, burst 2, 3 ticks per token, windows up to 7 | 29,462 | RateBound, QuietEarnsToken, SomebodyPasses |
| client | 2 writers, delay 2, base delay 2, cap 3, range 5, 4 attempts, 2 late runs | 615,735 | FlagFollowsLink, BackoffInRange, JoinedIsListed, WaitKeepsPace, EveryMessageIsSent |
| playback | 2 playbacks of 3 lines on 1 or 2 clients, delay 3, burst 1 | 32,465 | PlayKeepsPace, EveryPlayEnds |
| bot | 1 network beside the home network, 2 commands, 2 managers a life | 114,463 | ReachableUnlessRaced, ConfiguredUnlessRaced, StoppedByOne, CommandsReturn, SignalEnds |
| commands | 2 handlers, 12 messages, 2 networks, 2 channels, 1 file, texts of up to 3 words | 2,019,672 | ActsInOneContext, FoundArtLoads; on the initial states FormsAreRead, ConfigsStart, NicksFit, RepeatsAreFallbacks |

The bounds. Two proxies and two callers on a network are what competition needs, and a
second network is what a purge in use needs; two failures reach and pass the
limit 1. Two commands can overlap: two additions read one length of the list, or one waits for
`nm.mu` while the other holds it through pool calls and QUITs. In the live run the one
proxy and two clients make somebody give up. `MaxNeed` and `MaxAdd` bound the
arguments of commands; a command that adds clients starts only while the
model has clients left (`Reserved`), so an `AddClients` in progress is never cut short.
A rotating source brings no new bound: each client has at most one entry.
In the guard, 2 tokens and 3 senders make one wait, and a window of 7 contains two
refills and a rest. Windows begin at any moment, so QuietEarnsToken is about every stretch of
3 ticks or more. Three lines on two clients come back to the first client. The
delays 2 and 3 make the inter-line delay differ from the client's. A second keepnick process
is what a command replaces, a second library client what a reset makes; `MaxRuns` (1)
holds events back while handler runs are outstanding, but not commands, ticks,
disconnects and resets. What this leaves out (events that overtake each other, and in
the run keepnick, where `MaxResets` is 0, processes across resets) the theorems of KeepNickProofs
cover: `EndsAreEarned` and `AtMostOneProcess` hold for any number of replaced library clients.
For the client, powers of 1.5 of the base delay 2 pass the cap 3 at the second and the range 5 at
the fourth attempt; the program's values (2 s, 5 min, 2^63 ns) do so at the 14th and the 56th.
Two outstanding runs are one of each kind in either order; two entries of a channel are one more
than the list needs. `MaxAttempt` stops the loop, not the handlers, the writers or the channel calls.
Two managers are what an overwritten entry needs, and two commands what a race needs; a command connects
only while a manager is left (`Reserved`). Three words after a count are a text in which a network, a channel
and a number can follow a plain word; two contexts and `clear` are two values and the
empty one. `MaxTries` is 1 where the program has 100: three draws make two calls collide.
The network configurations are all combinations of the kinds that the code tells apart. For the nicks,
prefixes of 0 to 3 symbols with lengths from -1 (which becomes 9) to 3 are shorter than the length, fill it
and exceed it; an adjective and a noun are a symbol each, with up to three digits.

Symmetry is used only in runs without liveness properties, and only over values that
the specifications treat alike.

Deadlock is checked in every run: none of the modelled processes may stop for good.

The type invariants of FloodGuard, FloodControl, Playback and Bot are in no run, since they are proved
(`GuardTypeCorrect`, `ControlTypeCorrect`, the invariant `PlayInv`, `BotTypeCorrect`).

### Fairness

*manager_live*: for each client weak fairness of the rotation's own steps, and for each command
weak fairness of the steps that wait for nobody (goroutines run), and strong fairness of `AddIndex`
and `AddAppend`, which take `nm.mu` (a Go lock starves no waiter). With weak fairness of those two as
well CommandsReturn is violated: the other command may remove again and again, and hold the
lock whenever the first looks. The steps that begin a removal or Stop take the lock when they happen; that
they happen is left to the operator. Nothing is assumed of dialling, disconnects,
backoff, the API or the signal. *keepnick_live*: goroutines and handlers run, the ticker
ticks, the select that is offered a finished context takes it at last, and a server that stays
connected answers (strong fairness, because the bound holds answers back). Commands,
connections and strangers are free. *guard*, *client*, *playback*: time passes, goroutines
run, and the lock of FloodControl starves nobody; the connection of the client owes nobody
anything. *bot*: main and the command goroutines run, and a lock is granted at last (strong
fairness of the steps that need one); a loop over `AddAppend` ends because its leaving is fair.
Signals, connections and commands are free. `SomebodyPasses` is all the guard
promises, with `QuietEarnsToken`, its safety part: nobody is refused unless another call returned less than
a refill period ago. Which of two pollers gets the token is open, so a single sender may wait for
ever while others keep coming. A playback ends because playbacks are finite and each is
started once.

## 4. What the violations say

Two runs check a sentence of the repository and TLC shows a behaviour of the code
against it; PROJECT.json quotes the sentences.

* **manager_removed**: `Quit` ends the connection; the goroutine sees a lost connection,
  backs off and dials again, through a proxy that was released for it.
* **keepnick_handlers**: `resetGircClient` registers the four handlers of the client and
  not those of a running keepnick process, which from then on hears of no QUIT or NICK.

Other weak spots are in the exceptions that the passing properties name, or in what
their runs leave out:

* `ExclusiveUnlessPurged` excepts proxies in `purgedInUse`, and ProxyLeases has `Forfeit`: caller
  e1 on EFnet and u1 on Undernet use p1, u1 fails once too often, `removeProxyLocked` drops p1
  with e1's record, the next fetch lists p1 afresh, and e2 gets it for EFnet, although
  `proxy.go:324-325` says "NOT already connected to the network".
* `ReachableUnlessRaced` and `ConfiguredUnlessRaced` except names in `raced`: the later of two
  `!connect` overwrites the entry of the earlier, a `!disconnect` deletes the configuration of a
  `!connect` that came meanwhile, and clients are added to a manager that was taken off the map.
* `FlagFollowsLink` excepts a flag that was last set by an overtaken run, and `JoinedIsListed` a Join
  and a Part that overlap.
* `BackoffInRange` promises no lower bound once the product leaves the range of Duration.
* `ActsInOneContext` excepts a `!context` between the two reads; `FoundArtLoads` an updater
  that changed the disk, since nobody refreshes the catalog after a pull, although `catalog.go:43`
  says it should be; `ConfigsStart` a strategy "prefix" whose prefix is in `nick_prefix`;
  `FormsAreRead` a `!say` whose text holds a channel, or a number after a count of 0, once the network
  was named, or that begins with the name of a network. FormsAreRead is about the forms with their counts
  given; omitted counts and art with a number for a name are not covered.
* A bare `!part` has the home client leave the channel of the context, whatever network that channel is
  on, and `!nick` with one argument renames the home client (`bot.go:443-449, 503-506`), although
  `README.md:141` and `PLAN.md:224-226` let commands that omit the network use the context.
  `ActsInOneContext` names both forms as exceptions (`alone`).
* `ConfigsStart` also excepts a home network without `nick_prefix`: `Validate` accepts it with the
  strategies random and wordlist (or prefix, with a prefix in the nick block), and `New` uses
  `nick_prefix` alone (`bot.go:62`), so that the home client has an empty nick.
* `NicksFit` excepts nicks that are too long because the generator had no other: a random nick whose prefix
  fills the length, and one to which the deduplicating wrapper appended the index after the cut (`nick.go:60-63`). With a wordlist
  prefix as long as the length all but the first are of that kind, although `nick_test.go:202-216`
  reads as if the length were a limit. The prefix strategy ignores the length (`prefix.go:15-17`).
* `RepeatsAreFallbacks` excepts the same fallback, which may repeat a nick, although `nick.go:33-34` and
  `67-68` promise unique ones. The prefix strategy is not wrapped: its nicks repeat when the indexes do.
* `RateBound` counts the calls of Acquire, which only playbacks make: `!say`, `!pm` and `!raw` send without
  the guard, although `flood.go:57-59` and `88-89` speak of the total over all clients and of any message.
* `JoinedIsListed` is about Join and Part; what `!raw` makes a client join is in no list.
* `SignalEnds` is about the process. `PLAN.md:467` checks off "Graceful shutdown (SIGTERM handling, clean IRC
  QUIT)": the home client gets its QUIT, but main does not wait for those of managed clients, and clients of
  networks that `!connect` made, whose context is not the root's, send none.
* `OneProcess` excepts processes in `early`: a stop between the map and `kn.Start` finds no
  cancel function, and the process starts after it was stopped.
* `EndsWithNick` counts the nick field, which outlives the connection: a keepnick
  started during a reconnection takes the old nick for acquired and gives up.
* `UniqueUndisturbed` excepts commands that overlap between the index and the append: both read
  `len(nm.clients)` before either appends, or a removal shortens the list after it was read, and
  two clients get one ID.
* A failed proxy is not healthy, and only a fetch brings it back, with a fresh entry if nobody uses it
  (`IdleIsForgiven`). So failures of one user after the other never add up, although the comment at
  `proxy.go:163-164` speaks of consecutive ones, and on a single network, unless the limit is 0, no proxy is ever
  given up (`OneNetworkPurgesNothing`).
* `PlayKeepsPace` is about one playback: the `trackers` are local to a call of `Play`, and two
  playbacks on one client do not wait for each other, although `PLAN.md:286` speaks of
  consecutive messages from the same client.

## 5. The proofs

The eight modules `*Proofs` hold for all values of
the constants under the named assumptions of the modules: `AddrAssumption` (the addresses are a
finite set, so that counting is meaningful), `MaxRetriesAssumption`, `NetOfAssumption`,
`NoAddrAssumption`, `NeedAssumption`, `NetAssumption`, `SourceAssumption`, `GoroutineAssumption`
(finitely many clients and commands, whose names differ, for `OneUserUntilRemoval` counts both),
`GuardAssumption`, `PlaybackAssumption`, `DelayAssumption`, `BackoffAssumption`,
`NobodyAssumption`, `NickAssumption`, `NoProcAssumption`, `BoundAssumption`, `NameAssumption`,
`NoneAssumption`, `RunsAssumption`, `HomeAssumption`, `TriesAssumption`, `ArgumentAssumption`,
`KindAssumption` (a word is read as one kind of argument).

*The pool.* `TypeCorrect` is an induction of its own. ExclusiveUnlessPurged and
NoLeakedMark are not inductive: that a second caller cannot get a proxy follows only if
the first one's loan is **recorded** in the pool, and that a record is not left behind
follows only if two callers never share a recorded loan. `LeaseInv` states both
directions: every recorded network belongs to a caller that has the proxy, and
every loan whose proxy is outside `purgedInUse` is recorded and alone. The step lemma splits
Next into the fetches (which keep all marks: `FetchMarks`), the acquisition, the release
with and without purge, and the quiet steps. `LeasesAreExclusive` and `NoMarkLeaks`
follow; the two action properties use TypeOK and LeaseInv before the step.
`PoolImplementsLeases` needs no assumption: a release that purges a shared proxy is a
`Forfeit`, since the loans of that proxy leave `Held` in the same step, and every other step is a
`Lend`, a `GiveBack` or a stutter (`AcquireRefines`, `ReleaseRefines`, `StepRefines`). `OneNetworkForfeitsNothing`
adds that with one network nothing is ever purged in use (`StepOneNetwork`), so that
leases are exclusive without exception there.

*Nil means none.* `order` is a total order of the proxies that were used (the lemmas around `OrderInv`):
a fetch keeps it on the proxies in use, a purge takes one out, an acquisition puts one at
the end. With a finite pool such an order has a first element (`SomeCandidate`), so that AcquireForNetwork
finds a candidate whenever a proxy is free: `NilMeansNone`.

*Failures.* `FailuresAreForgotten` proves IdleIsForgiven: a release that fails leaves the proxy unhealthy,
one that does not sets its failures to 0, and a fetch, which alone makes a proxy healthy again, keeps the record
of those in use and renews the others. `OneNetworkPurgesNothing` adds that
with one network a proxy in use has a single user, so that one that was acquired has no failures, and its release is at
most the first.

*The manager.* OneUserUntilRemoval and NoLeakedMark relate the pool to the goroutines and commands
that have a proxy, and neither is inductive. `IInv` of NetworkManagerProofs adds, layer by layer: what the
fields of a command are at each of its places (`CallInv`); that the client list holds
each client once and none that was never made (`ListInv`); that a pool of the API has no exits and a
rotating one no marks (`SourceInv`); and `LoanInv`, which says who has which proxy as long as no client was
taken off the list: each proxy has at most one user, the pool has its mark, and the exits are as many as their
holders. `CallEffects` and `ClientEffects` sum up what each step does to its command or client, `StepLoans`
sorts every step into one of six kinds (nothing new is lent, a loan begins, ends, or passes from a command to
its client, a goroutine ends with its loan, or a removal tells the pool and not the user), and the preservation of
NoLeakedMark and LoanInv is proved for the kinds, not for the thirty actions. A removal hits the loan of whoever
has the proxy by then, which is why OneUserUntilRemoval ends there.

`ManagerImplementsLeases` uses the same kinds: a loan that begins is a `Lend`, one that ends a `GiveBack`, one that passes on a `HandOver`; a
goroutine that returns because the context is done takes its loan with it (`Disappear`), the end of the context
itself is `End`, and all else changes neither the marks nor the holders (`StepLeases`). That `HolderOf` is well defined, and after a step is who the kind
says, needs LoanInv on both sides of the step: a lent proxy has a user, and only one (`OneHolder`, `NextHolder`).
The pool's mark disappears with a proxy that is removed after too many failures, which gives it back as well.

`IDsAreUnique` proves UniqueUndisturbed for any number of commands. It rests on `NumberInv`: the client at place i of the
list has index i - 1, and a command that has read an index and not appended yet has the length of the list. A step that
breaks the latter is one that AppendsAlone excludes. `IDsOfOneCommand` is its corollary for a manager
with a single command goroutine, where appends are always alone.

*The guard.* RateBound is not inductive: what a window may still let through
depends on the bucket and the lag at its start. `Balance` adds them up in ticks: calls
passed, times the rate, plus `Credit` (tokens and lag, at most a full bucket and a rest)
never exceed a full bucket, a rest and the age of the window. A refill loses credit or
keeps it, a pass moves one token from credit to passed, a tick adds at most one to credit and
one to the age. QuietEarnsToken needs the opposite bound (`QuietLag`): as long as the bucket is empty and no call of the
window returned, nothing was earned in it, so that the lag is as old as the window; a refill that moved
`lastRefill` without a token would break it.

*Playbacks.* `PlaybacksUseTheGuard` shows that playbacks implement FloodGuard, so the guard's limit
is one on the lines of all playbacks together (`PlaybacksKeepRate`). PlayKeepsPace needs `PaceInv`: during
each wait, what remains of it and the time that passed since the client's last line add up to the
delay the wait is for, and once the wait is over the time alone is enough, however long the guard
blocks. `StageInv` ties the stages of a playback to the guard: it is inside Acquire exactly while it waits for a token.

*Flood control.* WaitKeepsPace follows from `SleepCovers`: the writer inside Wait
holds the lock, and its remaining sleep and the time since the last send add up to the
delay at least. `ControlTypeCorrect` is the induction it rests on.

*The client.* FlagFollowsLink speaks of the moment when no run is outstanding. `FlagInv` says
for every moment that the last outstanding run, unless it is outdated, will set the flag to the
state of the present link, and that without such a run the flag has that state. A run that takes effect makes the earlier ones outdated, a reset all of them.
BackoffInRange needs that 1.5^n is at least 1. tlapm knows nothing of `^`, so `Power` is a recursive
function, and `PowerDef` shows that it exists. JoinedIsListed becomes inductive (`ChannelInv`) with three facts: the client is in a channel only
while the link is up, the link is down during a backoff, and a Part that still has to change the
list finds the channel left unless a Join crossed it.

*The registry.* TypeOK is an induction of its own. The other three follow a manager through its
life: a new one belongs to the one command that made it, a manager in the map has the name it is
entered under and is in no command's hands but those that looked it up, and a name outside `raced` has at
most one command that connects or disconnects, which is what lets a publication find an empty
entry. BotProofs has one lemma per conjunct, with one step per action.

*The commands.* FoundArtLoads needs that the catalog names only files on disk until the updater
changed it, and that a handler that found its file still finds it in the catalog, since the
next catalog is made only after a restart, which no handler survives. ActsInOneContext needs that
a handler which is to read the context has the present one in `during`, and that between its
reads its network is the one asked for or that of the present context, unless it is torn; routing only turns no network into
the home network (`Routed`). ConfigsStart, NicksFit and
RepeatsAreFallbacks are facts about operators. The run evaluates them on small tables; `LongNicksAreForced`
and `RepeatsNeedFallback` hold for every length, prefix, text, word and number of calls and tries. For RepeatsAreFallbacks,
`NicksInTurn` shows by induction over the calls that each is generated with the earlier nicks as
seen, and `SeenNeedsFallback` that a nick which was seen comes from the fallback. `LongNicksAreForced` rests on
the lengths of the draws (`RandomFits`, `WordlistFits`), on `DrawnOrForced` (a nick is a draw that was not seen, or all tries were seen) and on
`SeenWasGiven` (what was seen was given before); a wordlist prefix that fills the length leaves one draw only (`FullPrefixIsAll`).

FormsAreRead says that each command finds the network, the channel and the number in what the operator
writes, in whatever order the code allows. The code's loops over the words are FirstOf and LastOf, and what
these return depends only on which arguments of a kind there are (`Values`, `Only`), so most forms are read by naming the
single argument of each kind. handleSay stops at its text and remembers what it passed; `SayRead` follows it word by word as a recursive
function (which exists: `SaidToExists`), its arguments before the text are read one by one, and that the words
of the text change nothing more is the argument about a least counterexample, for Sayable messages of any length
(`SayFormIsRead`).

*Induction over data.* The induction theorems of the library take an operator as a parameter, which the
installed provers cannot instantiate. `Least` (ClientProofs and CommandsProofs) gets round this: a nonempty
set of natural numbers has a least element, since `<` is well-founded. An induction is then an
argument about the least counterexample, and with it a recursive function is shown to
exist by putting together the finite functions that obey its equation (`PartialExists`, `GivenToExists`).

*Keepnick.* `IInv` adds to TypeOK one conjunct for each thing a later step relies on. `MapInv`
includes processes that are only created, since Start makes them active without a
look at the map. `HandlerInv` says that whoever has handlers will still clean up. `RunInv`
is what makes EndsWithNick inductive: a NICK handler asks the library client it was
registered with, so every outstanding run that would find its nick there must have its
credit already; it does, because the nick of the current library client counts at
once (`Credits`) and a replaced one does not change (`ServerFrame`).

Only model-checked: the liveness properties RotationEnds, both CommandsReturn, CancelledEnds, KeepsTrying,
SomebodyPasses, EveryMessageIsSent, EveryPlayEnds and SignalEnds, since fairness and ENABLED are out of the prover's
reach. RemovedStaysDown and HandlersSurvive are violated. Every other property of a run is stated by a theorem.

## 6. Not modelled, and the plan

What a later version could add to the models: keepnick processes of several clients that want one nick; the nick
that a manager's generator gives together with the index that AddClients read; a property of the home network's
configuration, which a failed `!connect` of its own name deletes (`bot.go:985`), once it is decided what
that command should do. What could be added to the proofs: for LeasesUntilRemoval after a removal, a
promise that excepts only the loans of proxies the removal released for somebody else.

Not modelled, with the reason: **authorisation** is one comparison without state;
**loading the configuration** is I/O, and the checks of its single fields guard nothing later; the
**dialers** of a client run before there is a connection, and any of them may fail in the
model (`ConnectionEnds`, `ConnectReturns`); **!artlist, !artsearch, !help** and the texts of
replies change nothing; **ReleaseFromNetwork** by pointer and **TestConnectivity** have no caller
outside the tests.

Left out for good: the IRC library and the network behind it (any connection may fail
or drop at any time), HTTP and git, message texts, logging, deployment files.
The library's own send
queue delays messages further and is not modelled: all pacing is stated up to the
library's send function.
