------------------------------ MODULE Commands ------------------------------
(***************************************************************************)
(* The operator's commands (internal/bot/bot.go, commands.go, context.go): *)
(* how a handler reads its arguments, fills in what they leave out from    *)
(* the sticky context, and what it then acts on.  !art looks a file up in  *)
(* the catalog of ArtRepo and loads it.                                    *)
(*                                                                         *)
(* Every message is handled in a goroutine of its own.  A handler reads    *)
(* the network and the channel of the context one after the other, each    *)
(* under the lock; !context sets both at once.  Which networks have a      *)
(* manager with connected clients is in Bot: a lookup may find one or not. *)
(***************************************************************************)
EXTENDS ArtRepo, Nicks, Integers, Sequences, SequencesExt

CONSTANTS
    Cmd,        \* goroutines that handle the operator's messages
    Known,      \* names of networks, the home network among them
    Home,       \* cfg.HomeNetwork
    Chan,       \* arguments for which IsChannel holds
    HashChan,   \* those that begin with "#"
    Word,       \* other arguments that are not numbers
    Count,      \* arguments that are numbers
    All, Clear, Ssl,   \* the arguments "all", "clear" and "ssl"
    NicksArg,   \* arguments "nicks:...", each with the strategy it names
    Messages,   \* what the operator sends: an operation and its arguments
    MaxWords,   \* bound on the words of a message of !say
    None        \* the empty string

ASSUME HomeAssumption == Home \in Known
ASSUME ArgumentAssumption ==
    /\ Count \subseteq Nat /\ MaxWords \in Nat
    /\ HashChan \subseteq Chan
    /\ None \notin Known \cup Chan \cup Word \cup Count \cup {All, Clear}
    /\ \A msg \in Messages : msg.args = << >> => msg.op = "part"

\* Names of configured networks are neither channels, numbers nor keywords.
ASSUME KindAssumption ==
    LET kinds == <<Known, Word, Chan, Count, {All}, {Clear}, {Ssl}, DOMAIN NicksArg, {None}>>
    IN  \A i, j \in DOMAIN kinds : i # j => kinds[i] \cap kinds[j] = {}

VARIABLES
    ctx,   \* CommandContext: the network and the channel, or None
    cmd    \* the handlers on their way

NoContext == [network |-> None, channel |-> None]

-----------------------------------------------------------------------------
(* The arguments.                                                          *)
ArgAt(args, i) == IF i = 0 THEN None ELSE args[i]

FirstOf(args, S) == ArgAt(args, SelectInSeq(args, LAMBDA a : a \in S))

LastOf(args, S) == ArgAt(args, SelectLastInSeq(args, LAMBDA a : a \in S))

CountOf(args) == IF LastOf(args, Count) = None THEN 0 ELSE LastOf(args, Count)

(* !join [network] <#channel> [count]: any other word is a network.        *)
JoinArgs(args) ==
    [network |-> FirstOf(args, Known \cup Word \cup {All}),
     channel |-> LastOf(args, Chan),
     count   |-> CountOf(args)]

(* !part [network] <#channel> [count|all].                                 *)
PartArgs(args) ==
    LET last == LastOf(args, Count \cup {All}) IN
    [network |-> FirstOf(args, Known \cup Word),
     channel |-> LastOf(args, Chan),
     count   |-> IF last \in {None, All} THEN 0 ELSE last]

(* !art [network] [#channel] [count] <artname>.                            *)
ArtArgs(args) ==
    LET network == FirstOf(args, Known)
        rest == RemoveFirst(args, network)
    IN  [network |-> network,
         channel |-> LastOf(args, Chan),
         count   |-> CountOf(args),
         name    |-> ArgAt(rest, SelectLastInSeq(rest, LAMBDA a : a \notin Chan \cup Count))]

(* !say [network] [#channel] <count> <message>: the loop ends at a word    *)
(* that is no network, but not once a network was named; from is where the *)
(* message begins.                                                         *)
SayStart == [network |-> None, channel |-> None, count |-> 0, from |-> 1, ended |-> FALSE]

\* Faulty variant: every number is taken for the count.
SayArgRecounting(args, r, i) ==
    CASE r.ended -> r
      [] ~ r.ended /\ args[i] \in Chan -> [r EXCEPT !.channel = args[i]]
      [] ~ r.ended /\ args[i] \in Count -> [r EXCEPT !.count = args[i], !.from = i + 1]
      [] OTHER ->
           IF r.network # None THEN r
           ELSE IF args[i] \in Known THEN [r EXCEPT !.network = args[i]]
           ELSE [r EXCEPT !.from = i, !.ended = TRUE]

SayArg(args, r, i) ==
    CASE r.ended -> r
      [] ~ r.ended /\ args[i] \in Chan -> [r EXCEPT !.channel = args[i]]
      [] ~ r.ended /\ args[i] \in Count /\ r.count = 0 ->
           [r EXCEPT !.count = args[i], !.from = i + 1]
      [] OTHER ->
           IF r.network # None THEN r
           ELSE IF args[i] \in Known THEN [r EXCEPT !.network = args[i]]
           ELSE [r EXCEPT !.from = i, !.ended = TRUE]

\* What the loop has read after each argument.
SayRead(args) ==
    LET read[i \in 0 .. Len(args)] ==
          IF i = 0 THEN SayStart ELSE SayArg(args, read[i - 1], i)
    IN  read

SayArgs(args) ==
    LET r == SayRead(args)[Len(args)]
    IN  [network |-> r.network, channel |-> r.channel, count |-> r.count,
         message |-> SubSeq(args, r.from, Len(args))]

(* !nick, !keepnick, !pm and !raw: only a first argument is a network.     *)
LeadingNetwork(args) == IF args[1] \in Known THEN args[1] ELSE None

(* Two forms look for no network and go to the home client: !part without  *)
(* arguments, and !nick with nothing but the nick.                         *)
ForHomeAlone(msg) ==
    \/ msg.op = "part" /\ msg.args = << >>
    \/ msg.op = "nick" /\ Len(msg.args) = 1

(* !connect <network> <server:port> [nick_prefix|nicks:<strategy>] [count] *)
(* [ssl]: the configuration that is built from what follows the server.    *)
ConnectArgs(args) ==
    LET nicks == LastOf(args, DOMAIN NicksArg) IN
    [nick |-> [strategy |-> IF nicks = None THEN "prefix" ELSE NicksArg[nicks],
               prefix   |-> LET name == LastOf(args, Known \cup Word) IN
                            IF name = None THEN "fun" ELSE name],
     count |-> IF LastOf(args, Count) = None THEN 1 ELSE LastOf(args, Count),
     ssl |-> Contains(args, Ssl)]

(* !context <network> [#channel].                                          *)
ContextArgs(args) ==
    IF args[1] = Clear THEN NoContext
    ELSE [network |-> args[1],
          channel |-> IF Len(args) > 1 /\ args[2] \in HashChan THEN args[2] ELSE None]

-----------------------------------------------------------------------------
(* A handler on its way, with what the message asked for.                  *)
PairOps == {"join", "part", "say", "art"}   \* look for a network and a channel
HomeOps == {"join", "part", "nick"}         \* without a network, for the home client

Asked(msg) ==
    CASE msg.op = "join" -> JoinArgs(msg.args)
      [] msg.op = "part" -> PartArgs(msg.args)
      [] msg.op = "say"  -> SayArgs(msg.args)
      [] msg.op = "art"  -> ArtArgs(msg.args)
      [] msg.op = "context" -> ContextArgs(msg.args)
      [] OTHER -> [network |-> IF ForHomeAlone(msg) THEN None ELSE LeadingNetwork(msg.args),
                   channel |-> None]

Call(msg) ==
    LET asked == Asked(msg) IN
    [op |-> msg.op, alone |-> ForHomeAlone(msg),
     asked |-> [network |-> asked.network, channel |-> asked.channel],
     network |-> IF ForHomeAlone(msg) THEN Home ELSE asked.network,
     channel |-> asked.channel,
     name |-> IF msg.op = "art" THEN asked.name ELSE None,
     stage |-> IF msg.op = "context" THEN "set" ELSE "network",
     during |-> {ctx}, torn |-> FALSE]

Idle == [op |-> "none", alone |-> FALSE, asked |-> NoContext, network |-> None,
         channel |-> None, name |-> None, stage |-> "idle", during |-> {}, torn |-> FALSE]

Init ==
    /\ ArtInit
    /\ ctx = NoContext
    /\ cmd = [k \in Cmd |-> Idle]

Returns(k) == cmd' = [cmd EXCEPT ![k] = Idle]

Goto(k, from, to) == cmd[k].stage = from /\ cmd' = [cmd EXCEPT ![k].stage = to]

(* handlePrivmsg passes a message of the authorised user to its handler.   *)
Send(k, msg) ==
    /\ cmd[k].stage = "idle"
    /\ cmd' = [cmd EXCEPT ![k] = Call(msg)]
    /\ UNCHANGED <<ctx, artVars>>

(* CommandContext.Set and Clear.  The handlers under way remember what the *)
(* context was told to be.                                                 *)
Heard(k, told) ==
    [j \in Cmd |->
        CASE j = k -> Idle
          [] j # k /\ cmd[j].stage \in {"network", "channel"} ->
               [cmd[j] EXCEPT !.during = @ \cup {told},
                              !.torn = @ \/ cmd[j].stage = "channel"]
          [] OTHER -> cmd[j]]

\* Faulty variant: a context without a channel keeps the old channel.
SetContextKeeping(k) ==
    LET told == [network |-> cmd[k].network, channel |-> cmd[k].channel] IN
    /\ cmd[k].stage = "set"
    /\ ctx' = IF told.channel = None /\ told.network # None
              THEN [ctx EXCEPT !.network = told.network] ELSE told
    /\ cmd' = Heard(k, told)
    /\ UNCHANGED artVars

SetContext(k) ==
    LET told == [network |-> cmd[k].network, channel |-> cmd[k].channel] IN
    /\ cmd[k].stage = "set"
    /\ ctx' = told
    /\ cmd' = Heard(k, told)
    /\ UNCHANGED artVars

(* ResolveNetwork.                                                         *)
ReadNetwork(k) ==
    /\ cmd[k].stage = "network"
    /\ cmd' = [cmd EXCEPT
         ![k].network = IF @ = None THEN ctx.network ELSE @,
         ![k].stage = IF cmd[k].op \in PairOps THEN "channel" ELSE "route"]
    /\ UNCHANGED <<ctx, artVars>>

(* ResolveChannel, and the checks that follow.                             *)
ReadChannel(k) ==
    LET channel == IF cmd[k].channel = None THEN ctx.channel ELSE cmd[k].channel
        missing == \/ channel = None
                   \/ cmd[k].op \in {"say", "art"} /\ cmd[k].network = None
    IN
    /\ cmd[k].stage = "channel"
    /\ IF missing THEN Returns(k)
       ELSE cmd' = [cmd EXCEPT ![k].channel = channel,
                               ![k].stage = IF cmd[k].op = "art" THEN "find" ELSE "route"]
    /\ UNCHANGED <<ctx, artVars>>

(* Catalog.FindByName.                                                     *)
FindArt(k) ==
    /\ IF cmd[k].name \in catalog THEN Goto(k, "find", "route")
       ELSE cmd[k].stage = "find" /\ Returns(k)
    /\ UNCHANGED <<ctx, artVars>>

(* The handler turns to the home client, or to the clients of the network, *)
(* of which there may be none; !art loads the file before.                 *)
RouteHome(k) ==
    /\ cmd[k].op \in HomeOps /\ cmd[k].network \in {None, Home}
    /\ cmd[k].stage = "route"
    /\ cmd' = [cmd EXCEPT ![k].network = Home, ![k].stage = "act"]
    /\ UNCHANGED <<ctx, artVars>>

RouteNetwork(k) ==
    /\ ~ (cmd[k].op \in HomeOps /\ cmd[k].network \in {None, Home})
    /\ \/ cmd[k].network # None /\ Goto(k, "route", IF cmd[k].op = "art" THEN "load" ELSE "act")
       \/ cmd[k].stage = "route" /\ Returns(k)
    /\ UNCHANGED <<ctx, artVars>>

(* LoadArt: the file is opened now.                                        *)
LoadArt(k) ==
    /\ Goto(k, "load", IF cmd[k].name \in disk THEN "act" ELSE "failed")
    /\ UNCHANGED <<ctx, artVars>>

(* Clients join, part, speak or play; the reply goes out.                  *)
Reply(k) ==
    /\ cmd[k].stage \in {"act", "failed"}
    /\ Returns(k)
    /\ UNCHANGED <<ctx, artVars>>

-----------------------------------------------------------------------------
ProcessRestarts ==
    /\ Restart
    /\ ctx' = NoContext
    /\ cmd' = [k \in Cmd |-> Idle]

Handle(k) ==
    \/ SetContext(k)
    \/ ReadNetwork(k)
    \/ ReadChannel(k)
    \/ FindArt(k)
    \/ RouteHome(k)
    \/ RouteNetwork(k)
    \/ LoadArt(k)
    \/ Reply(k)

Next ==
    \/ \E k \in Cmd : Handle(k) \/ \E msg \in Messages : Send(k, msg)
    \/ ArtNext /\ UNCHANGED <<ctx, cmd>>
    \/ ProcessRestarts

Spec == Init /\ [][Next]_<<ctx, cmd, artVars>>

-----------------------------------------------------------------------------
(* What a command does not name it takes from where a single !context put  *)
(* the operator: one whose answer had come before the command was sent, or *)
(* a later one; what it names overrides that.  A !context handled between  *)
(* the two reads of the context pairs the network of one with the channel  *)
(* of the other (context.go:49-65).  Two forms read no network: a bare     *)
(* !part has the home client leave the channel of the context, whatever    *)
(* network that is on, and !nick with a nick alone renames the home client *)
(* (bot.go:443-449, 503-506), against README.md:141 and PLAN.md:224-226.   *)
ActsInOneContext ==
    \A k \in Cmd : cmd[k].stage = "act" =>
        \E c, d \in cmd[k].during :
            /\ cmd[k].torn \/ c = d
            /\ \/ cmd[k].network = cmd[k].asked.network /\ ~ cmd[k].alone
               \/ cmd[k].asked.network = None /\ ~ cmd[k].alone /\ cmd[k].network = c.network
               \/ /\ cmd[k].network = Home /\ cmd[k].op \in HomeOps
                  /\ cmd[k].alone \/ (cmd[k].asked.network = None /\ c.network = None)
            /\ cmd[k].op \in PairOps =>
                  cmd[k].channel = IF cmd[k].asked.channel = None
                                   THEN d.channel ELSE cmd[k].asked.channel

(* What !art finds it can load, across restarts, failed and killed clones  *)
(* and pulls, unless the updater changed the disk since the catalog was    *)
(* made: nobody makes it anew (catalog.go:44, repo.go:80).                 *)
FoundArtLoads == \A k \in Cmd : cmd[k].stage = "failed" => pulled

(* The rest is about what is computed, not about states: it is stated of   *)
(* the initial ones.                                                       *)

(* The documented forms of !join, !part, !art, !connect and !say are read  *)
(* as they are written.  A message of !say may hold anything once it began *)
(* with a plain word, but if the network was named it must name no channel *)
(* and, after a count of 0, no number (bot.go:652-671).                    *)
Given(x) == IF x = None THEN << >> ELSE <<x>>

Sayable(network, count, words) ==
    IF network = None THEN words[1] \in Word
    ELSE \A i \in DOMAIN words :
            words[i] \in Word \cup Known \cup (IF count = 0 THEN {} ELSE Count)

Texts == UNION {[1 .. n -> Word \cup Known \cup Chan \cup Count] : n \in 1 .. MaxWords}

FormsAreRead == Init =>
    \A network \in Known \cup {None}, channel \in Chan \cup {None}, count \in Count :
        LET place == Given(network) \o Given(channel) IN
        /\ \A words \in Texts : Sayable(network, count, words) =>
              SayArgs(place \o <<count>> \o words) =
                [network |-> network, channel |-> channel, count |-> count, message |-> words]
        /\ \A art \in Word :
              ArtArgs(place \o <<count, art>>) =
                [network |-> network, channel |-> channel, count |-> count, name |-> art]
        /\ channel # None =>
              /\ JoinArgs(place \o <<count>>) =
                    [network |-> network, channel |-> channel, count |-> count]
              /\ PartArgs(place \o <<All>>) =
                    [network |-> network, channel |-> channel, count |-> 0]
        /\ \A name \in Word \cup {None} :
              ConnectArgs(Given(name) \o <<count, Ssl>>) =
                [nick |-> [strategy |-> "prefix", prefix |-> IF name = None THEN "fun" ELSE name],
                 count |-> count, ssl |-> TRUE]

(* A network that Validate accepts, or that !connect configures, can start *)
(* if its server is an address and its wordlist loads.  With a manager the *)
(* exception is a strategy "prefix" whose prefix is in nick_prefix, where  *)
(* Validate looks for it and EffectiveNickConfig does not (config.go:61-71, *)
(* 224-227).  The home network only reads nick_prefix (bot.go:62): there   *)
(* the exception is any strategy without it, although config.go:49 calls   *)
(* nick_prefix a fallback.                                                 *)
Lists == {Embedded, <<"word">>, <<"word", "empty", "word">>}

NetworkConfigs ==
    [servers : {<< >>, <<"host">>, <<"host:port">>, <<"host:junk">>},
     nickPrefix : {0, 3},
     nick : [strategy : {"", "prefix", "random", "wordlist", "other"},
             prefix : {0, 3}, length : {0}, wordlist : Lists]]

Loads(nick) == nick.strategy # "wordlist" \/ nick.wordlist # <<"word">>

ConfigsStart == Init =>
    /\ \A net \in NetworkConfigs :
         ValidNetwork(net) /\ ServerParses(net.servers[1]) /\ Loads(net.nick) =>
            /\ CanStart(net) \/ (net.nick.strategy = "prefix" /\ net.nick.prefix = 0)
            /\ HomeStarts(net) \/ (net.nick.strategy # "" /\ net.nickPrefix = 0)
    /\ \A strategy \in {"prefix", "random", "wordlist"} :
         NewGenerator([strategy |-> strategy, prefix |-> 3, length |-> 0, wordlist |-> Embedded])
            = strategy

(* A random or wordlist generator gives a nick longer than the configured  *)
(* length only if the prefix leaves a random text no room (random.go:30-32) *)
(* or if every draw of the call had been given before, and the index comes *)
(* after the truncation (nick.go:60-63).  With a wordlist prefix that      *)
(* fills the length all nicks but the first are such, against what         *)
(* nick_test.go:202-216 shows of no prefix.  The strategy "prefix" ignores *)
(* the length (prefix.go:15-17).                                           *)
FillsLength(nick) == nick.prefix >= NickLength(nick)

Exhausted(calls, given, i) ==
    \A t \in 1 .. MaxTries : \E j \in 1 .. i - 1 : given[j].nick = calls[i].draws[t]

LongOnlyIfForced(nick, calls) ==
    LET given == GivenNicks(calls) IN
    \A i \in DOMAIN calls :
        /\ Len(given[i].nick) > NickLength(nick) =>
              \/ nick.strategy = "random" /\ FillsLength(nick)
              \/ Exhausted(calls, given, i)
        /\ nick.strategy = "wordlist" /\ FillsLength(nick) /\ i > 1 =>
              Len(given[i].nick) > NickLength(nick)

DrawsOf(nick) ==
    IF nick.strategy = "random"
    THEN {RandomDraw(nick, text) : text \in {[i \in 1 .. 9 |-> x] : x \in {"a", "b"}}}
    ELSE {WordlistDraw(nick, word) : word \in Formatted(<<"a">>, <<"n">>)}

NickCalls(nick) == [draws : [1 .. MaxTries + 1 -> DrawsOf(nick)], index : {"0"}]

NicksFit == Init =>
    \A nick \in [strategy : {"random", "wordlist"}, prefix : 0 .. 3, length : -1 .. 3] :
        \A calls \in [1 .. 2 -> NickCalls(nick)] : LongOnlyIfForced(nick, calls)

(* A random or wordlist generator gives a nick twice only when all its     *)
(* tries failed: the index at the end does not make it new (nick.go:60-63), *)
(* although nick.go:33-34 and 67-68 promise that nicks are unique.  Those  *)
(* of the strategy "prefix" are not compared: they are as unique as the    *)
(* indexes, which are the numbers of the clients.                          *)
Calls ==
    [draws : [1 .. MaxTries + 1 -> {<<"a">>, <<"a", 0>>, <<"a", 1>>}], index : {0, 1}]

RepeatsAreFallbacks == Init =>
    \A calls \in [1 .. 3 -> Calls] :
        LET given == GivenNicks(calls) IN
        \A i, j \in 1 .. 3 :
            i < j /\ given[i].nick = given[j].nick => given[j].fallback
=============================================================================
