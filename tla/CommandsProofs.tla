--------------------------- MODULE CommandsProofs ----------------------------
(***************************************************************************)
(* The facts about the handlers of the operator's commands, for any        *)
(* messages, files and number of handlers.                                 *)
(*                                                                         *)
(* FoundArtLoads: until the updater changes the disk the catalog only      *)
(* names files that are there, and a handler that found its file still     *)
(* finds it in the catalog: the next catalog is made after a restart, and  *)
(* no handler survives one.                                                *)
(*                                                                         *)
(* ActsInOneContext: a handler that is to read the context knows the       *)
(* present one, and between its two reads a network it took from there is  *)
(* that of the present context, unless it was torn.                        *)
(*                                                                         *)
(* NicksFit, ConfigsStart, RepeatsAreFallbacks and FormsAreRead are about  *)
(* what is computed.  Of the forms of the commands, what FirstOf and       *)
(* LastOf find depends on the set of the arguments alone (Values), where   *)
(* each kind is there once (Only); the loop of !say is followed argument   *)
(* by argument (SayRead).                                                  *)
(***************************************************************************)
EXTENDS Commands, SequenceTheorems, WellFoundedInduction, TLAPS

allVars == <<ctx, cmd, artVars>>

Fields == {"op", "network", "channel", "name", "alone", "asked", "stage", "during", "torn"}

(* Handlers are records with these fields.                                 *)
Shape == DOMAIN cmd = Cmd /\ \A k \in Cmd : DOMAIN cmd[k] = Fields

(* The catalog is of this run of the process, and so are the handlers.     *)
CatalogOnDisk ==
    /\ repo \in {"init", "refresh", "off"} => catalog = {}
    /\ ~ pulled => catalog \subseteq disk

LEMMA InitCatalog == Init => CatalogOnDisk
BY DEF Init, ArtInit, CatalogOnDisk

LEMMA StepCatalog == CatalogOnDisk /\ [Next]_allVars => CatalogOnDisk'
<1> SUFFICES ASSUME CatalogOnDisk, [Next]_allVars PROVE CatalogOnDisk'
    OBVIOUS
<1> USE DEF CatalogOnDisk
<1>1. ASSUME UNCHANGED artVars PROVE CatalogOnDisk'
    BY <1>1 DEF artVars, diskVars
<1>2. ASSUME NEW k \in Cmd, Handle(k) PROVE UNCHANGED artVars
    BY <1>2 DEF Handle, SetContext, ReadNetwork, ReadChannel, FindArt, RouteHome,
                RouteNetwork, LoadArt, Reply
<1>3. ASSUME NEW k \in Cmd, NEW msg \in Messages, Send(k, msg) PROVE UNCHANGED artVars
    BY <1>3 DEF Send
<1>4. CASE Push
    BY <1>4 DEF Push, diskVars
<1>5. CASE InitClone
    BY <1>5 DEF InitClone, diskVars
<1>6. CASE InitPull
    BY <1>6 DEF InitPull, GitPull, diskVars
<1>7. CASE Refresh
    BY <1>7 DEF Refresh, diskVars
<1>8. CASE Pull
    BY <1>8 DEF Pull, GitPull, diskVars
<1>9. CASE Restart
    BY <1>9 DEF Restart, diskVars
<1>10. CASE UNCHANGED allVars
    BY <1>1, <1>10 DEF allVars
<1>11. QED BY <1>1, <1>2, <1>3, <1>4, <1>5, <1>6, <1>7, <1>8, <1>9, <1>10
              DEF Next, ArtNext, ProcessRestarts

-----------------------------------------------------------------------------
LEMMA InitShape == Init => Shape
BY DEF Init, Shape, Idle, Fields

(* One handler changes some of its fields, or becomes another handler.     *)
LEMMA StepShape == Shape /\ [Next]_allVars => Shape'
<1> SUFFICES ASSUME Shape, [Next]_allVars PROVE Shape'
    OBVIOUS
<1> USE DEF Shape
<1>i. DOMAIN Idle = Fields
    BY DEF Idle, Fields
<1>r. ASSUME NEW k \in Cmd, Returns(k) PROVE Shape'
    BY <1>r, <1>i DEF Returns
<1>g. ASSUME NEW k \in Cmd, NEW from, NEW to, Goto(k, from, to) PROVE Shape'
    BY <1>g DEF Goto
<1>1. ASSUME NEW k \in Cmd, NEW msg \in Messages, Send(k, msg) PROVE Shape'
  <2>1. DOMAIN Call(msg) = Fields
      BY DEF Call, Fields
  <2>2. QED BY <1>1, <2>1 DEF Send
<1>2. ASSUME NEW k \in Cmd, SetContext(k) PROVE Shape'
    BY <1>2, <1>i DEF SetContext, Heard
<1>3. ASSUME NEW k \in Cmd, ReadNetwork(k) PROVE Shape'
    BY <1>3 DEF ReadNetwork
<1>4. ASSUME NEW k \in Cmd, ReadChannel(k) PROVE Shape'
    BY <1>4, <1>r DEF ReadChannel
<1>5. ASSUME NEW k \in Cmd, FindArt(k) PROVE Shape'
    BY <1>5, <1>r, <1>g DEF FindArt
<1>6. ASSUME NEW k \in Cmd, RouteHome(k) PROVE Shape'
    BY <1>6 DEF RouteHome
<1>7. ASSUME NEW k \in Cmd, RouteNetwork(k) PROVE Shape'
    BY <1>7, <1>r, <1>g DEF RouteNetwork
<1>8. ASSUME NEW k \in Cmd, LoadArt(k) PROVE Shape'
    BY <1>8, <1>g DEF LoadArt
<1>9. ASSUME NEW k \in Cmd, Reply(k) PROVE Shape'
    BY <1>9, <1>r DEF Reply
<1>10. CASE ProcessRestarts
    BY <1>10, <1>i DEF ProcessRestarts
<1>11. CASE ArtNext /\ UNCHANGED <<ctx, cmd>>
    BY <1>11
<1>12. CASE UNCHANGED allVars
    BY <1>12 DEF allVars
<1>13. QED BY <1>1, <1>2, <1>3, <1>4, <1>5, <1>6, <1>7, <1>8, <1>9, <1>10, <1>11, <1>12
              DEF Next, Handle

-----------------------------------------------------------------------------
(* A file that was found is in the catalog; one that could not be loaded   *)
(* was changed by the updater.                                             *)
Found(h) == h.stage = "load" \/ (h.stage = "route" /\ h.op = "art")

HandlersFound ==
    \A k \in Cmd : /\ Found(cmd[k]) => cmd[k].name \in catalog
                   /\ cmd[k].stage = "failed" => pulled

ArtInv == Shape /\ CatalogOnDisk /\ HandlersFound

(* No file is found while there is no catalog, so a new catalog takes no   *)
(* file from a handler.                                                    *)
LEMMA ArtSteps ==
    ASSUME HandlersFound, CatalogOnDisk, ArtNext, UNCHANGED cmd
    PROVE  HandlersFound'
<1>1. CASE Refresh
    BY <1>1 DEF Refresh, HandlersFound, CatalogOnDisk, Found
<1>2. CASE Pull
    BY <1>2 DEF Pull, HandlersFound, Found
<1>3. CASE Push
    BY <1>3 DEF Push, HandlersFound, Found
<1>4. CASE InitClone
    BY <1>4 DEF InitClone, HandlersFound, Found
<1>5. CASE InitPull
    BY <1>5 DEF InitPull, HandlersFound, Found
<1>6. QED BY <1>1, <1>2, <1>3, <1>4, <1>5 DEF ArtNext

(* A step of a handler leaves the catalog alone, so that it is enough to   *)
(* look at what became of the handler.                                     *)
Sound(h) == (Found(h) => h.name \in catalog) /\ (h.stage = "failed" => pulled)

LEMMA HandlerSteps ==
    ASSUME ArtInv, NEW k \in Cmd, Handle(k) \/ \E msg \in Messages : Send(k, msg)
    PROVE  HandlersFound'
<1> USE DEF Shape, Fields
<1>a. Shape /\ CatalogOnDisk /\ \A j \in Cmd : Sound(cmd[j])
    BY DEF ArtInv, HandlersFound, Sound
<1>u. UNCHANGED artVars
    BY DEF Handle, SetContext, ReadNetwork, ReadChannel, FindArt, RouteHome,
           RouteNetwork, LoadArt, Reply, Send
<1>s. SUFFICES \A j \in Cmd : Sound(cmd'[j])
    BY <1>u DEF HandlersFound, Sound, Found, artVars
<1>i. Sound(Idle)
    BY DEF Sound, Found, Idle
<1>r. ASSUME Returns(k) PROVE \A j \in Cmd : Sound(cmd'[j])
    BY <1>r, <1>a, <1>i DEF Returns
<1>1. ASSUME NEW msg \in Messages, Send(k, msg) PROVE \A j \in Cmd : Sound(cmd'[j])
  <2>1. Call(msg).stage \in {"set", "network"}
      BY DEF Call
  <2>2. QED BY <1>1, <1>a, <2>1 DEF Send, Sound, Found
<1>2. ASSUME SetContext(k) PROVE \A j \in Cmd : Sound(cmd'[j])
    BY <1>2, <1>a, <1>i DEF SetContext, Heard, Sound, Found
<1>3. ASSUME ReadNetwork(k) PROVE \A j \in Cmd : Sound(cmd'[j])
    BY <1>3, <1>a DEF ReadNetwork, Sound, Found, PairOps
<1>4. ASSUME ReadChannel(k) PROVE \A j \in Cmd : Sound(cmd'[j])
    BY <1>4, <1>a, <1>r DEF ReadChannel, Sound, Found
<1>5. ASSUME FindArt(k) PROVE \A j \in Cmd : Sound(cmd'[j])
    BY <1>5, <1>a, <1>r DEF FindArt, Goto, Sound, Found
<1>6. ASSUME RouteHome(k) PROVE \A j \in Cmd : Sound(cmd'[j])
    BY <1>6, <1>a DEF RouteHome, Sound, Found
<1>7. ASSUME RouteNetwork(k) PROVE \A j \in Cmd : Sound(cmd'[j])
    BY <1>7, <1>a, <1>r DEF RouteNetwork, Goto, Sound, Found
<1>8. ASSUME LoadArt(k) PROVE \A j \in Cmd : Sound(cmd'[j])
    BY <1>8, <1>a DEF LoadArt, Goto, Sound, Found, CatalogOnDisk
<1>9. ASSUME Reply(k) PROVE \A j \in Cmd : Sound(cmd'[j])
    BY <1>9, <1>r DEF Reply
<1>10. QED BY <1>1, <1>2, <1>3, <1>4, <1>5, <1>6, <1>7, <1>8, <1>9 DEF Handle

(* An !art that found its file fails to load it only after the updater     *)
(* changed the disk (bot.go:787-808), for any files, messages and number   *)
(* of handlers, and across restarts, failed and killed clones.             *)
THEOREM FoundFilesLoad == Spec => []FoundArtLoads
<1>1. Init => ArtInv
  <2>1. Init => HandlersFound
      BY DEF Init, Idle, HandlersFound, Found
  <2>2. QED BY <2>1, InitShape, InitCatalog DEF ArtInv
<1>2. ArtInv /\ [Next]_allVars => ArtInv'
  <2> SUFFICES ASSUME ArtInv, [Next]_allVars PROVE HandlersFound'
      BY StepShape, StepCatalog DEF ArtInv
  <2>1. ASSUME NEW k \in Cmd, Handle(k) \/ \E msg \in Messages : Send(k, msg)
        PROVE  HandlersFound'
      BY <2>1, HandlerSteps
  <2>2. CASE ArtNext /\ UNCHANGED <<ctx, cmd>>
      BY <2>2, ArtSteps DEF ArtInv
  <2>3. CASE ProcessRestarts
      BY <2>3 DEF ProcessRestarts, Idle, HandlersFound, Found
  <2>4. CASE UNCHANGED allVars
      BY <2>4 DEF allVars, artVars, ArtInv, HandlersFound, Found
  <2>5. QED BY <2>1, <2>2, <2>3, <2>4 DEF Next
<1>3. ArtInv => FoundArtLoads
    BY DEF ArtInv, HandlersFound, FoundArtLoads
<1>4. QED BY <1>1, <1>2, <1>3, PTL DEF Spec, allVars

-----------------------------------------------------------------------------
(* What a handler has of what it was asked for and of the contexts.        *)
NetworkFrom(h, c) ==
    \/ h.alone /\ h.network = Home
    \/ ~ h.alone /\ h.network = IF h.asked.network = None THEN c.network ELSE h.asked.network

ChannelFrom(h, d) ==
    h.channel = IF h.asked.channel = None THEN d.channel ELSE h.asked.channel

OfContexts(h) ==
    \E c, d \in h.during :
        /\ h.torn \/ c = d
        /\ NetworkFrom(h, c)
        /\ h.op \in PairOps => ChannelFrom(h, d)

(* The same after routing, where no network has become the home network.   *)
NetworkRouted(h, c) ==
    \/ h.network = h.asked.network /\ ~ h.alone
    \/ h.asked.network = None /\ ~ h.alone /\ h.network = c.network
    \/ /\ h.network = Home /\ h.op \in HomeOps
       /\ h.alone \/ (h.asked.network = None /\ c.network = None)

RoutedOfContexts(h) ==
    \E c, d \in h.during :
        /\ h.torn \/ c = d
        /\ NetworkRouted(h, c)
        /\ h.op \in PairOps => ChannelFrom(h, d)

Present(h) == h.stage \in {"network", "channel"} => ctx \in h.during

Alone(h) == h.alone => h.op \in HomeOps

Unread(h) ==
    h.stage = "network" =>
        /\ h.network = IF h.alone THEN Home ELSE h.asked.network
        /\ h.channel = h.asked.channel

HalfRead(h) ==
    h.stage = "channel" =>
        /\ h.channel = h.asked.channel
        /\ \E c \in h.during : (h.torn \/ c = ctx) /\ NetworkFrom(h, c)

Read(h) == h.stage \in {"find", "route", "load"} => OfContexts(h)

Acts(h) == h.stage = "act" => RoutedOfContexts(h)

Follows(h) == Present(h) /\ Alone(h) /\ Unread(h) /\ HalfRead(h) /\ Read(h) /\ Acts(h)

ContextInv == Shape /\ \A k \in Cmd : Follows(cmd[k])

LEMMA IdleFollows == Follows(Idle) /\ Follows(Idle)'
BY DEF Idle, Follows, Present, Alone, Unread, HalfRead, Read, Acts

(* What the routing has to do, or to leave as it is.                       *)
LEMMA Routed ==
    ASSUME NEW h, OfContexts(h), Alone(h)
    PROVE  RoutedOfContexts(h)
BY DEF OfContexts, RoutedOfContexts, NetworkFrom, NetworkRouted, Alone

(* One step of one handler, with the context as it is.                     *)
LEMMA HandlerFollows ==
    ASSUME ContextInv, NEW k \in Cmd, UNCHANGED ctx,
           DOMAIN cmd' = Cmd, \A j \in Cmd \ {k} : cmd'[j] = cmd[j],
           Follows(cmd'[k])
    PROVE  \A j \in Cmd : Follows(cmd[j])'
BY DEF ContextInv, Follows, Present, Alone, Unread, HalfRead, Read, Acts,
       OfContexts, RoutedOfContexts

LEMMA ContextSteps ==
    ASSUME ContextInv, NEW k \in Cmd, Handle(k) \/ \E msg \in Messages : Send(k, msg)
    PROVE  \A j \in Cmd : Follows(cmd[j])'
<1> USE DEF Shape, Fields
<1>a. Shape /\ Follows(cmd[k])
    BY DEF ContextInv
<1> DEFINE Goal == \A j \in Cmd : Follows(cmd[j])'
<1>r. ASSUME Returns(k), UNCHANGED ctx PROVE Goal
    BY <1>r, <1>a, IdleFollows, HandlerFollows DEF Returns
<1>g. ASSUME NEW from, NEW to \in {"find", "route", "load"}, Goto(k, from, to), UNCHANGED ctx,
             from \in {"find", "route"}
      PROVE  Goal
  <2>1. Follows(cmd'[k])
      BY <1>g, <1>a DEF Goto, Follows, Present, Alone, Unread, HalfRead, Read, Acts,
                        OfContexts, NetworkFrom, ChannelFrom
  <2>2. QED BY <1>g, <1>a, <2>1, HandlerFollows DEF Goto
<1>e. ASSUME NEW from, NEW to \in {"act", "failed"}, Goto(k, from, to), UNCHANGED ctx,
             from \in {"route", "load"}
      PROVE  Goal
  <2>1. Follows(cmd'[k])
    <3>1. RoutedOfContexts(cmd[k])
        BY <1>e, <1>a, Routed DEF Goto, Follows, Read
    <3>2. QED BY <1>e, <1>a, <3>1 DEF Goto, Follows, Present, Alone, Unread, HalfRead, Read,
                                   Acts, RoutedOfContexts, NetworkRouted, ChannelFrom
  <2>2. QED BY <1>e, <1>a, <2>1, HandlerFollows DEF Goto
<1>1. ASSUME NEW msg \in Messages, Send(k, msg) PROVE Goal
  <2>1. Follows(Call(msg))
    <3>1. ForHomeAlone(msg) => msg.op \in HomeOps
        BY DEF ForHomeAlone, HomeOps
    <3>2. QED BY <3>1 DEF Call, Follows, Present, Alone, Unread, HalfRead, Read, Acts
  <2>2. QED BY <1>1, <1>a, <2>1, HandlerFollows DEF Send
<1>2. ASSUME SetContext(k) PROVE Goal
  <2> SUFFICES ASSUME NEW j \in Cmd PROVE Follows(cmd[j])'
      OBVIOUS
  <2> DEFINE hears == j # k /\ cmd[j].stage \in {"network", "channel"}
  <2>0. DOMAIN cmd[j] = Fields /\ Follows(cmd[j])
      BY DEF ContextInv
  <2>1. CASE j = k
      BY <1>2, <2>1, IdleFollows DEF SetContext, Heard, Follows, Present, Alone, Unread,
         HalfRead, Read, Acts, OfContexts, RoutedOfContexts
  <2>2. CASE hears
    <3>1. cmd'[j] = [cmd[j] EXCEPT !.during = @ \cup {ctx'},
                                   !.torn = @ \/ cmd[j].stage = "channel"]
        BY <1>2, <2>2 DEF SetContext, Heard
    <3>2. /\ cmd'[j].stage = cmd[j].stage /\ cmd'[j].during = cmd[j].during \cup {ctx'}
          /\ cmd'[j].alone = cmd[j].alone /\ cmd'[j].asked = cmd[j].asked
          /\ cmd'[j].network = cmd[j].network /\ cmd'[j].channel = cmd[j].channel
          /\ cmd'[j].op = cmd[j].op
        BY <2>0, <3>1
    <3>3. cmd'[j].torn = (cmd[j].torn \/ cmd[j].stage = "channel")
        BY <2>0, <3>1
    <3>4. /\ Present(cmd[j])' /\ Alone(cmd[j])' /\ Unread(cmd[j])'
          /\ Read(cmd[j])' /\ Acts(cmd[j])'
        BY <2>0, <2>2, <3>2 DEF Follows, Present, Alone, Unread, Read, Acts
    <3>5. ASSUME cmd'[j].stage = "channel" PROVE HalfRead(cmd[j])'
      <4>1. cmd[j].stage = "channel"
          BY <3>2, <3>5
      <4>2. PICK c \in cmd[j].during : NetworkFrom(cmd[j], c)
          BY <2>0, <4>1 DEF Follows, HalfRead
      <4>3. c \in cmd'[j].during /\ NetworkFrom(cmd'[j], c)
          BY <3>2, <4>2 DEF NetworkFrom
      <4>4. cmd'[j].torn /\ cmd'[j].channel = cmd'[j].asked.channel
          BY <2>0, <3>2, <3>3, <4>1 DEF Follows, HalfRead
      <4>5. QED BY <4>3, <4>4 DEF HalfRead
    <3>6. ASSUME cmd'[j].stage # "channel" PROVE HalfRead(cmd[j])'
        BY <3>6 DEF HalfRead
    <3>7. QED BY <3>4, <3>5, <3>6 DEF Follows
  <2>3. CASE j # k /\ ~ hears
    <3>1. cmd'[j] = cmd[j] /\ cmd[j].stage \notin {"network", "channel"}
        BY <1>2, <2>3 DEF SetContext, Heard
    <3>2. QED BY <2>0, <3>1 DEF Follows, Present, Alone, Unread, HalfRead, Read, Acts,
                                OfContexts, RoutedOfContexts
  <2>4. QED BY <2>1, <2>2, <2>3
<1>3. ASSUME ReadNetwork(k) PROVE Goal
  <2>1. Follows(cmd'[k])
      BY <1>3, <1>a DEF ReadNetwork, Follows, Present, Alone, Unread, HalfRead, Read, Acts,
                        OfContexts, PairOps
  <2>2. QED BY <1>3, <1>a, <2>1, HandlerFollows DEF ReadNetwork
<1>4. ASSUME ReadChannel(k) PROVE Goal
  <2>1. ASSUME ~ Returns(k) PROVE Follows(cmd'[k])
      BY <2>1, <1>4, <1>a DEF ReadChannel, Follows, Present, Alone, Unread, HalfRead, Read,
                              Acts, OfContexts, PairOps
  <2>2. QED BY <1>4, <1>a, <1>r, <2>1, HandlerFollows DEF ReadChannel
<1>5. ASSUME FindArt(k) PROVE Goal
    BY <1>5, <1>r, <1>g DEF FindArt
<1>6. ASSUME RouteHome(k) PROVE Goal
  <2>1. Follows(cmd'[k])
      BY <1>6, <1>a DEF RouteHome, Follows, Present, Alone, Unread, HalfRead, Read, Acts,
                        OfContexts, RoutedOfContexts
  <2>2. QED BY <1>6, <1>a, <2>1, HandlerFollows DEF RouteHome
<1>7. ASSUME RouteNetwork(k) PROVE Goal
    BY <1>7, <1>r, <1>g, <1>e DEF RouteNetwork
<1>8. ASSUME LoadArt(k) PROVE Goal
    BY <1>8, <1>e DEF LoadArt
<1>9. ASSUME Reply(k) PROVE Goal
    BY <1>9, <1>r DEF Reply
<1>10. QED BY <1>1, <1>2, <1>3, <1>4, <1>5, <1>6, <1>7, <1>8, <1>9 DEF Handle

(* What a command does not name it takes from one context, unless a        *)
(* !context came between its two reads (context.go:49-65), and what it     *)
(* names overrides the context, for any messages and number of handlers;   *)
(* a bare !part and a !nick with one argument are the home client's.       *)
THEOREM CommandsKeepTheirContext == Spec => []ActsInOneContext
<1>1. Init => ContextInv
  <2>1. Init => \A k \in Cmd : Follows(cmd[k])
      BY IdleFollows DEF Init
  <2>2. QED BY <2>1, InitShape DEF ContextInv
<1>2. ContextInv /\ [Next]_allVars => ContextInv'
  <2> SUFFICES ASSUME ContextInv, [Next]_allVars PROVE \A j \in Cmd : Follows(cmd[j])'
      BY StepShape DEF ContextInv
  <2>1. ASSUME NEW k \in Cmd, Handle(k) \/ \E msg \in Messages : Send(k, msg)
        PROVE  \A j \in Cmd : Follows(cmd[j])'
      BY <2>1, ContextSteps
  <2>2. CASE UNCHANGED <<ctx, cmd>>
      BY <2>2 DEF ContextInv, Follows, Present, Alone, Unread, HalfRead, Read, Acts,
                  OfContexts, RoutedOfContexts
  <2>3. CASE ProcessRestarts
      BY <2>3, IdleFollows DEF ProcessRestarts
  <2>4. QED BY <2>1, <2>2, <2>3 DEF Next, allVars
<1>3. ContextInv => ActsInOneContext
    BY DEF ContextInv, Follows, Acts, RoutedOfContexts, NetworkRouted, ChannelFrom, ActsInOneContext
<1>4. QED BY <1>1, <1>2, <1>3, PTL DEF Spec, allVars

-----------------------------------------------------------------------------
(* What is computed once: nicks and configurations.                        *)
LEMMA MinOfTwo ==
    ASSUME NEW a \in Nat, NEW b \in Nat
    PROVE  Min({a, b}) = IF a <= b THEN a ELSE b
<1> DEFINE m == IF a <= b THEN a ELSE b
<1>1. m \in {a, b} /\ \A y \in {a, b} : m =< y
    OBVIOUS
<1>2. \A x \in {a, b} : (\A y \in {a, b} : x =< y) => x = m
    OBVIOUS
<1> HIDE DEF m
<1>3. (CHOOSE x \in {a, b} : \A y \in {a, b} : x =< y) = m
    BY <1>1, <1>2
<1>4. QED BY <1>3 DEF Min, m

(* A network that Validate accepts can start, unless it fails for one of   *)
(* the reasons ConfigsStart names: the server, the wordlist, or a prefix   *)
(* that is looked for in another field, which for the home network is      *)
(* always nick_prefix.                                                     *)
THEOREM ValidConfigsStart == Spec => []ConfigsStart
<1>1. CustomLoads(<<"word", "empty", "word">>)
    <2> DEFINE lines == <<"word", "empty", "word">>
    <2>1. /\ 1 \in DOMAIN lines /\ 2 \in DOMAIN lines /\ 3 \in DOMAIN lines
          /\ lines[1] = "word" /\ lines[2] = "empty" /\ lines[3] = "word"
        OBVIOUS
    <2>2. 1 < 2 /\ 2 < 3
        OBVIOUS
    <2> HIDE DEF lines
    <2>3. CustomLoads(lines)
        BY <2>1, <2>2 DEF CustomLoads
    <2>4. QED BY <2>3 DEF lines
<1>2. ASSUME NEW net \in NetworkConfigs, ValidNetwork(net), ServerParses(net.servers[1]),
             Loads(net.nick)
      PROVE  /\ CanStart(net) \/ (net.nick.strategy = "prefix" /\ net.nick.prefix = 0)
             /\ HomeStarts(net) \/ (net.nick.strategy # "" /\ net.nickPrefix = 0)
    <2> DEFINE nick == EffectiveNickConfig(net)
    <2>1. /\ net.nick \in [strategy : {"", "prefix", "random", "wordlist", "other"},
                           prefix : {0, 3}, length : {0}, wordlist : Lists]
          /\ net.nickPrefix \in {0, 3}
        BY DEF NetworkConfigs
    <2>2. CASE net.nick.strategy = ""
        <3>1. nick.strategy = "prefix" /\ nick.prefix = net.nickPrefix
            BY <2>1, <2>2 DEF EffectiveNickConfig
        <3>2. nick.prefix > 0
            BY <1>2, <2>1, <3>1 DEF ValidNetwork
        <3>3. NewGenerator(nick) = "prefix"
            BY <3>1, <3>2 DEF NewGenerator
        <3>4. QED BY <1>2, <3>1, <3>2, <3>3 DEF CanStart, HomeStarts
    <2>3. CASE net.nick.strategy # ""
        <3>1. nick = net.nick
            BY <2>3 DEF EffectiveNickConfig
        <3>2. nick.strategy \in {"prefix", "random", "wordlist"}
            BY <1>2 DEF ValidNetwork
        <3>3. nick.strategy = "wordlist" =>
                nick.wordlist = Embedded \/ CustomLoads(nick.wordlist)
            BY <1>1, <1>2, <2>1, <3>1 DEF Loads, Lists
        <3> HIDE DEF nick
        <3>4. nick.prefix \in {0, 3}
            BY <2>1, <3>1
        <3>5. NewGenerator(nick) # "error" \/ (nick.strategy = "prefix" /\ nick.prefix = 0)
            BY <3>2, <3>3, <3>4 DEF NewGenerator
        <3>6. HomeStarts(net) \/ net.nickPrefix = 0
            <4>1. ServerParses(net.servers[1])
                BY <1>2
            <4>2. net.nickPrefix = 0 \/ net.nickPrefix > 0
                <5>1. \A p \in {0, 3} : p = 0 \/ p > 0
                    OBVIOUS
                <5>2. QED BY <2>1, <5>1, Zenon
            <4>3. QED BY <4>1, <4>2 DEF HomeStarts
        <3>7. QED BY <1>2, <2>3, <3>1, <3>5, <3>6 DEF CanStart, nick
    <2>4. QED BY <2>2, <2>3
<1>3. \A strategy \in {"prefix", "random", "wordlist"} :
        NewGenerator([strategy |-> strategy, prefix |-> 3, length |-> 0,
                      wordlist |-> Embedded]) = strategy
    BY DEF NewGenerator
<1>4. ConfigsStart
    BY <1>2, <1>3 DEF ConfigsStart
<1>5. QED BY <1>4, PTL

-----------------------------------------------------------------------------
(* Induction over the natural numbers, as the least element of a set: the  *)
(* principle is used with sets of counterexamples.                         *)
Less == {ss \in Nat \X Nat : ss[1] < ss[2]}

LEMMA Least ==
    ASSUME NEW T, T \subseteq Nat, T # {}
    PROVE  \E x \in T : \A y \in T : x <= y
<1>1. IsWellFoundedOn(OpToRel(<, Nat), Nat)
    BY NatLessThanWellFounded, Zenon
<1>2. OpToRel(<, Nat) = Less
    BY Zenon DEF OpToRel, Less
<1>3. IsWellFoundedOn(Less, Nat)
    BY <1>1, <1>2, Zenon
<1>4. PICK x \in T : \A y \in T : <<y, x>> \notin Less
    BY <1>3, WFMin, Zenon
<1>5. ASSUME NEW y \in T PROVE x <= y
    <2>1. x \in Nat /\ y \in Nat
        OBVIOUS
    <2>2. ~ (y < x)
        BY <1>4, <2>1 DEF Less
    <2>3. QED BY <2>1, <2>2
<1>6. QED BY <1>5

LEMMA MinIsIn ==
    ASSUME NEW S, S \subseteq Nat, S # {}
    PROVE  Min(S) \in S
<1>1. \E x \in S : \A y \in S : x =< y
    BY Least
<1>2. QED BY <1>1 DEF Min

(* A nick that was seen is only given by the fallback.                     *)
LEMMA SeenNeedsFallback ==
    ASSUME NEW seen, NEW draws, NEW index,
           Generate(seen, draws, index).nick \in seen
    PROVE  Generate(seen, draws, index).fallback
<1> DEFINE fresh == {i \in 1 .. MaxTries : draws[i] \notin seen}
<1>1. fresh # {} => Min(fresh) \in fresh
    <2>1. fresh \subseteq Nat
        BY TriesAssumption
    <2> HIDE DEF fresh
    <2>2. QED BY <2>1, MinIsIn
<1>2. CASE fresh # {}
    <2>1. Generate(seen, draws, index) = [nick |-> draws[Min(fresh)], fallback |-> FALSE]
        BY <1>2 DEF Generate
    <2>2. draws[Min(fresh)] \notin seen
        BY <1>1, <1>2
    <2>3. QED BY <2>1, <2>2
<1>3. CASE fresh = {}
    BY <1>3 DEF Generate
<1>4. QED BY <1>2, <1>3

-----------------------------------------------------------------------------
(* The nicks given are defined by recursion over the calls.                *)
Draws(Sym) == [1 .. MaxTries + 1 -> Seq(Sym)]
CallSeqs(Sym) == Seq([draws : Draws(Sym), index : Sym])
NickRecs(Sym) == [nick : Seq(Sym), fallback : BOOLEAN]

NickOfCall(calls, i, before) == Generate(Seen(before), calls[i].draws, calls[i].index)

GivenTo(calls, n, g) ==
    /\ g = [i \in 0 .. n |-> g[i]]
    /\ \A i \in 0 .. n :
          g[i] = IF i = 0 THEN << >> ELSE Append(g[i - 1], NickOfCall(calls, i, g[i - 1]))

LEMMA GivenToExists ==
    ASSUME NEW calls, NEW n \in Nat
    PROVE  \E g : GivenTo(calls, n, g)
<1> DEFINE T == {i \in Nat : ~ \E g : GivenTo(calls, i, g)}
<1>1. SUFFICES ASSUME T # {} PROVE FALSE
    OBVIOUS
<1>2. PICK m \in T : \A i \in T : m <= i
    <2>1. T \subseteq Nat
        OBVIOUS
    <2> HIDE DEF T
    <2>2. QED BY <1>1, <2>1, Least
<1>3. CASE m = 0
    <2>1. GivenTo(calls, 0, [i \in 0 .. 0 |-> << >>])
        BY DEF GivenTo
    <2>2. QED BY <1>3, <2>1
<1>4. CASE m # 0
    <2>1. m \in Nat /\ m - 1 \in Nat /\ m - 1 \notin T
        BY <1>2, <1>4
    <2>2. PICK g : GivenTo(calls, m - 1, g)
        BY <2>1
    <2> DEFINE last == Append(g[m - 1], NickOfCall(calls, m, g[m - 1]))
               h == [i \in 0 .. m |-> IF i = m THEN last ELSE g[i]]
    <2>3. \A i \in 0 .. m - 1 :
             g[i] = IF i = 0 THEN << >> ELSE Append(g[i - 1], NickOfCall(calls, i, g[i - 1]))
        BY <2>2 DEF GivenTo
    <2>4. ASSUME NEW i \in 0 .. m
          PROVE  h[i] = IF i = 0 THEN << >> ELSE Append(h[i - 1], NickOfCall(calls, i, h[i - 1]))
        <3>1. CASE i = m
            <4>1. h[i] = last /\ h[i - 1] = g[m - 1] /\ i # 0
                BY <2>1, <3>1
            <4>2. QED BY <3>1, <4>1
        <3>2. CASE i # m
            <4>1. i \in 0 .. m - 1
                BY <2>1, <3>2
            <4>2. h[i] = g[i] /\ (i # 0 => h[i - 1] = g[i - 1])
                BY <2>1, <4>1
            <4>3. QED BY <2>3, <4>1, <4>2
        <3>3. QED BY <3>1, <3>2
    <2>5. h = [i \in 0 .. m |-> h[i]]
        OBVIOUS
    <2> HIDE DEF h
    <2>6. GivenTo(calls, m, h)
        BY <2>4, <2>5 DEF GivenTo
    <2>7. QED BY <2>6
<1>5. QED BY <1>3, <1>4

LEMMA GivenUpToDef ==
    ASSUME NEW calls, Len(calls) \in Nat
    PROVE  GivenTo(calls, Len(calls), GivenUpTo(calls))
<1> DEFINE n == Len(calls)
<1>1. PICK g : GivenTo(calls, n, g)
    BY GivenToExists
<1>2. g = [i \in 0 .. n |->
            IF i = 0 THEN << >>
            ELSE Append(g[i - 1], Generate(Seen(g[i - 1]), calls[i].draws, calls[i].index))]
    BY <1>1 DEF GivenTo, NickOfCall
<1>3. GivenUpTo(calls) = [i \in 0 .. n |->
            IF i = 0 THEN << >>
            ELSE Append(GivenUpTo(calls)[i - 1],
                        Generate(Seen(GivenUpTo(calls)[i - 1]), calls[i].draws,
                                 calls[i].index))]
    BY <1>2 DEF GivenUpTo
<1>4. QED BY <1>3 DEF GivenTo, NickOfCall

LEMMA GenerateType ==
    ASSUME NEW Sym, NEW seen, NEW draws \in Draws(Sym), NEW index \in Sym
    PROVE  Generate(seen, draws, index) \in NickRecs(Sym)
<1> DEFINE fresh == {i \in 1 .. MaxTries : draws[i] \notin seen}
<1>1. MaxTries \in Nat \ {0}
    BY TriesAssumption
<1>2. CASE fresh # {}
    <2>1. Generate(seen, draws, index) = [nick |-> draws[Min(fresh)], fallback |-> FALSE]
        BY <1>2 DEF Generate
    <2>2. Min(fresh) \in fresh
        <3>1. fresh \subseteq Nat
            BY <1>1
        <3> HIDE DEF fresh
        <3>2. QED BY <1>2, <3>1, MinIsIn
    <2>3. Min(fresh) \in 1 .. MaxTries + 1
        BY <1>1, <2>2
    <2>4. draws[Min(fresh)] \in Seq(Sym)
        BY <2>3 DEF Draws
    <2>5. QED BY <2>1, <2>4 DEF NickRecs
<1>3. CASE fresh = {}
    <2>1. Generate(seen, draws, index) =
            [nick |-> Append(draws[MaxTries + 1], index), fallback |-> TRUE]
        BY <1>3 DEF Generate
    <2>2. draws[MaxTries + 1] \in Seq(Sym)
        BY <1>1 DEF Draws
    <2>3. Append(draws[MaxTries + 1], index) \in Seq(Sym)
        BY <2>2, AppendProperties
    <2>4. QED BY <2>1, <2>3 DEF NickRecs
<1>4. QED BY <1>2, <1>3

(* After n calls: each nick is the one its call generated, which had seen  *)
(* the nicks before it.                                                    *)
InTurn(Sym, calls, n) ==
    /\ GivenUpTo(calls)[n] \in Seq(NickRecs(Sym))
    /\ Len(GivenUpTo(calls)[n]) = n
    /\ \A j \in 1 .. n :
          /\ GivenUpTo(calls)[n][j] = NickOfCall(calls, j, GivenUpTo(calls)[j - 1])
          /\ \A i \in 1 .. j - 1 :
                GivenUpTo(calls)[n][i].nick \in Seen(GivenUpTo(calls)[j - 1])

LEMMA NicksInTurn ==
    ASSUME NEW Sym, NEW calls \in CallSeqs(Sym)
    PROVE  \A n \in 0 .. Len(calls) : InTurn(Sym, calls, n)
<1> DEFINE G == GivenUpTo(calls)
           T == {n \in 0 .. Len(calls) : ~ InTurn(Sym, calls, n)}
<1>1. SUFFICES ASSUME T # {} PROVE FALSE
    OBVIOUS
<1>2. Len(calls) \in Nat
    BY LenProperties DEF CallSeqs
<1>3. PICK m \in T : \A i \in T : m <= i
    <2>1. T \subseteq Nat
        BY <1>2
    <2> HIDE DEF T
    <2>2. QED BY <1>1, <2>1, Least
<1>4. \A i \in 0 .. Len(calls) :
         G[i] = IF i = 0 THEN << >> ELSE Append(G[i - 1], NickOfCall(calls, i, G[i - 1]))
    BY <1>2, GivenUpToDef DEF GivenTo
<1>5. CASE m = 0
    <2>1. G[0] = << >>
        BY <1>2, <1>4
    <2>2. << >> \in Seq(NickRecs(Sym)) /\ Len(<< >>) = 0
        BY EmptySeq
    <2>3. InTurn(Sym, calls, 0)
        BY <2>1, <2>2 DEF InTurn
    <2>4. QED BY <1>3, <1>5, <2>3
<1>6. CASE m # 0
    <2> DEFINE before == G[m - 1]
               r == NickOfCall(calls, m, before)
    <2>1. m \in 1 .. Len(calls) /\ m - 1 \in 0 .. Len(calls) /\ m - 1 \notin T
        BY <1>2, <1>3, <1>6
    <2>2. InTurn(Sym, calls, m - 1)
        BY <2>1
    <2>3. G[m] = Append(before, r)
        <3>1. m \in 0 .. Len(calls) /\ m # 0
            BY <1>2, <1>6, <2>1
        <3> HIDE DEF G, T
        <3>2. QED BY <1>4, <3>1
    <2>4. r \in NickRecs(Sym)
        <3>1. calls[m] \in [draws : Draws(Sym), index : Sym]
            BY <2>1, ElementOfSeq DEF CallSeqs
        <3>2. QED BY <3>1, GenerateType DEF NickOfCall
    <2>5. /\ before \in Seq(NickRecs(Sym)) /\ Len(before) = m - 1
          /\ \A j \in 1 .. m - 1 :
                /\ before[j] = NickOfCall(calls, j, G[j - 1])
                /\ \A i \in 1 .. j - 1 : before[i].nick \in Seen(G[j - 1])
        BY <2>2 DEF InTurn
    <2> HIDE DEF G, r
    <2>6. /\ G[m] \in Seq(NickRecs(Sym)) /\ Len(G[m]) = m
          /\ \A j \in 1 .. m - 1 : G[m][j] = before[j]
          /\ G[m][m] = r
        <3> HIDE DEF before
        <3>1. /\ Append(before, r) \in Seq(NickRecs(Sym))
              /\ Len(Append(before, r)) = Len(before) + 1
              /\ \A j \in 1 .. Len(before) : Append(before, r)[j] = before[j]
              /\ Append(before, r)[Len(before) + 1] = r
            BY <2>4, <2>5, AppendProperties
        <3>2. Len(before) + 1 = m
            BY <2>1, <2>5
        <3>3. QED BY <2>3, <2>5, <3>1, <3>2
    <2>7. \A i \in 1 .. m - 1 : before[i].nick \in Seen(before)
        <3>1. DOMAIN before = 1 .. m - 1
            BY <2>5, LenProperties
        <3>2. QED BY <3>1 DEF Seen
    <2>8. ASSUME NEW j \in 1 .. m
          PROVE  /\ G[m][j] = NickOfCall(calls, j, G[j - 1])
                 /\ \A i \in 1 .. j - 1 : G[m][i].nick \in Seen(G[j - 1])
        <3>1. CASE j = m
            BY <2>1, <2>6, <2>7, <3>1 DEF r
        <3>2. CASE j # m
            <4>1. j \in 1 .. m - 1
                BY <2>1, <3>2
            <4>2. \A i \in 1 .. j - 1 : i \in 1 .. m - 1
                BY <2>1, <4>1
            <4>3. QED BY <2>5, <2>6, <4>1, <4>2
        <3>3. QED BY <3>1, <3>2
    <2>9. InTurn(Sym, calls, m)
        BY <2>6, <2>8 DEF InTurn, G
    <2>10. QED BY <1>3, <2>9
<1>7. QED BY <1>5, <1>6

(* A generator gives a nick twice only when all its tries failed, for any  *)
(* draws, any indices, any number of calls and of tries.                   *)
THEOREM RepeatsNeedFallback ==
    ASSUME NEW Sym, NEW calls \in CallSeqs(Sym)
    PROVE  \A i, j \in 1 .. Len(calls) :
              i < j /\ GivenNicks(calls)[i].nick = GivenNicks(calls)[j].nick
                 => GivenNicks(calls)[j].fallback
<1>1. InTurn(Sym, calls, Len(calls))
    <2>1. Len(calls) \in Nat
        BY LenProperties DEF CallSeqs
    <2>2. Len(calls) \in 0 .. Len(calls)
        BY <2>1
    <2>3. QED BY <2>2, NicksInTurn
<1>2. ASSUME NEW i \in 1 .. Len(calls), NEW j \in 1 .. Len(calls), i < j,
             GivenNicks(calls)[i].nick = GivenNicks(calls)[j].nick
      PROVE  GivenNicks(calls)[j].fallback
    <2> DEFINE before == GivenUpTo(calls)[j - 1]
    <2>1. /\ GivenNicks(calls)[j] = Generate(Seen(before), calls[j].draws, calls[j].index)
          /\ GivenNicks(calls)[i].nick \in Seen(before)
        BY <1>1, <1>2 DEF GivenNicks, InTurn, NickOfCall
    <2> HIDE DEF before
    <2>2. QED BY <1>2, <2>1, SeenNeedsFallback
<1>3. QED BY <1>2

THEOREM RepeatsAlwaysNeedFallback == Spec => []RepeatsAreFallbacks
<1>1. ASSUME NEW calls \in [1 .. 3 -> Calls], NEW i \in 1 .. 3, NEW j \in 1 .. 3, i < j,
             GivenNicks(calls)[i].nick = GivenNicks(calls)[j].nick
      PROVE  GivenNicks(calls)[j].fallback
    <2> DEFINE Sym == {"a", 0, 1}
    <2>1. {<<"a">>, <<"a", 0>>, <<"a", 1>>} \subseteq Seq(Sym)
        OBVIOUS
    <2>2. Calls \subseteq [draws : Draws(Sym), index : Sym]
        BY <2>1 DEF Calls, Draws
    <2> DEFINE S == [draws : Draws(Sym), index : Sym]
    <2>3. calls \in [1 .. 3 -> S]
        BY <2>2
    <2> HIDE DEF S
    <2> DEFINE d == [n \in 1 .. 3 |-> calls[n]]
    <2>d. calls = d /\ d \in Seq(S) /\ Len(d) = 3
        <3>1. calls = d
            BY <2>3
        <3>2. d \in Seq(S)
            BY <2>3
        <3>3. Len(d) = 3
            OBVIOUS
        <3>4. QED BY <3>1, <3>2, <3>3
    <2> HIDE DEF d
    <2>4. calls \in Seq(S) /\ Len(calls) = 3
        BY <2>d
    <2>5. calls \in CallSeqs(Sym)
        BY <2>4 DEF CallSeqs, S
    <2>6. QED BY <1>1, <2>4, <2>5, RepeatsNeedFallback
<1>2. RepeatsAreFallbacks
    BY <1>1 DEF RepeatsAreFallbacks
<1>3. QED BY <1>2, PTL

-----------------------------------------------------------------------------
(* How long the nicks are that generators give.                            *)

(* What the inner generator may draw, over any alphabet.                   *)
IsDraw(Sym, nick, d) ==
    IF nick.strategy = "random"
    THEN \E text \in Seq(Sym) : Len(text) >= RandomRoom(nick) /\ d = RandomDraw(nick, text)
    ELSE \E word \in Seq(Sym) : d = WordlistDraw(nick, word)

NickShape == [strategy : {"random", "wordlist"}, prefix : Nat, length : Int]

LEMMA PrefixFacts ==
    ASSUME NEW nick \in NickShape, NEW Sym, "p" \in Sym
    PROVE  /\ PrefixOf(nick) \in Seq(Sym) /\ Len(PrefixOf(nick)) = nick.prefix
           /\ \A i \in 1 .. nick.prefix : PrefixOf(nick)[i] = "p"
           /\ nick.prefix \in Nat /\ NickLength(nick) \in Nat \ {0}
<1> DEFINE p == [i \in 1 .. nick.prefix |-> "p"]
<1>1. nick.prefix \in Nat /\ NickLength(nick) \in Nat \ {0}
    BY DEF NickShape, NickLength
<1>2. p \in Seq(Sym) /\ Len(p) = nick.prefix /\ \A i \in 1 .. nick.prefix : p[i] = "p"
    BY <1>1
<1>3. PrefixOf(nick) = p
    BY DEF PrefixOf
<1> HIDE DEF p
<1>4. QED BY <1>1, <1>2, <1>3

(* A random text fills the length, unless the prefix does.                 *)
LEMMA RandomFits ==
    ASSUME NEW nick \in NickShape, NEW Sym, "p" \in Sym, NEW text \in Seq(Sym),
           Len(text) >= RandomRoom(nick), ~ FillsLength(nick)
    PROVE  Len(RandomDraw(nick, text)) = NickLength(nick)
<1> DEFINE room == RandomRoom(nick)
           part == SubSeq(text, 1, room)
<1>1. PrefixOf(nick) \in Seq(Sym) /\ Len(PrefixOf(nick)) = nick.prefix
    BY PrefixFacts
<1>2. nick.prefix \in Nat /\ NickLength(nick) \in Nat
    BY PrefixFacts
<1>3. room = NickLength(nick) - nick.prefix /\ room \in Nat \ {0}
    BY <1>2 DEF FillsLength, RandomRoom
<1>4. Len(text) \in Nat /\ \A i \in 1 .. room : text[i] \in Sym
    BY <1>3, LenProperties, ElementOfSeq
<1> HIDE DEF room
<1>5. part \in Seq(Sym) /\ Len(part) = room
    BY <1>3, <1>4, SubSeqProperties
<1> HIDE DEF part
<1>6. Len(PrefixOf(nick) \o part) = nick.prefix + room
    BY <1>1, <1>5, ConcatProperties
<1>7. QED BY <1>2, <1>3, <1>6 DEF RandomDraw, part, room

(* What is made of words never exceeds it, and is nothing but the prefix   *)
(* if that fills it.                                                       *)
LEMMA WordlistFits ==
    ASSUME NEW nick \in NickShape, NEW Sym, "p" \in Sym, NEW word \in Seq(Sym)
    PROVE  /\ WordlistDraw(nick, word) \in Seq(Sym)
           /\ Len(WordlistDraw(nick, word)) <= NickLength(nick)
           /\ FillsLength(nick) =>
                 /\ Len(WordlistDraw(nick, word)) = NickLength(nick)
                 /\ \A i \in 1 .. NickLength(nick) : WordlistDraw(nick, word)[i] = "p"
<1> DEFINE p == PrefixOf(nick)
           whole == p \o word
           L == NickLength(nick)
           n == Min({Len(whole), L})
<1>1. /\ p \in Seq(Sym) /\ Len(p) = nick.prefix
      /\ \A i \in 1 .. nick.prefix : p[i] = "p"
    BY PrefixFacts
<1>2. nick.prefix \in Nat /\ L \in Nat \ {0} /\ Len(word) \in Nat
    BY PrefixFacts, LenProperties
<1> HIDE DEF p, L
<1>3. /\ whole \in Seq(Sym) /\ Len(whole) = nick.prefix + Len(word)
      /\ \A i \in 1 .. nick.prefix : whole[i] = p[i]
    <2>1. /\ p \o word \in Seq(Sym) /\ Len(p \o word) = Len(p) + Len(word)
          /\ \A i \in 1 .. Len(p) + Len(word) :
                (p \o word)[i] = IF i <= Len(p) THEN p[i] ELSE word[i - Len(p)]
        BY <1>1, ConcatProperties
    <2>2. QED BY <1>1, <1>2, <2>1
<1> HIDE DEF whole
<1>4. n = IF Len(whole) <= L THEN Len(whole) ELSE L
    <2>1. Len(whole) \in Nat /\ L \in Nat
        BY <1>2, <1>3
    <2>2. QED BY <2>1, MinOfTwo
<1>5. n \in Nat /\ n <= L /\ n <= Len(whole)
    BY <1>2, <1>3, <1>4
<1> HIDE DEF n
<1>6. /\ SubSeq(whole, 1, n) \in Seq(Sym)
      /\ Len(SubSeq(whole, 1, n)) = n
      /\ \A i \in 1 .. n : SubSeq(whole, 1, n)[i] = whole[i]
    <2>1. \A i \in 1 .. n : whole[i] \in Sym
        BY <1>3, <1>5, ElementOfSeq
    <2>2. /\ SubSeq(whole, 1, n) \in Seq(Sym)
          /\ Len(SubSeq(whole, 1, n)) = IF 1 <= n THEN n - 1 + 1 ELSE 0
          /\ \A i \in 1 .. n - 1 + 1 : SubSeq(whole, 1, n)[i] = whole[1 + i - 1]
        BY <1>5, <2>1, SubSeqProperties
    <2>3. QED BY <1>5, <2>2
<1>7. FillsLength(nick) => n = L /\ \A i \in 1 .. L : whole[i] = "p"
    <2> SUFFICES ASSUME nick.prefix >= L
                 PROVE  n = L /\ \A i \in 1 .. L : whole[i] = "p"
        BY DEF FillsLength, L
    <2>1. n = L
        BY <1>2, <1>3, <1>4
    <2>2. \A i \in 1 .. L : i \in 1 .. nick.prefix
        BY <1>2
    <2>3. QED BY <1>1, <1>3, <2>1, <2>2, Zenon
<1>8. WordlistDraw(nick, word) = SubSeq(whole, 1, n)
    BY DEF WordlistDraw, whole, n, p, L
<1>9. QED BY <1>5, <1>6, <1>7, <1>8 DEF L

LEMMA FullPrefixIsAll ==
    ASSUME NEW nick \in NickShape, nick.strategy = "wordlist", FillsLength(nick),
           NEW Sym, "p" \in Sym,
           NEW d, IsDraw(Sym, nick, d), NEW e, IsDraw(Sym, nick, e)
    PROVE  /\ d = e
           /\ d \in Seq(Sym) /\ Len(d) = NickLength(nick)
<1>1. PICK v \in Seq(Sym) : d = WordlistDraw(nick, v)
    BY DEF IsDraw
<1>2. PICK w \in Seq(Sym) : e = WordlistDraw(nick, w)
    BY DEF IsDraw
<1>3. /\ d \in Seq(Sym) /\ Len(d) = NickLength(nick)
      /\ \A i \in 1 .. NickLength(nick) : d[i] = "p"
    BY <1>1, WordlistFits
<1>4. /\ e \in Seq(Sym) /\ Len(e) = NickLength(nick)
      /\ \A i \in 1 .. NickLength(nick) : e[i] = "p"
    BY <1>2, WordlistFits
<1>5. d = e
    BY <1>3, <1>4, SeqEqual
<1>6. QED BY <1>3, <1>5

(* The two ways to generate a nick.                                        *)
LEMMA DrawnOrForced ==
    ASSUME NEW seen, NEW draws, NEW index
    PROVE  \/ \E t \in 1 .. MaxTries :
                draws[t] \notin seen /\ Generate(seen, draws, index).nick = draws[t]
           \/ /\ \A t \in 1 .. MaxTries : draws[t] \in seen
              /\ Generate(seen, draws, index).nick = Append(draws[MaxTries + 1], index)
<1> DEFINE fresh == {i \in 1 .. MaxTries : draws[i] \notin seen}
<1>1. CASE fresh # {}
    <2>1. Min(fresh) \in fresh
        <3>1. fresh \subseteq Nat
            BY TriesAssumption
        <3> HIDE DEF fresh
        <3>2. QED BY <1>1, <3>1, MinIsIn
    <2>2. Generate(seen, draws, index).nick = draws[Min(fresh)]
        BY <1>1 DEF Generate
    <2>3. QED BY <2>1, <2>2
<1>2. CASE fresh = {}
    BY <1>2 DEF Generate
<1>3. QED BY <1>1, <1>2

(* What a call has seen is what the calls before it were given.            *)
LEMMA SeenWasGiven ==
    ASSUME NEW Sym, NEW calls \in CallSeqs(Sym), NEW i \in 1 .. Len(calls),
           NEW x \in Seen(GivenUpTo(calls)[i - 1])
    PROVE  \E j \in 1 .. i - 1 : GivenNicks(calls)[j].nick = x
<1> DEFINE G == GivenUpTo(calls)
<1>1. Len(calls) \in Nat /\ i - 1 \in 0 .. Len(calls) /\ Len(calls) \in 0 .. Len(calls)
    BY LenProperties DEF CallSeqs
<1>2. InTurn(Sym, calls, i - 1) /\ InTurn(Sym, calls, Len(calls))
    BY <1>1, NicksInTurn
<1> HIDE DEF G
<1>3. G[i - 1] \in Seq(NickRecs(Sym)) /\ Len(G[i - 1]) = i - 1
    BY <1>2 DEF InTurn, G
<1>4. PICK j \in DOMAIN G[i - 1] : G[i - 1][j].nick = x
    BY DEF Seen, G
<1>5. j \in 1 .. i - 1
    BY <1>3, <1>4, LenProperties
<1>6. G[i - 1][j] = NickOfCall(calls, j, G[j - 1])
    BY <1>2, <1>5 DEF InTurn, G
<1>7. G[Len(calls)][j] = NickOfCall(calls, j, G[j - 1])
    BY <1>1, <1>2, <1>5 DEF InTurn, G
<1>8. QED BY <1>4, <1>5, <1>6, <1>7 DEF GivenNicks, G

(* A nick longer than the length was forced: the prefix leaves a random    *)
(* text no room, or all draws of the call had been given before, as they   *)
(* always have once a wordlist prefix fills the length; for any prefix,    *)
(* length, texts, words and number of calls and tries.                     *)
THEOREM LongNicksAreForced ==
    ASSUME NEW nick \in NickShape, NEW Sym, "p" \in Sym, NEW calls \in CallSeqs(Sym),
           \A i \in 1 .. Len(calls), t \in 1 .. MaxTries + 1 :
              IsDraw(Sym, nick, calls[i].draws[t])
    PROVE  LongOnlyIfForced(nick, calls)
<1> DEFINE given == GivenNicks(calls)
           before(i) == GivenUpTo(calls)[i - 1]
<1>1. DOMAIN calls = 1 .. Len(calls) /\ Len(calls) \in Nat /\ MaxTries \in Nat \ {0}
    BY LenProperties, TriesAssumption DEF CallSeqs
<1>2. InTurn(Sym, calls, Len(calls))
    <2>1. Len(calls) \in 0 .. Len(calls)
        BY <1>1
    <2>2. QED BY <2>1, NicksInTurn
<1>3. \A i \in 1 .. Len(calls) :
        /\ given[i] = Generate(Seen(before(i)), calls[i].draws, calls[i].index)
        /\ \A j \in 1 .. i - 1 : given[j].nick \in Seen(before(i))
    BY <1>2 DEF InTurn, GivenNicks, NickOfCall
<1>4. \A i \in 1 .. Len(calls) : \A x \in Seen(before(i)) :
        \E j \in 1 .. i - 1 : given[j].nick = x
    BY SeenWasGiven
<1> HIDE DEF given, before
<1>5. ASSUME NEW i \in 1 .. Len(calls)
      PROVE  \/ \E t \in 1 .. MaxTries :
                   /\ calls[i].draws[t] \notin Seen(before(i))
                   /\ given[i].nick = calls[i].draws[t]
             \/ /\ Exhausted(calls, given, i)
                /\ given[i].nick = Append(calls[i].draws[MaxTries + 1], calls[i].index)
    <2>1. given[i] = Generate(Seen(before(i)), calls[i].draws, calls[i].index)
        BY <1>3
    <2>2. CASE \E t \in 1 .. MaxTries : /\ calls[i].draws[t] \notin Seen(before(i))
                                       /\ given[i].nick = calls[i].draws[t]
        BY <2>2
    <2>3. CASE /\ \A t \in 1 .. MaxTries : calls[i].draws[t] \in Seen(before(i))
               /\ given[i].nick = Append(calls[i].draws[MaxTries + 1], calls[i].index)
        BY <1>4, <2>3 DEF Exhausted
    <2>4. QED BY <2>1, <2>2, <2>3, DrawnOrForced
<1>6. ASSUME NEW i \in 1 .. Len(calls), Len(given[i].nick) > NickLength(nick),
             ~ Exhausted(calls, given, i)
      PROVE  nick.strategy = "random" /\ FillsLength(nick)
    <2>1. PICK t \in 1 .. MaxTries : given[i].nick = calls[i].draws[t]
        BY <1>5, <1>6
    <2>2. IsDraw(Sym, nick, given[i].nick)
        <3>1. t \in 1 .. MaxTries + 1
            BY <1>1
        <3>2. QED BY <2>1, <3>1
    <2>3. Len(given[i].nick) \in Nat => ~ (Len(given[i].nick) <= NickLength(nick))
        BY <1>6, PrefixFacts
    <2>4. CASE nick.strategy = "random"
        <3>1. PICK text \in Seq(Sym) : /\ Len(text) >= RandomRoom(nick)
                                       /\ given[i].nick = RandomDraw(nick, text)
            BY <2>2, <2>4 DEF IsDraw
        <3>2. ASSUME ~ FillsLength(nick) PROVE FALSE
            <4>1. Len(given[i].nick) = NickLength(nick)
                BY <3>1, <3>2, RandomFits
            <4>2. QED BY <2>3, <4>1, PrefixFacts
        <3>3. QED BY <2>4, <3>2
    <2>5. CASE nick.strategy # "random"
        <3>1. PICK word \in Seq(Sym) : given[i].nick = WordlistDraw(nick, word)
            BY <2>2, <2>5 DEF IsDraw
        <3>2. given[i].nick \in Seq(Sym) /\ Len(given[i].nick) <= NickLength(nick)
            BY <3>1, WordlistFits
        <3>3. QED BY <2>3, <3>2, LenProperties
    <2>6. QED BY <2>4, <2>5
<1>7. ASSUME NEW i \in 1 .. Len(calls), i > 1,
             nick.strategy = "wordlist", FillsLength(nick)
      PROVE  Len(given[i].nick) > NickLength(nick)
    <2>1. 1 \in 1 .. Len(calls) /\ 1 \in 1 .. i - 1
        BY <1>1, <1>7
    <2>2. ASSUME NEW x \in Seen(before(1)) PROVE FALSE
        BY <1>4, <2>1, <2>2
    <2>3. PICK s \in 1 .. MaxTries : given[1].nick = calls[1].draws[s]
        <3>1. 1 \in 1 .. MaxTries
            BY <1>1
        <3>2. ~ Exhausted(calls, given, 1)
            BY <3>1 DEF Exhausted
        <3>3. QED BY <1>5, <2>1, <3>2
    <2>4. IsDraw(Sym, nick, given[1].nick)
        <3>1. s \in 1 .. MaxTries + 1
            BY <1>1
        <3>2. QED BY <2>1, <2>3, <3>1
    <2>5. ASSUME NEW t \in 1 .. MaxTries PROVE calls[i].draws[t] \in Seen(before(i))
        <3>1. t \in 1 .. MaxTries + 1
            BY <1>1
        <3>2. IsDraw(Sym, nick, calls[i].draws[t])
            BY <3>1
        <3>3. calls[i].draws[t] = given[1].nick
            BY <1>7, <2>4, <3>2, FullPrefixIsAll
        <3>4. QED BY <1>3, <2>1, <3>3
    <2>6. given[i].nick = Append(calls[i].draws[MaxTries + 1], calls[i].index)
        BY <1>5, <2>5
    <2>7. /\ calls[i].draws[MaxTries + 1] \in Seq(Sym)
          /\ Len(calls[i].draws[MaxTries + 1]) = NickLength(nick)
        <3>1. MaxTries + 1 \in 1 .. MaxTries + 1
            BY <1>1
        <3>2. IsDraw(Sym, nick, calls[i].draws[MaxTries + 1])
            BY <3>1
        <3>3. QED BY <1>7, <3>2, FullPrefixIsAll
    <2>8. calls[i].index \in Sym
        <3>1. calls[i] \in [draws : Draws(Sym), index : Sym]
            BY ElementOfSeq DEF CallSeqs
        <3>2. QED BY <3>1
    <2>9. Len(given[i].nick) = NickLength(nick) + 1
        BY <2>6, <2>7, <2>8, AppendProperties
    <2>10. QED BY <2>9, PrefixFacts
<1>8. QED BY <1>1, <1>6, <1>7 DEF LongOnlyIfForced, given

(* The texts, words and calls of the run are among those.                  *)
THEOREM NicksAlwaysFit == Spec => []NicksFit
<1> DEFINE Sym == {"p", "a", "b", "n", "_", "0"}
           Shapes == [strategy : {"random", "wordlist"}, prefix : 0 .. 3, length : -1 .. 3]
<1>1. ASSUME NEW nick \in Shapes, NEW d \in DrawsOf(nick)
      PROVE  IsDraw(Sym, nick, d) /\ d \in Seq(Sym)
    <2>1. nick \in NickShape
        BY <1>1 DEF NickShape
    <2>2. CASE nick.strategy = "random"
        <3>1. PICK x \in {"a", "b"} : d = RandomDraw(nick, [i \in 1 .. 9 |-> x])
            BY <1>1, <2>2 DEF DrawsOf
        <3> DEFINE text == [i \in 1 .. 9 |-> x]
        <3>0. 9 \in Nat /\ \A i \in 1 .. 9 : x \in Sym
            OBVIOUS
        <3>2. text \in Seq(Sym) /\ Len(text) = 9 /\ \A i \in 1 .. 9 : text[i] \in Sym
            <4> HIDE DEF Sym
            <4>1. QED BY <3>0
        <3>3. nick.prefix \in 0 .. 3 /\ NickLength(nick) \in 1 .. 9
            BY <1>1 DEF NickLength
        <3>4. RandomRoom(nick) \in 1 .. 9
            BY <3>3 DEF RandomRoom
        <3>5. PrefixOf(nick) \in Seq(Sym)
            BY <2>1, PrefixFacts
        <3>6. SubSeq(text, 1, RandomRoom(nick)) \in Seq(Sym)
            <4>1. \A i \in 1 .. RandomRoom(nick) : text[i] \in Sym
                <5>1. \A i \in 1 .. RandomRoom(nick) : i \in 1 .. 9
                    BY <3>4
                <5>2. QED BY <3>2, <5>1, Zenon
            <4> HIDE DEF text, Sym
            <4>2. QED BY <3>4, <4>1, SubSeqProperties
        <3> HIDE DEF text, Sym
        <3>7. d \in Seq(Sym)
            BY <3>1, <3>5, <3>6, ConcatProperties DEF RandomDraw, text
        <3>8. IsDraw(Sym, nick, d)
            <4>1. d = RandomDraw(nick, text) /\ Len(text) >= RandomRoom(nick)
                BY <3>1, <3>2, <3>4 DEF text
            <4>2. QED BY <2>2, <3>2, <4>1 DEF IsDraw
        <3>9. QED BY <3>7, <3>8
    <2>3. CASE nick.strategy # "random"
        <3>1. PICK word \in Formatted(<<"a">>, <<"n">>) : d = WordlistDraw(nick, word)
            BY <1>1, <2>3 DEF DrawsOf
        <3>2. word \in Seq(Sym)
            <4>1. /\ <<"a">> \in Seq(Sym) /\ <<"n">> \in Seq(Sym) /\ <<"_">> \in Seq(Sym)
                  /\ \A n \in 0 .. 3 : [1 .. n -> {"0"}] \subseteq Seq(Sym)
                <5>1. "a" \in Sym /\ "n" \in Sym /\ "_" \in Sym /\ "0" \in Sym
                    OBVIOUS
                <5> HIDE DEF Sym
                <5>2. ASSUME NEW n \in 0 .. 3, NEW digits \in [1 .. n -> {"0"}]
                      PROVE  digits \in Seq(Sym)
                    <6>1. digits \in [1 .. n -> Sym] /\ n \in Nat
                        <7>1. DOMAIN digits = 1 .. n /\ \A i \in 1 .. n : digits[i] = "0"
                            OBVIOUS
                        <7>2. digits = [i \in 1 .. n |-> digits[i]] /\ n \in Nat
                            OBVIOUS
                        <7>3. QED BY <5>1, <7>1, <7>2
                    <6>2. QED BY <6>1
                <5>3. /\ <<"a">> \in Seq(Sym) /\ <<"n">> \in Seq(Sym)
                      /\ <<"_">> \in Seq(Sym)
                    <6>1. \A y \in Sym : <<y>> \in Seq(Sym)
                        OBVIOUS
                    <6>2. QED BY <5>1, <6>1
                <5>4. QED BY <5>2, <5>3, Zenon
            <4>2. PICK n \in 0 .. 3 : \E digits \in [1 .. n -> {"0"}] :
                     \/ word = <<"a">> \o <<"n">> \o digits
                     \/ word = <<"a">> \o <<"_">> \o <<"n">> \o digits
                <5>1. Formatted(<<"a">>, <<"n">>) =
                        {<<"a">> \o <<"n">> \o digits :
                            digits \in UNION {[1 .. n -> {"0"}] : n \in 0 .. 3}}
                        \cup {<<"a">> \o <<"_">> \o <<"n">> \o digits :
                            digits \in UNION {[1 .. n -> {"0"}] : n \in 0 .. 2}}
                    BY Zenon DEF Formatted
                <5>2. \A n \in 0 .. 2 : n \in 0 .. 3
                    OBVIOUS
                <5>3. QED BY <3>1, <5>1, <5>2, Zenon
            <4> PICK digits \in [1 .. n -> {"0"}] :
                     \/ word = <<"a">> \o <<"n">> \o digits
                     \/ word = <<"a">> \o <<"_">> \o <<"n">> \o digits
                BY <4>2
            <4>3. digits \in Seq(Sym)
                BY <4>1, <4>2
            <4> HIDE DEF Sym
            <4>4. /\ <<"a">> \o <<"n">> \in Seq(Sym)
                  /\ (<<"a">> \o <<"_">>) \o <<"n">> \in Seq(Sym)
                BY <4>1, ConcatProperties
            <4>5. /\ <<"a">> \o <<"n">> \o digits \in Seq(Sym)
                  /\ <<"a">> \o <<"_">> \o <<"n">> \o digits \in Seq(Sym)
                BY <4>3, <4>4, ConcatProperties
            <4>6. QED BY <4>5
        <3>3. "p" \in Sym
            OBVIOUS
        <3> HIDE DEF Sym
        <3>4. d \in Seq(Sym)
            BY <2>1, <3>1, <3>2, <3>3, WordlistFits
        <3>5. QED BY <2>3, <3>1, <3>2, <3>4 DEF IsDraw
    <2>4. QED BY <2>2, <2>3
<1>2. ASSUME NEW nick \in Shapes, NEW calls \in [1 .. 2 -> NickCalls(nick)]
      PROVE  LongOnlyIfForced(nick, calls)
    <2>1. nick \in NickShape
        BY <1>2 DEF NickShape
    <2>2. MaxTries \in Nat \ {0} /\ "p" \in Sym /\ "0" \in Sym
        BY TriesAssumption
    <2> HIDE DEF Sym, Shapes
    <2> DEFINE S == [draws : Draws(Sym), index : Sym]
    <2>3. calls \in [1 .. 2 -> S]
        BY <1>1, <2>2 DEF NickCalls, Draws
    <2> HIDE DEF S
    <2>4. calls \in Seq(S) /\ Len(calls) = 2
        <3> DEFINE c == [n \in 1 .. 2 |-> calls[n]]
        <3>1. calls = c
            BY <2>3
        <3>2. c \in Seq(S)
            BY <2>3
        <3>3. Len(c) = 2
            OBVIOUS
        <3> HIDE DEF c
        <3>4. QED BY <3>1, <3>2, <3>3
    <2>5. calls \in CallSeqs(Sym)
        BY <2>4 DEF CallSeqs, S
    <2>6. ASSUME NEW i \in 1 .. 2, NEW t \in 1 .. MaxTries + 1
          PROVE  IsDraw(Sym, nick, calls[i].draws[t])
        <3>1. calls[i].draws[t] \in DrawsOf(nick)
            BY DEF NickCalls
        <3>2. QED BY <1>1, <3>1
    <2>7. QED BY <2>1, <2>2, <2>4, <2>5, <2>6, LongNicksAreForced
<1>3. NicksFit
    BY <1>2 DEF NicksFit
<1>4. QED BY <1>3, PTL

-----------------------------------------------------------------------------
(* What the helpers of the arguments return, in terms of the words that    *)
(* occur.                                                                  *)
Values(args) == {args[i] : i \in 1 .. Len(args)}

Only(x) == IF x = None THEN {} ELSE {x}

LEMMA MaxIsIn ==
    ASSUME NEW n \in Nat, NEW S, S \subseteq 1 .. n, S # {}
    PROVE  Max(S) \in S
<1> DEFINE T == {n - x : x \in S}
<1>1. T \subseteq Nat
    OBVIOUS
<1>0. T # {}
    <2>1. PICK x \in S : TRUE
        OBVIOUS
    <2>2. n - x \in T
        OBVIOUS
    <2>3. QED BY <2>2
<1> HIDE DEF T
<1>2. PICK t \in T : \A y \in T : t <= y
    BY <1>0, <1>1, Least
<1>3. PICK x \in S : t = n - x
    BY DEF T
<1>4. ASSUME NEW y \in S PROVE x >= y
    <2>1. n - y \in T
        BY DEF T
    <2>2. n - x <= n - y
        BY <1>2, <1>3, <2>1
    <2>3. QED BY <2>2
<1>5. QED BY <1>4 DEF Max

(* A kind of which one word occurs at most.                                *)
LEMMA OnlyOne ==
    ASSUME NEW args, NEW S, NEW x, Len(args) \in Nat, Values(args) \cap S = Only(x)
    PROVE  FirstOf(args, S) = x /\ LastOf(args, S) = x
<1> DEFINE I == {i \in 1 .. Len(args) : args[i] \in S}
<1>1. I \subseteq 1 .. Len(args) /\ I \subseteq Nat
    OBVIOUS
<1>2. \A i \in I : args[i] \in Only(x)
    BY DEF Values
<1>3. I = {} => x = None
    BY DEF Values, Only
<1>4. SelectInSeq(args, LAMBDA a : a \in S) = IF I # {} THEN Min(I) ELSE 0
    BY DEF SelectInSeq
<1>5. SelectLastInSeq(args, LAMBDA a : a \in S) = IF I # {} THEN Max(I) ELSE 0
    BY DEF SelectLastInSeq
<1> HIDE DEF I
<1>6. CASE I = {}
    BY <1>3, <1>4, <1>5, <1>6 DEF FirstOf, LastOf, ArgAt
<1>7. CASE I # {}
    <2>1. Min(I) \in I /\ Max(I) \in I
        BY <1>1, <1>7, MinIsIn, MaxIsIn
    <2>2. Min(I) # 0 /\ Max(I) # 0
        BY <1>1, <2>1
    <2>3. args[Min(I)] = x /\ args[Max(I)] = x
        BY <1>2, <2>1 DEF Only
    <2>4. QED BY <1>4, <1>5, <1>7, <2>2, <2>3 DEF FirstOf, LastOf, ArgAt
<1>8. QED BY <1>6, <1>7

LEMMA Kinds ==
    /\ Known \cap Word = {} /\ Known \cap Chan = {} /\ Known \cap Count = {}
    /\ Word \cap Chan = {} /\ Word \cap Count = {} /\ Chan \cap Count = {}
    /\ All \notin Known \cup Word \cup Chan \cup Count
    /\ Ssl \notin Known \cup Word \cup Chan \cup Count
    /\ DOMAIN NicksArg \cap (Known \cup Word \cup Chan \cup Count \cup {Ssl}) = {}
    /\ None \notin Known \cup Word \cup Chan \cup Count \cup {All, Ssl}
<1> DEFINE kinds ==
        <<Known, Word, Chan, Count, {All}, {Clear}, {Ssl}, DOMAIN NicksArg, {None}>>
<1>1. \A i, j \in 1 .. 9 : i # j => kinds[i] \cap kinds[j] = {}
    BY KindAssumption
<1>2. /\ kinds[1] = Known /\ kinds[2] = Word /\ kinds[3] = Chan /\ kinds[4] = Count
      /\ kinds[5] = {All} /\ kinds[7] = {Ssl} /\ kinds[8] = DOMAIN NicksArg /\ kinds[9] = {None}
    OBVIOUS
<1> HIDE DEF kinds
<1>3. \A x : \A i, j \in 1 .. 9 : x \in kinds[i] /\ x \in kinds[j] => i = j
    BY <1>1
<1>4. QED BY <1>2, <1>3

(* The words of a form: each part adds its own.                            *)
Arg == Known \cup Word \cup Chan \cup Count \cup {All, Ssl}

LEMMA ConcatValues ==
    ASSUME NEW s \in Seq(Arg), NEW t \in Seq(Arg)
    PROVE  /\ s \o t \in Seq(Arg)
           /\ Len(s \o t) \in Nat
           /\ Values(s \o t) = Values(s) \cup Values(t)
<1>1. /\ s \o t \in Seq(Arg) /\ Len(s \o t) = Len(s) + Len(t)
      /\ \A i \in 1 .. Len(s) + Len(t) : (s \o t)[i] = IF i <= Len(s) THEN s[i] ELSE t[i - Len(s)]
    BY ConcatProperties
<1>2. Len(s) \in Nat /\ Len(t) \in Nat
    BY LenProperties
<1>3. Values(s \o t) \subseteq Values(s) \cup Values(t)
    <2> SUFFICES ASSUME NEW i \in 1 .. Len(s) + Len(t)
                 PROVE  (s \o t)[i] \in Values(s) \cup Values(t)
        BY <1>1 DEF Values
    <2>1. CASE i <= Len(s)
        BY <1>1, <1>2, <2>1 DEF Values
    <2>2. CASE ~ (i <= Len(s))
        <3>1. i - Len(s) \in 1 .. Len(t)
            BY <1>2, <2>2
        <3>2. QED BY <1>1, <2>2, <3>1 DEF Values
    <2>3. QED BY <2>1, <2>2
<1>4. Values(s) \subseteq Values(s \o t)
    <2> SUFFICES ASSUME NEW i \in 1 .. Len(s) PROVE s[i] \in Values(s \o t)
        BY DEF Values
    <2>1. i \in 1 .. Len(s) + Len(t) /\ (s \o t)[i] = s[i]
        BY <1>1, <1>2
    <2>2. QED BY <1>1, <2>1 DEF Values
<1>5. Values(t) \subseteq Values(s \o t)
    <2> SUFFICES ASSUME NEW i \in 1 .. Len(t) PROVE t[i] \in Values(s \o t)
        BY DEF Values
    <2>1. Len(s) + i \in 1 .. Len(s) + Len(t) /\ (s \o t)[Len(s) + i] = t[i]
        BY <1>1, <1>2
    <2>2. QED BY <1>1, <2>1 DEF Values
<1>6. QED BY <1>1, <1>2, <1>3, <1>4, <1>5

LEMMA GivenFacts ==
    ASSUME NEW x \in Arg \cup {None}
    PROVE  /\ Given(x) \in Seq(Arg)
           /\ Len(Given(x)) = IF x = None THEN 0 ELSE 1
           /\ Values(Given(x)) = Only(x)
<1>1. CASE x = None
    BY <1>1 DEF Given, Values, Only
<1>2. CASE x # None
    BY <1>2 DEF Given, Values, Only
<1>3. QED BY <1>1, <1>2

LEMMA OneWord ==
    ASSUME NEW x \in Arg
    PROVE  <<x>> \in Seq(Arg) /\ Values(<<x>>) = {x}
BY DEF Values

LEMMA TwoWords ==
    ASSUME NEW x \in Arg, NEW y \in Arg
    PROVE  <<x, y>> \in Seq(Arg) /\ Values(<<x, y>>) = {x, y}
BY DEF Values

Place(network, channel) == Given(network) \o Given(channel)

LEMMA PlaceFacts ==
    ASSUME NEW network \in Known \cup {None}, NEW channel \in Chan \cup {None}
    PROVE  /\ Place(network, channel) \in Seq(Arg)
           /\ Values(Place(network, channel)) = Only(network) \cup Only(channel)
<1>1. network \in Arg \cup {None} /\ channel \in Arg \cup {None}
    BY DEF Arg
<1>2. QED BY <1>1, GivenFacts, ConcatValues DEF Place

(* !join, !part and !connect.                                              *)
LEMMA JoinRead ==
    ASSUME NEW network \in Known \cup {None}, NEW channel \in Chan, NEW count \in Count
    PROVE  JoinArgs(Place(network, channel) \o <<count>>) =
             [network |-> network, channel |-> channel, count |-> count]
<1> DEFINE args == Place(network, channel) \o <<count>>
<1>1. Len(args) \in Nat /\ Values(args) = Only(network) \cup Only(channel) \cup {count}
    <2>1. <<count>> \in Seq(Arg) /\ Values(<<count>>) = {count}
        BY OneWord DEF Arg
    <2>2. /\ Place(network, channel) \in Seq(Arg)
          /\ Values(Place(network, channel)) = Only(network) \cup Only(channel)
        BY PlaceFacts
    <2>3. QED BY <2>1, <2>2, ConcatValues
<1> HIDE DEF args
<1>2. FirstOf(args, Known \cup Word \cup {All}) = network
    <2>1. Values(args) \cap (Known \cup Word \cup {All}) = Only(network)
        BY <1>1, Kinds DEF Only
    <2>2. QED BY <1>1, <2>1, OnlyOne
<1>3. LastOf(args, Chan) = channel
    <2>1. Values(args) \cap Chan = Only(channel)
        BY <1>1, Kinds DEF Only
    <2>2. QED BY <1>1, <2>1, OnlyOne
<1>4. CountOf(args) = count
    <2>1. Values(args) \cap Count = Only(count)
        BY <1>1, Kinds DEF Only
    <2>2. QED BY <1>1, <2>1, OnlyOne, Kinds DEF CountOf
<1>5. QED BY <1>2, <1>3, <1>4 DEF JoinArgs, args

LEMMA PartRead ==
    ASSUME NEW network \in Known \cup {None}, NEW channel \in Chan
    PROVE  PartArgs(Place(network, channel) \o <<All>>) =
             [network |-> network, channel |-> channel, count |-> 0]
<1> DEFINE args == Place(network, channel) \o <<All>>
<1>1. Len(args) \in Nat /\ Values(args) = Only(network) \cup Only(channel) \cup {All}
    <2>1. <<All>> \in Seq(Arg) /\ Values(<<All>>) = {All}
        BY OneWord DEF Arg
    <2>2. /\ Place(network, channel) \in Seq(Arg)
          /\ Values(Place(network, channel)) = Only(network) \cup Only(channel)
        BY PlaceFacts
    <2>3. QED BY <2>1, <2>2, ConcatValues
<1>0. args # << >>
    <2>1. \A s : s = << >> => Values(s) = {}
        BY DEF Values
    <2>2. QED BY <1>1, <2>1
<1> HIDE DEF args
<1>2. FirstOf(args, Known \cup Word) = network
    <2>1. Values(args) \cap (Known \cup Word) = Only(network)
        BY <1>1, Kinds DEF Only
    <2>2. QED BY <1>1, <2>1, OnlyOne
<1>3. LastOf(args, Chan) = channel
    <2>1. Values(args) \cap Chan = Only(channel)
        BY <1>1, Kinds DEF Only
    <2>2. QED BY <1>1, <2>1, OnlyOne
<1>4. LastOf(args, Count \cup {All}) = All
    <2>1. Values(args) \cap (Count \cup {All}) = Only(All)
        BY <1>1, Kinds DEF Only
    <2>2. QED BY <1>1, <2>1, OnlyOne
<1>5. QED BY <1>0, <1>2, <1>3, <1>4 DEF PartArgs, args

LEMMA ConnectRead ==
    ASSUME NEW name \in Word \cup {None}, NEW count \in Count
    PROVE  ConnectArgs(Given(name) \o <<count, Ssl>>) =
             [nick |-> [strategy |-> "prefix", prefix |-> IF name = None THEN "fun" ELSE name],
              count |-> count, ssl |-> TRUE]
<1> DEFINE args == Given(name) \o <<count, Ssl>>
<1>1. Len(args) \in Nat /\ Values(args) = Only(name) \cup {count, Ssl}
    <2>1. <<count, Ssl>> \in Seq(Arg) /\ Values(<<count, Ssl>>) = {count, Ssl}
        BY TwoWords DEF Arg
    <2>2. Given(name) \in Seq(Arg) /\ Values(Given(name)) = Only(name)
        BY GivenFacts DEF Arg
    <2>3. QED BY <2>1, <2>2, ConcatValues
<1> HIDE DEF args
<1>2. LastOf(args, DOMAIN NicksArg) = None
    <2>1. Values(args) \cap DOMAIN NicksArg = Only(None)
        BY <1>1, Kinds DEF Only
    <2>2. QED BY <1>1, <2>1, OnlyOne
<1>3. LastOf(args, Known \cup Word) = name
    <2>1. Values(args) \cap (Known \cup Word) = Only(name)
        BY <1>1, Kinds DEF Only
    <2>2. QED BY <1>1, <2>1, OnlyOne
<1>4. LastOf(args, Count) = count /\ count # None
    <2>1. Values(args) \cap Count = Only(count)
        BY <1>1, Kinds DEF Only
    <2>2. QED BY <1>1, <2>1, OnlyOne, Kinds
<1>5. Contains(args, Ssl)
    BY <1>1 DEF Contains, Values
<1>6. QED BY <1>2, <1>3, <1>4, <1>5 DEF ConnectArgs, args

(* !art: the network is taken out, and the name is the last plain word.    *)
LEMMA PlaceThen ==
    ASSUME NEW network \in Known \cup {None}, NEW channel \in Chan \cup {None},
           NEW t \in Seq(Arg)
    PROVE  /\ Given(channel) \o t \in Seq(Arg)
           /\ network = None => Place(network, channel) \o t = Given(channel) \o t
           /\ network # None => Place(network, channel) \o t = <<network>> \o (Given(channel) \o t)
<1>1. Given(channel) \in Seq(Arg)
    BY GivenFacts DEF Arg
<1>2. network # None => <<network>> \in Seq(Arg)
    BY OneWord DEF Arg
<1>3. CASE network = None
    <2>1. Place(network, channel) = Given(channel)
        BY <1>1, <1>3, ConcatEmptySeq DEF Place, Given
    <2>2. QED BY <1>1, <1>3, <2>1, ConcatProperties
<1>4. CASE network # None
    <2>1. Place(network, channel) = <<network>> \o Given(channel)
        BY <1>4 DEF Place, Given
    <2>2. QED BY <1>1, <1>2, <1>4, <2>1, ConcatAssociative, ConcatProperties
<1>5. QED BY <1>3, <1>4

LEMMA FirstRemoved ==
    ASSUME NEW x \in Arg, NEW t \in Seq(Arg)
    PROVE  RemoveFirst(<<x>> \o t, x) = t
<1> DEFINE args == <<x>> \o t
           I == {i \in 1 .. Len(args) : args[i] = x}
<1>1. <<x>> \in Seq(Arg) /\ Len(<<x>>) = 1 /\ <<x>>[1] = x /\ Len(t) \in Nat
    BY LenProperties
<1>2. /\ args \in Seq(Arg) /\ Len(args) = 1 + Len(t) /\ args[1] = x
      /\ 1 \in 1 .. Len(args)
    BY <1>1, ConcatProperties
<1>3. SubSeq(args, 2, Len(args)) = t
    <2>1. CASE Len(t) = 0
        <3>1. t = << >>
            BY <2>1, EmptySeq
        <3>2. Len(args) < 2 /\ Len(args) \in Int
            BY <1>2, <2>1
        <3>3. SubSeq(args, 2, Len(args)) = << >>
            BY <3>2, SubSeqEmpty
        <3>4. QED BY <3>1, <3>3
    <2>2. CASE Len(t) # 0
        <3>1. 2 \in 2 .. 1 + Len(t) /\ 1 + Len(t) \in 2 .. 1 + Len(t)
            BY <1>1, <2>2
        <3>2. SubSeq(args, 2, 1 + Len(t)) = SubSeq(t, 2 - 1, 1 + Len(t) - 1)
            BY <1>1, <3>1, SubSeqOfConcat2
        <3>3. 2 - 1 = 1 /\ 1 + Len(t) - 1 = Len(t)
            BY <1>1
        <3>4. SubSeq(t, 1, Len(t)) = t
            BY SubSeqFull
        <3>5. QED BY <1>2, <3>2, <3>3, <3>4
    <2>3. QED BY <2>1, <2>2
<1>4. SubSeq(args, 1, 0) = << >>
    BY SubSeqEmpty
<1> HIDE DEF args
<1>5. Min(I) = 1
    <2>1. I \subseteq Nat /\ 1 \in I /\ \A i \in I : 1 =< i
        BY <1>2
    <2> HIDE DEF I
    <2>2. \A x1 \in I : (\A y \in I : x1 =< y) => x1 = 1
        BY <2>1
    <2>3. (CHOOSE x1 \in I : \A y \in I : x1 =< y) = 1
        BY <2>1, <2>2
    <2>4. QED BY <2>3 DEF Min
<1>6. SelectInSeq(args, LAMBDA v : v = x) = 1
    <2>1. I # {}
        BY <1>2
    <2>2. SelectInSeq(args, LAMBDA v : v = x) = IF I # {} THEN Min(I) ELSE 0
        BY DEF SelectInSeq
    <2> HIDE DEF I
    <2>3. QED BY <1>5, <2>1, <2>2
<1>7. RemoveFirst(args, x) = SubSeq(args, 1, 1 - 1) \o SubSeq(args, 1 + 1, Len(args))
    BY <1>2, <1>6 DEF RemoveFirst, RemoveAt
<1>8. RemoveFirst(args, x) = << >> \o t
    BY <1>3, <1>4, <1>7
<1>9. QED BY <1>8, ConcatEmptySeq DEF args

LEMMA ArtRead ==
    ASSUME NEW network \in Known \cup {None}, NEW channel \in Chan \cup {None},
           NEW count \in Count, NEW art \in Word
    PROVE  ArtArgs(Place(network, channel) \o <<count, art>>) =
             [network |-> network, channel |-> channel, count |-> count, name |-> art]
<1> DEFINE tail == <<count, art>>
           args == Place(network, channel) \o tail
           rest == Given(channel) \o tail
           plain == SelectLastInSeq(rest, LAMBDA a : a \notin Chan \cup Count)
<1>1. tail \in Seq(Arg) /\ Values(tail) = {count, art}
    BY TwoWords DEF Arg
<1> HIDE DEF tail
<1>2. /\ args \in Seq(Arg) /\ Len(args) \in Nat
      /\ Values(args) = Only(network) \cup Only(channel) \cup {count, art}
    <2>1. /\ Place(network, channel) \in Seq(Arg)
          /\ Values(Place(network, channel)) = Only(network) \cup Only(channel)
        BY PlaceFacts
    <2>2. QED BY <1>1, <2>1, ConcatValues
<1>3. rest \in Seq(Arg) /\ Len(rest) \in Nat /\ Values(rest) = Only(channel) \cup {count, art}
    <2>1. Given(channel) \in Seq(Arg) /\ Values(Given(channel)) = Only(channel)
        BY GivenFacts DEF Arg
    <2>2. QED BY <1>1, <2>1, ConcatValues
<1>4. RemoveFirst(args, network) = rest
    <2>1. CASE network = None
        <3>1. args = rest
            BY <1>1, <2>1, PlaceThen
        <3>2. network \notin Values(args)
            BY <1>2, <2>1, Kinds DEF Only
        <3>3. ~ \E i \in 1 .. Len(args) : args[i] = network
            BY <3>2 DEF Values
        <3>4. QED BY <3>1, <3>3 DEF RemoveFirst
    <2>2. CASE network # None
        <3>1. args = <<network>> \o rest
            BY <1>1, <2>2, PlaceThen
        <3>2. network \in Arg
            BY <2>2 DEF Arg
        <3>3. QED BY <1>3, <3>1, <3>2, FirstRemoved
    <2>3. QED BY <2>1, <2>2
<1> HIDE DEF args, rest
<1>5. ArgAt(rest, plain) = art
    <2> DEFINE I == {i \in 1 .. Len(rest) : rest[i] \notin Chan \cup Count}
    <2>1. plain = IF I # {} THEN Max(I) ELSE 0
        BY DEF SelectLastInSeq
    <2>2. I # {}
        BY <1>3, Kinds DEF Values
    <2>3. I \subseteq 1 .. Len(rest)
        OBVIOUS
    <2>4. \A i \in I : rest[i] = art
        BY <1>3 DEF Values, Only
    <2> HIDE DEF I
    <2>5. Max(I) \in I
        BY <1>3, <2>2, <2>3, MaxIsIn
    <2>6. QED BY <2>1, <2>2, <2>3, <2>4, <2>5 DEF ArgAt
<1>6. FirstOf(args, Known) = network
    <2>1. Values(args) \cap Known = Only(network)
        BY <1>2, Kinds DEF Only
    <2>2. QED BY <1>2, <2>1, OnlyOne
<1>7. LastOf(args, Chan) = channel
    <2>1. Values(args) \cap Chan = Only(channel)
        BY <1>2, Kinds DEF Only
    <2>2. QED BY <1>2, <2>1, OnlyOne
<1>8. CountOf(args) = count
    <2>1. Values(args) \cap Count = Only(count)
        BY <1>2, Kinds DEF Only
    <2>2. QED BY <1>2, <2>1, OnlyOne, Kinds DEF CountOf
<1>9. ArtArgs(args) = [network |-> network, channel |-> channel, count |-> count, name |-> art]
    BY <1>4, <1>5, <1>6, <1>7, <1>8 DEF ArtArgs
<1>10. QED BY <1>9 DEF args, tail

-----------------------------------------------------------------------------
(* !say is read by recursion over its arguments.                           *)
SaidTo(args, n, g) ==
    /\ g = [i \in 0 .. n |-> g[i]]
    /\ \A i \in 0 .. n : g[i] = IF i = 0 THEN SayStart ELSE SayArg(args, g[i - 1], i)

LEMMA SaidToExists ==
    ASSUME NEW args, NEW n \in Nat
    PROVE  \E g : SaidTo(args, n, g)
<1> DEFINE T == {i \in Nat : ~ \E g : SaidTo(args, i, g)}
<1>1. SUFFICES ASSUME T # {} PROVE FALSE
    OBVIOUS
<1>2. PICK m \in T : \A i \in T : m <= i
    <2>1. T \subseteq Nat
        OBVIOUS
    <2> HIDE DEF T
    <2>2. QED BY <1>1, <2>1, Least
<1>3. CASE m = 0
    <2>1. SaidTo(args, 0, [i \in 0 .. 0 |-> SayStart])
        BY DEF SaidTo
    <2>2. QED BY <1>3, <2>1
<1>4. CASE m # 0
    <2>1. m \in Nat /\ m - 1 \in Nat /\ m - 1 \notin T
        BY <1>2, <1>4
    <2>2. PICK g : SaidTo(args, m - 1, g)
        BY <2>1
    <2> DEFINE h == [i \in 0 .. m |-> IF i = m THEN SayArg(args, g[m - 1], m) ELSE g[i]]
    <2>3. \A i \in 0 .. m - 1 : g[i] = IF i = 0 THEN SayStart ELSE SayArg(args, g[i - 1], i)
        BY <2>2 DEF SaidTo
    <2>4. ASSUME NEW i \in 0 .. m
          PROVE  h[i] = IF i = 0 THEN SayStart ELSE SayArg(args, h[i - 1], i)
        <3>1. CASE i = m
            <4>1. h[i] = SayArg(args, g[m - 1], m) /\ h[i - 1] = g[m - 1] /\ i # 0
                BY <2>1, <3>1
            <4>2. QED BY <3>1, <4>1
        <3>2. CASE i # m
            <4>1. i \in 0 .. m - 1
                BY <2>1, <3>2
            <4>2. h[i] = g[i] /\ (i # 0 => h[i - 1] = g[i - 1])
                BY <2>1, <4>1
            <4>3. QED BY <2>3, <4>1, <4>2
        <3>3. QED BY <3>1, <3>2
    <2>5. h = [i \in 0 .. m |-> h[i]]
        OBVIOUS
    <2> HIDE DEF h
    <2>6. SaidTo(args, m, h)
        BY <2>4, <2>5 DEF SaidTo
    <2>7. QED BY <2>6
<1>5. QED BY <1>3, <1>4

LEMMA SayReadDef ==
    ASSUME NEW args \in Seq(Arg)
    PROVE  /\ SayRead(args)[0] = SayStart
           /\ \A i \in 1 .. Len(args) : SayRead(args)[i] = SayArg(args, SayRead(args)[i - 1], i)
<1>0. Len(args) \in Nat
    BY LenProperties
<1>1. PICK g : SaidTo(args, Len(args), g)
    BY <1>0, SaidToExists
<1>2. g = [i \in 0 .. Len(args) |-> IF i = 0 THEN SayStart ELSE SayArg(args, g[i - 1], i)]
    BY <1>1 DEF SaidTo
<1>3. SayRead(args) =
        [i \in 0 .. Len(args) |->
            IF i = 0 THEN SayStart ELSE SayArg(args, SayRead(args)[i - 1], i)]
    BY <1>2 DEF SayRead
<1>4. ASSUME NEW i \in 0 .. Len(args)
      PROVE  SayRead(args)[i] = IF i = 0 THEN SayStart ELSE SayArg(args, SayRead(args)[i - 1], i)
    BY <1>3
<1>5. QED BY <1>0, <1>4

(* What one argument adds to what was read.                                *)
Reading(network, channel, count, from) ==
    [network |-> network, channel |-> channel, count |-> count, from |-> from, ended |-> FALSE]

Over(network, channel, count, from) ==
    [network |-> network, channel |-> channel, count |-> count, from |-> from, ended |-> TRUE]

LEMMA SayNetwork ==
    ASSUME NEW args, NEW i, NEW c, NEW k, NEW f, args[i] \in Known
    PROVE  SayArg(args, Reading(None, c, k, f), i) = Reading(args[i], c, k, f)
BY Kinds DEF Reading, Over, SayArg

LEMMA SayChannel ==
    ASSUME NEW args, NEW i, NEW n, NEW c, NEW k, NEW f, args[i] \in Chan
    PROVE  SayArg(args, Reading(n, c, k, f), i) = Reading(n, args[i], k, f)
BY Kinds DEF Reading, Over, SayArg

LEMMA SayCount ==
    ASSUME NEW args, NEW i, NEW n, NEW c, NEW f, args[i] \in Count
    PROVE  SayArg(args, Reading(n, c, 0, f), i) = Reading(n, c, args[i], i + 1)
BY Kinds DEF Reading, Over, SayArg

LEMMA SayFirstWord ==
    ASSUME NEW args, NEW i, NEW c, NEW k, NEW f, args[i] \in Word
    PROVE  SayArg(args, Reading(None, c, k, f), i) = Over(None, c, k, i)
BY Kinds DEF Reading, Over, SayArg

LEMMA SayMore ==
    ASSUME NEW args, NEW i, NEW n, NEW c, NEW k, NEW f, n # None,
           args[i] \in Word \cup Known \cup (IF k = 0 THEN {} ELSE Count)
    PROVE  SayArg(args, Reading(n, c, k, f), i) = Reading(n, c, k, f)
BY Kinds DEF Reading, Over, SayArg

LEMMA SayEnded ==
    ASSUME NEW args, NEW i, NEW n, NEW c, NEW k, NEW f
    PROVE  SayArg(args, Over(n, c, k, f), i) = Over(n, c, k, f)
BY DEF Reading, Over, SayArg

LEMMA SayPlace ==
    ASSUME NEW network \in Known \cup {None}, NEW channel \in Chan \cup {None},
           NEW t \in Seq(Arg)
    PROVE  LET m    == Len(Place(network, channel))
               args == Place(network, channel) \o t
           IN  /\ args \in Seq(Arg) /\ m \in Nat /\ Len(args) = m + Len(t)
               /\ \A i \in 1 .. Len(t) : args[m + i] = t[i]
               /\ SayRead(args)[m] = Reading(network, channel, 0, 1)
<1> DEFINE place == Place(network, channel)
           m == Len(place)
           args == place \o t
<1>1. Len(t) \in Nat /\ place \in Seq(Arg) /\ m \in Nat
    BY PlaceFacts, LenProperties
<1>2. /\ args \in Seq(Arg) /\ Len(args) = m + Len(t)
      /\ \A i \in 1 .. m + Len(t) : args[i] = IF i <= m THEN place[i] ELSE t[i - m]
    BY <1>1, ConcatProperties
<1>3. \A i \in 1 .. Len(t) : args[m + i] = t[i]
    <2> HIDE DEF place, m, args
    <2> TAKE i \in 1 .. Len(t)
    <2>1. m + i \in 1 .. m + Len(t) /\ ~ (m + i <= m) /\ m + i - m = i
        BY <1>1
    <2>2. args[m + i] = IF m + i <= m THEN place[m + i] ELSE t[m + i - m]
        BY <1>1, <1>2, <2>1
    <2>3. QED BY <2>1, <2>2
<1>4. \A i \in 1 .. m : args[i] = place[i] /\ SayRead(args)[i] = SayArg(args, SayRead(args)[i - 1], i)
    <2> HIDE DEF place, m, args
    <2> TAKE i \in 1 .. m
    <2>1. i \in 1 .. m + Len(t) /\ i <= m
        BY <1>1
    <2>2. QED BY <1>2, <2>1, SayReadDef
<1>5. SayRead(args)[0] = Reading(None, None, 0, 1)
    BY <1>2, SayReadDef DEF SayStart, Reading
<1>6. SayRead(args)[m] = Reading(network, channel, 0, 1)
    <2>1. CASE network = None /\ channel = None
        <3>1. m = 0
            BY <2>1 DEF Place, Given
        <3>2. QED BY <1>5, <2>1, <3>1
    <2>2. CASE network # None /\ channel = None
        <3>1. m = 1 /\ place[1] = network
            BY <2>2 DEF Place, Given
        <3> HIDE DEF place, m, args
        <3>2. args[1] = network /\ SayRead(args)[1] = SayArg(args, SayRead(args)[0], 1)
            BY <1>4, <3>1
        <3>3. SayArg(args, Reading(None, None, 0, 1), 1) = Reading(args[1], None, 0, 1)
            BY <2>2, <3>2, SayNetwork
        <3>4. QED BY <1>5, <2>2, <3>1, <3>2, <3>3
    <2>3. CASE network = None /\ channel # None
        <3>1. m = 1 /\ place[1] = channel
            BY <2>3 DEF Place, Given
        <3> HIDE DEF place, m, args
        <3>2. args[1] = channel /\ SayRead(args)[1] = SayArg(args, SayRead(args)[0], 1)
            BY <1>4, <3>1
        <3>3. SayArg(args, Reading(None, None, 0, 1), 1) = Reading(None, args[1], 0, 1)
            BY <2>3, <3>2, SayChannel
        <3>4. QED BY <1>5, <2>3, <3>1, <3>2, <3>3
    <2>4. CASE network # None /\ channel # None
        <3>1. m = 2 /\ place[1] = network /\ place[2] = channel
            BY <2>4 DEF Place, Given
        <3> HIDE DEF place, m, args
        <3>2. args[1] = network /\ SayRead(args)[1] = SayArg(args, SayRead(args)[0], 1)
            BY <1>4, <3>1
        <3>3. args[2] = channel /\ SayRead(args)[2] = SayArg(args, SayRead(args)[1], 2)
            BY <1>4, <3>1
        <3>4. SayArg(args, Reading(None, None, 0, 1), 1) = Reading(args[1], None, 0, 1)
            BY <2>4, <3>2, SayNetwork
        <3>5. SayArg(args, Reading(args[1], None, 0, 1), 2)
                = Reading(args[1], args[2], 0, 1)
            BY <2>4, <3>3, SayChannel
        <3>6. QED BY <1>5, <3>1, <3>2, <3>3, <3>4, <3>5
    <2>5. QED BY <2>1, <2>2, <2>3, <2>4
<1>7. QED BY <1>1, <1>2, <1>3, <1>6


(* After k words of the message.                                           *)
SaidWords(network, channel, count, from, k) ==
    IF network = None /\ k > 0 THEN Over(network, channel, count, from)
    ELSE Reading(network, channel, count, from)

(* !say is read as it is written, for a message of any length, if the      *)
(* message is Sayable: without a network it begins with a plain word, and  *)
(* with one it has no channel and, after a count of 0, no number.  The     *)
(* code misreads the others (bot.go:652-671).                              *)
THEOREM SayFormIsRead ==
    ASSUME NEW network \in Known \cup {None}, NEW channel \in Chan \cup {None},
           NEW count \in Count, NEW words \in Seq(Word \cup Known \cup Chan \cup Count),
           words # << >>, Sayable(network, count, words)
    PROVE  SayArgs(Given(network) \o Given(channel) \o <<count>> \o words) =
             [network |-> network, channel |-> channel, count |-> count, message |-> words]
<1> DEFINE place == Place(network, channel)
           m == Len(place)
           t == <<count>> \o words
           args == place \o t
<1>1. words \in Seq(Arg) /\ Len(words) \in Nat /\ Len(words) # 0
    <2>1. words \in Seq(Arg)
        BY DEF Arg
    <2>2. QED BY <2>1, LenProperties, EmptySeq
<1>2. <<count>> \in Seq(Arg) /\ Len(<<count>>) = 1 /\ <<count>>[1] = count
    BY OneWord DEF Arg
<1>3. /\ t \in Seq(Arg) /\ Len(t) = 1 + Len(words) /\ t[1] = count
      /\ \A k \in 1 .. Len(words) : t[1 + k] = words[k]
    <2> HIDE DEF t
    <2>1. /\ t \in Seq(Arg) /\ Len(t) = 1 + Len(words)
          /\ \A i \in 1 .. 1 + Len(words) : t[i] = IF i <= 1 THEN <<count>>[i] ELSE words[i - 1]
        BY <1>1, <1>2, ConcatProperties DEF t
    <2>2. t[1] = count
        BY <1>1, <1>2, <2>1
    <2>3. ASSUME NEW k \in 1 .. Len(words) PROVE t[1 + k] = words[k]
        <3>1. 1 + k \in 1 .. 1 + Len(words) /\ ~ (1 + k <= 1) /\ 1 + k - 1 = k
            BY <1>1
        <3>2. t[1 + k] = IF 1 + k <= 1 THEN <<count>>[1 + k] ELSE words[1 + k - 1]
            BY <1>1, <2>1, <3>1
        <3>3. QED BY <3>1, <3>2
    <2>4. QED BY <2>1, <2>2, <2>3
<1> HIDE DEF t
<1>4. /\ args \in Seq(Arg) /\ m \in Nat /\ Len(args) = m + Len(t)
      /\ \A i \in 1 .. Len(t) : args[m + i] = t[i]
      /\ SayRead(args)[m] = Reading(network, channel, 0, 1)
    BY <1>3, SayPlace
<1>5. place \in Seq(Arg) /\ place \o <<count>> \in Seq(Arg) /\ Len(place \o <<count>>) = m + 1
    BY <1>2, PlaceFacts, ConcatProperties
<1>6. args = (place \o <<count>>) \o words
    BY <1>1, <1>2, <1>5, ConcatAssociative DEF t
<1>7. SubSeq(args, m + 2, Len(args)) = words
    <2> DEFINE head == place \o <<count>>
               n == m + 1
    <2>1. head \in Seq(Arg) /\ Len(head) = n /\ n \in Nat
        BY <1>4, <1>5
    <2>2. Len(args) = n + Len(words) /\ args = head \o words
        BY <1>1, <1>3, <1>4, <1>6
    <2>3. m + 2 = n + 1
        BY <1>4
    <2> HIDE DEF place, m, args, head, n
    <2>4. n + 1 \in n + 1 .. n + Len(words) /\ n + Len(words) \in n + 1 .. n + Len(words)
        BY <1>1, <2>1
    <2>5. SubSeq(head \o words, n + 1, n + Len(words)) = SubSeq(words, n + 1 - n, n + Len(words) - n)
        BY <1>1, <2>1, <2>4, SubSeqOfConcat2
    <2>6. n + 1 - n = 1 /\ n + Len(words) - n = Len(words)
        BY <1>1, <2>1
    <2>7. SubSeq(words, 1, Len(words)) = words
        BY <1>1, SubSeqFull
    <2>8. QED BY <2>2, <2>3, <2>5, <2>6, <2>7
<1> HIDE DEF place, m, args
<1>8. SayRead(args)[m + 1] = SaidWords(network, channel, count, m + 2, 0)
    <2>1. m + 1 \in 1 .. Len(args) /\ m + 1 - 1 = m /\ args[m + 1] = count
        BY <1>1, <1>3, <1>4
    <2>2. SayRead(args)[m + 1] = SayArg(args, SayRead(args)[m], m + 1)
        <3> DEFINE i == m + 1
        <3>1. i \in 1 .. Len(args) /\ i - 1 = m
            BY <1>1, <1>3, <1>4
        <3> HIDE DEF i
        <3>2. SayRead(args)[i] = SayArg(args, SayRead(args)[i - 1], i)
            BY <1>4, <3>1, SayReadDef
        <3>3. QED BY <3>1, <3>2 DEF i
    <2>3. SayArg(args, Reading(network, channel, 0, 1), m + 1)
            = Reading(network, channel, args[m + 1], m + 1 + 1)
        BY <2>1, SayCount
    <2>4. m + 1 + 1 = m + 2
        BY <1>4
    <2>5. QED BY <1>4, <2>1, <2>2, <2>3, <2>4 DEF SaidWords
<1>9. ASSUME NEW k \in 1 .. Len(words), SayRead(args)[m + 1 + (k - 1)] = SaidWords(network, channel, count, m + 2, k - 1)
      PROVE  SayRead(args)[m + 1 + k] = SaidWords(network, channel, count, m + 2, k)
    <2> DEFINE i == m + 1 + k
    <2>1. /\ i \in 1 .. Len(args) /\ i - 1 = m + 1 + (k - 1)
          /\ 1 + k \in 1 .. Len(t) /\ i = m + (1 + k)
        BY <1>1, <1>3, <1>4
    <2>2. args[i] = words[k]
        BY <1>3, <1>4, <2>1
    <2>3. SayRead(args)[i] = SayArg(args, SaidWords(network, channel, count, m + 2, k - 1), i)
        BY <1>4, <1>9, <2>1, SayReadDef
    <2>4. k \in Nat /\ k - 1 \in Nat
        BY <1>1
    <2> HIDE DEF i
    <2>5. CASE network = None /\ k = 1
        <3>1. args[i] \in Word
            BY <2>2, <2>5 DEF Sayable
        <3>2. SaidWords(network, channel, count, m + 2, k - 1) = Reading(None, channel, count, m + 2)
            BY <2>4, <2>5 DEF SaidWords
        <3>3. SayArg(args, Reading(None, channel, count, m + 2), i)
                = Over(None, channel, count, i)
            BY <3>1, SayFirstWord
        <3>4. i = m + 2
            BY <1>4, <2>5 DEF i
        <3>5. SaidWords(network, channel, count, m + 2, k) = Over(None, channel, count, m + 2)
            BY <2>4, <2>5 DEF SaidWords
        <3>6. QED BY <2>3, <3>2, <3>3, <3>4, <3>5 DEF i
    <2>6. CASE network = None /\ k # 1
        <3>1. /\ SaidWords(network, channel, count, m + 2, k - 1) = Over(None, channel, count, m + 2)
              /\ SaidWords(network, channel, count, m + 2, k) = Over(None, channel, count, m + 2)
            BY <2>4, <2>6 DEF SaidWords
        <3>2. SayArg(args, Over(None, channel, count, m + 2), i)
                = Over(None, channel, count, m + 2)
            BY SayEnded
        <3>3. QED BY <2>3, <3>1, <3>2 DEF i
    <2>7. CASE network # None
        <3>1. args[i] \in Word \cup Known \cup (IF count = 0 THEN {} ELSE Count)
            <4>1. k \in DOMAIN words
                BY <1>1, LenProperties
            <4>2. QED BY <2>2, <2>7, <4>1 DEF Sayable
        <3>2. /\ SaidWords(network, channel, count, m + 2, k - 1) = Reading(network, channel, count, m + 2)
              /\ SaidWords(network, channel, count, m + 2, k) = Reading(network, channel, count, m + 2)
            BY <2>7 DEF SaidWords
        <3>3. SayArg(args, Reading(network, channel, count, m + 2), i)
                = Reading(network, channel, count, m + 2)
            BY <2>7, <3>1, SayMore
        <3>4. QED BY <2>3, <3>2, <3>3 DEF i
    <2>8. QED BY <2>5, <2>6, <2>7
<1>10. \A k \in 0 .. Len(words) : SayRead(args)[m + 1 + k] = SaidWords(network, channel, count, m + 2, k)
    <2> DEFINE T == {k \in 0 .. Len(words) : SayRead(args)[m + 1 + k] # SaidWords(network, channel, count, m + 2, k)}
    <2>1. SUFFICES ASSUME T # {} PROVE FALSE
        OBVIOUS
    <2>2. PICK k \in T : \A j \in T : k <= j
        <3>1. T \subseteq Nat
            BY <1>1
        <3> HIDE DEF T
        <3>2. QED BY <2>1, <3>1, Least
    <2>3. k # 0
        BY <1>4, <1>8, <2>2
    <2>4. k \in 1 .. Len(words) /\ k - 1 \in 0 .. Len(words) /\ k - 1 \notin T
        BY <1>1, <2>2, <2>3
    <2>5. QED BY <1>9, <2>2, <2>4
<1>11. SayRead(args)[Len(args)] = SaidWords(network, channel, count, m + 2, Len(words))
    <2>1. Len(args) = m + 1 + Len(words) /\ Len(words) \in 0 .. Len(words)
        BY <1>1, <1>3, <1>4
    <2>2. QED BY <1>10, <2>1
<1>12. SayArgs(args) =
         [network |-> network, channel |-> channel, count |-> count, message |-> words]
    <2> DEFINE r == SayRead(args)[Len(args)]
    <2>1. r = Over(network, channel, count, m + 2) \/ r = Reading(network, channel, count, m + 2)
        BY <1>11 DEF SaidWords
    <2> HIDE DEF r
    <2>2. r.network = network /\ r.channel = channel /\ r.count = count /\ r.from = m + 2
        BY <2>1 DEF Over, Reading
    <2>3. SayArgs(args) = [network |-> r.network, channel |-> r.channel, count |-> r.count,
                           message |-> SubSeq(args, r.from, Len(args))]
        BY DEF SayArgs, r
    <2>4. QED BY <1>7, <2>2, <2>3
<1>13. QED BY <1>6, <1>12 DEF place, Place

(* FormsAreRead, of every state: any names of networks and channels, any   *)
(* numbers, and for !say any words that are Sayable (handleJoin,           *)
(* handlePart, handleArt, handleConnect and handleSay).                    *)
THEOREM FormsAreReadAlways == Spec => []FormsAreRead
<1>1. FormsAreRead
    <2> SUFFICES ASSUME NEW network \in Known \cup {None}, NEW channel \in Chan \cup {None},
                        NEW count \in Count
                 PROVE
        LET place == Given(network) \o Given(channel) IN
        /\ \A words \in Texts : Sayable(network, count, words) =>
              SayArgs(place \o <<count>> \o words) =
                [network |-> network, channel |-> channel, count |-> count, message |-> words]
        /\ \A art \in Word :
              ArtArgs(place \o <<count, art>>) =
                [network |-> network, channel |-> channel, count |-> count, name |-> art]
        /\ channel # None =>
              /\ JoinArgs(place \o <<count>>) =
                    [network |-> network, channel |-> channel, count |-> count]
              /\ PartArgs(place \o <<All>>) =
                    [network |-> network, channel |-> channel, count |-> 0]
        /\ \A name \in Word \cup {None} :
              ConnectArgs(Given(name) \o <<count, Ssl>>) =
                [nick |-> [strategy |-> "prefix", prefix |-> IF name = None THEN "fun" ELSE name],
                 count |-> count, ssl |-> TRUE]
        BY DEF FormsAreRead
    <2>1. ASSUME NEW words \in Texts, Sayable(network, count, words)
          PROVE  SayArgs(Given(network) \o Given(channel) \o <<count>> \o words) =
                   [network |-> network, channel |-> channel, count |-> count, message |-> words]
        <3> DEFINE S == Word \cup Known \cup Chan \cup Count
        <3>1. PICK n \in 1 .. MaxWords : words \in [1 .. n -> S]
            BY DEF Texts
        <3> HIDE DEF S
        <3>2. n \in Nat /\ n >= 1
            BY ArgumentAssumption
        <3>3. words \in Seq(S) /\ Len(words) = n
            BY <3>1, <3>2
        <3>4. words # << >>
            BY <3>2, <3>3
        <3>5. QED BY <2>1, <3>3, <3>4, SayFormIsRead DEF S
    <2>2. ASSUME NEW art \in Word
          PROVE  ArtArgs(Given(network) \o Given(channel) \o <<count, art>>) =
                   [network |-> network, channel |-> channel, count |-> count, name |-> art]
        BY ArtRead DEF Place
    <2>3. ASSUME channel # None
          PROVE  /\ JoinArgs(Given(network) \o Given(channel) \o <<count>>) =
                      [network |-> network, channel |-> channel, count |-> count]
                 /\ PartArgs(Given(network) \o Given(channel) \o <<All>>) =
                      [network |-> network, channel |-> channel, count |-> 0]
        BY <2>3, JoinRead, PartRead DEF Place
    <2>4. ASSUME NEW name \in Word \cup {None}
          PROVE  ConnectArgs(Given(name) \o <<count, Ssl>>) =
                   [nick |-> [strategy |-> "prefix", prefix |-> IF name = None THEN "fun" ELSE name],
                    count |-> count, ssl |-> TRUE]
        BY ConnectRead
    <2>5. QED BY <2>1, <2>2, <2>3, <2>4
<1>2. QED BY <1>1, PTL
=============================================================================
