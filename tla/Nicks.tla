------------------------------- MODULE Nicks --------------------------------
(***************************************************************************)
(* Nick generators (internal/nick) and the configuration they are made     *)
(* from (internal/config/config.go), as operators.                         *)
(*                                                                         *)
(* A prefix is given by its length, 0 for the empty one, and a wordlist    *)
(* file by the kinds of its lines, unless it is Embedded.  A nick is a     *)
(* sequence of symbols.                                                    *)
(***************************************************************************)
EXTENDS Naturals, Sequences, SequencesExt

CONSTANTS
    MaxTries,   \* 100 in NewGenerator
    Embedded    \* no wordlist file is given

ASSUME TriesAssumption == MaxTries \in Nat \ {0}

-----------------------------------------------------------------------------
(* Configuration.                                                          *)
EffectiveNickConfig(net) ==
    IF net.nick.strategy # "" THEN net.nick
    ELSE [strategy |-> "prefix", prefix |-> net.nickPrefix, length |-> 0, wordlist |-> Embedded]

(* Validate, of one network: the nick and the presence of a server.        *)
ValidNetwork(net) ==
    LET nick == EffectiveNickConfig(net) IN
    /\ net.servers # << >>
    /\ \/ nick.strategy = "prefix" /\ (nick.prefix > 0 \/ net.nickPrefix > 0)
       \/ nick.strategy \in {"random", "wordlist"}

(* parseServerAddr: the port may be missing but must be a number.          *)
ServerParses(addr) == addr # "host:junk"

(* loadCustomWordlist: adjectives up to an empty line, then nouns.         *)
CustomLoads(lines) ==
    \E i, j, k \in DOMAIN lines :
        i < j /\ j < k /\ lines[i] = "word" /\ lines[j] = "empty" /\ lines[k] = "word"

(* NewGenerator: which kind of generator, or an error.  (A wordlist file   *)
(* that cannot be opened loads like an empty one.)                         *)

\* Faulty variant: a wordlist generator needs a prefix too.
NewGeneratorPrefixed(nick) ==
    CASE nick.strategy = "prefix" -> IF nick.prefix > 0 THEN "prefix" ELSE "error"
      [] nick.strategy = "random" -> "random"
      [] nick.strategy = "wordlist" ->
           IF nick.prefix > 0 /\ (nick.wordlist = Embedded \/ CustomLoads(nick.wordlist))
           THEN "wordlist" ELSE "error"
      [] OTHER -> "error"

NewGenerator(nick) ==
    CASE nick.strategy = "prefix" -> IF nick.prefix > 0 THEN "prefix" ELSE "error"
      [] nick.strategy = "random" -> "random"
      [] nick.strategy = "wordlist" ->
           IF nick.wordlist = Embedded \/ CustomLoads(nick.wordlist) THEN "wordlist" ELSE "error"
      [] OTHER -> "error"

(* What stands between a network with a manager and its first client,      *)
(* leaving proxies aside (NewNetworkManager, AddClients); and between the  *)
(* home network and its one client, whose nick is the legacy prefix and    *)
(* must not be empty (New).                                                *)
CanStart(net) ==
    ServerParses(net.servers[1]) /\ NewGenerator(EffectiveNickConfig(net)) # "error"

HomeStarts(net) == ServerParses(net.servers[1]) /\ net.nickPrefix > 0

-----------------------------------------------------------------------------
(* The nicks drawn by chance: of a text, or of an adjective and a noun     *)
(* with or without an underscore and digits (format).                      *)
NickLength(nick) == IF nick.length <= 0 THEN 9 ELSE nick.length

PrefixOf(nick) == [i \in 1 .. nick.prefix |-> "p"]

RandomRoom(nick) ==
    IF nick.prefix < NickLength(nick) THEN NickLength(nick) - nick.prefix ELSE 6

RandomDraw(nick, text) == PrefixOf(nick) \o SubSeq(text, 1, RandomRoom(nick))

Formatted(adjective, noun) ==
    LET Digits(n) == [1 .. n -> {"0"}]
    IN  {adjective \o noun \o digits : digits \in UNION {Digits(n) : n \in 0 .. 3}}
          \cup {adjective \o <<"_">> \o noun \o digits :
                    digits \in UNION {Digits(n) : n \in 0 .. 2}}

\* Faulty variant: truncated before the prefix is put in front.
WordlistDrawLate(nick, word) ==
    PrefixOf(nick) \o SubSeq(word, 1, Min({Len(word), NickLength(nick)}))

WordlistDraw(nick, word) ==
    LET whole == PrefixOf(nick) \o word
    IN  SubSeq(whole, 1, Min({Len(whole), NickLength(nick)}))

-----------------------------------------------------------------------------
(* deduplicator.Generate, for what the inner generator draws: the first    *)
(* nick not seen, or a last one with the index at its end.                 *)
Generate(seen, draws, index) ==
    LET fresh == {i \in 1 .. MaxTries : draws[i] \notin seen} IN
    IF fresh # {} THEN [nick |-> draws[Min(fresh)], fallback |-> FALSE]
    ELSE [nick |-> Append(draws[MaxTries + 1], index), fallback |-> TRUE]

(* The nicks given by calls one after the other; all of them are seen.     *)

\* Faulty variant: a nick made unique by its index is not entered as seen.
SeenForgetful(given) == {given[i].nick : i \in {j \in DOMAIN given : ~ given[j].fallback}}

Seen(given) == {given[i].nick : i \in DOMAIN given}

GivenUpTo(calls) ==
    LET given[n \in 0 .. Len(calls)] ==
          IF n = 0 THEN << >>
          ELSE Append(given[n - 1],
                      Generate(Seen(given[n - 1]), calls[n].draws, calls[n].index))
    IN  given

GivenNicks(calls) == GivenUpTo(calls)[Len(calls)]
=============================================================================
