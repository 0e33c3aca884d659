---------------------------- MODULE MCCommands -----------------------------
(* Instance of Commands for TLC.                                           *)
EXTENDS Commands

CONSTANTS k1, k2, home, efnet, test, side, dragon, hello, random

Msg(op, args) == [op |-> op, args |-> args]

MCNicksArg == [a \in {random} |-> "random"]

\* Commands that name both, one or nothing of network and channel; the
\* file dragon can be asked for.
MCMessages ==
    {Msg("context", <<efnet, test>>), Msg("context", <<home>>), Msg("context", <<Clear>>),
     Msg("join", <<1>>), Msg("join", <<side>>), Msg("join", <<efnet, side>>),
     Msg("part", << >>), Msg("say", <<1, hello>>), Msg("art", <<dragon>>),
     Msg("raw", <<All, hello>>), Msg("nick", <<All, hello>>), Msg("nick", <<hello>>)}
=============================================================================
