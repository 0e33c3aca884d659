----------------------------- MODULE MCPlayback ------------------------------
(* Instances of Playback for TLC.                                          *)
EXTENDS Playback

CONSTANTS a1, a2, c1, c2

\* Both clients are connected, or only the first is selected.
MCLists == {<<c1>>, <<c1, c2>>}
=============================================================================
