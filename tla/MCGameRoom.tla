----------------------------- MODULE MCGameRoom -----------------------------
(* Instances of GameRoom for TLC.                                          *)
EXTENDS GameRoom

\* A corridor of three cells: a player can stand beside the monster, two cells
\* away, or on it.
Corridor == {<<0, 0>>, <<1, 0>>, <<2, 0>>}
\* The least room in which a monster and a player meet.
Pair == {<<0, 0>>, <<1, 0>>}
West == <<0, 0>>
Middle == <<1, 0>>
East == <<2, 0>>
=============================================================================
