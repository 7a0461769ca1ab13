------------------------------- MODULE MCHunt -------------------------------
(***************************************************************************)
(* Hunt on small maps, and on a map on which the hunt never ends.          *)
(***************************************************************************)
EXTENDS Hunt

\* Squares, in which no cell is too far; corridors, in which some are; and an
\* open field whose far corner is cut off from the near one.
MCMaps ==
  SUBSET ((0..2) \X (0..2)) \cup SUBSET ((0..5) \X {0}) \cup {(0..4) \X (0..1)}

\*   . . . . . . . . .
\*   P # # # # # # # .
\*   # M . . . . . . .
Detour == {((0..8) \X {0}) \cup {<<0, 1>>, <<8, 1>>} \cup ((1..8) \X {2})}
DetourSpec == goal = <<0, 1>> /\ src = <<1, 2>> /\ HuntSpec
=============================================================================
