-------------------------------- MODULE Hunt --------------------------------
(***************************************************************************)
(* A monster hunting one player who stands still: Monster::UpdateIdle      *)
(* calls FindPath anew before every step and takes the path's second cell. *)
(* FindClosestPlayer gives the same target every time, and UpdateMove does *)
(* nothing but wait for the step to end, so neither is a variable here.    *)
(***************************************************************************)
EXTENDS FindPath

Beside(a, b) == Steps(a, b) = 1

\* UpdateIdle plans unless it stands beside the target, whom it attacks then.
Plan ==
  /\ ~Beside(src, goal)
  /\ Call \/ Refuse

\* ERROR for checking: the first cell of the path, where the monster stands.
StepOnFirst ==
  /\ phase = "done"
  /\ Len(path) > 1
  /\ CanGo(path[1])
  /\ src' = path[1]
  /\ phase' = "idle"
  /\ UNCHANGED <<walkable, goal, dest, pos, path>>
  /\ UNCHANGED search /\ UNCHANGED choice

\* UpdateIdle with the path: a step, if the path has a second cell.  Otherwise the
\* monster stays, and every later call finds the same.
StepOn ==
  /\ phase = "done"
  /\ Len(path) > 1
  /\ CanGo(path[2])
  /\ src' = path[2]
  /\ phase' = "idle"
  /\ UNCHANGED <<walkable, goal, dest, pos, path>>
  /\ UNCHANGED search /\ UNCHANGED choice

HuntNext == Plan \/ Turn \/ StepOn

HuntSafeSpec == Init /\ [][HuntNext]_vars

HuntSpec == HuntSafeSpec /\ WF_vars(HuntNext)
-----------------------------------------------------------------------------
\* The cells an eligible walk of any length leads to, step by step.
Walkable ==
  LET far == Cardinality(walkable)
      after[n \in 0..far] ==
        IF n = 0 THEN {src}
        ELSE LET before == after[n - 1]
             IN  before \cup {q \in UNION {InFront(c) : c \in before} : Eligible(q)}
  IN  after[far]

\* The target is not too far, and a cell beside it can be walked to within the depth.
WayOpen == Steps(goal, src) < MaxDepth /\ \E c \in Walkable : Beside(c, goal)

\* While the target stands still and can be reached, the monster gets there.
HuntArrives == (phase = "idle" /\ src # goal /\ WayOpen) ~> Beside(src, goal)
=============================================================================
