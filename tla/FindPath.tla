------------------------------ MODULE FindPath ------------------------------
(***************************************************************************)
(* GameRoom::FindPath, one call: a best-first search that knows a cell     *)
(* only by its distance to the destination, then the choice of the nearest *)
(* cell it has reached, then the walk back along parents.                  *)
(*                                                                         *)
(* UpdateIdle calls it from the monster's cell to its target's cell.  Both *)
(* are occupied, so CanGo refuses both: unless they are one cell, the      *)
(* search never finds its destination and the choice always decides.       *)
(***************************************************************************)
EXTENDS Integers, Sequences, FiniteSets

CONSTANTS
  Maps,        \* sets of cells <<x, y>>: tiles that are walkable and hold no third object
  MaxDepth     \* maxDepth, 10 in the code

ASSUME MapsAssumption == Maps \subseteq SUBSET (Int \X Int)
ASSUME DepthAssumption == MaxDepth \in Nat

VARIABLES
  walkable,    \* the map of this call, a member of Maps
  src,         \* the monster's cell
  goal,        \* the target's cell
  dest,        \* the parameter dest, which the code assigns to
  pq,          \* the heap, as the set of its nodes
  best,        \* best, on the cells it has keys for
  parent,      \* parent
  unseen,      \* keys the loop over best has not come to
  bestScore,   \* bestScore
  pos,         \* where the walk back stands
  path,        \* path; the code pushes at the end and reverses
  phase        \* which part of the function runs

place == <<walkable, src, goal>>
search == <<pq, best, parent>>
choice == <<unseen, bestScore>>
vars == <<walkable, src, goal, dest, pq, best, parent, unseen, bestScore, pos,
          path, phase>>

Abs(n) == IF n < 0 THEN -n ELSE n
Steps(a, b) == Abs(a[1] - b[1]) + Abs(a[2] - b[2])
InFront(c) == {<<c[1], c[2] - 1>>, <<c[1], c[2] + 1>>,
               <<c[1] - 1, c[2]>>, <<c[1] + 1, c[2]>>}

\* VectorInt's operator<, the order of map<VectorInt, int32>.
Before(a, b) == a[1] < b[1] \/ (a[1] = b[1] /\ a[2] < b[2])

CanGo(c) == c \in walkable /\ c # src /\ c # goal

\* FLT_MAX: above every score, which is less than the two depths together.
FltMax == 2 * MaxDepth

Node(c) == [cost |-> Steps(goal, c), pos |-> c]

Init ==
  /\ walkable \in Maps
  /\ src \in walkable /\ goal \in walkable
  /\ dest = goal
  /\ pq = {}
  /\ best = [c \in {} |-> 0]
  /\ parent = [c \in {} |-> c]
  /\ unseen = {}
  /\ bestScore = FltMax
  /\ pos = src
  /\ path = << >>
  /\ phase = "idle"

-----------------------------------------------------------------------------
Call ==
  /\ phase = "idle"
  /\ Steps(goal, src) < MaxDepth
  /\ phase' = "search"
  /\ dest' = goal
  /\ pq' = {Node(src)}
  /\ best' = [c \in {src} |-> Steps(goal, src)]
  /\ parent' = [c \in {src} |-> src]
  /\ path' = << >>
  /\ UNCHANGED place /\ UNCHANGED choice /\ UNCHANGED pos

\* Too far: the function returns false and path stays as it was.
Refuse ==
  /\ phase = "idle"
  /\ Steps(goal, src) >= MaxDepth
  /\ phase' = "refused"
  /\ UNCHANGED <<dest, pos, path>>
  /\ UNCHANGED place /\ UNCHANGED search /\ UNCHANGED choice

\* top(): the heap gives any of the nodes of least cost.
Tops == {n \in pq : \A m \in pq : n.cost <= m.cost}

\* best[c] makes a key with value 0, which the code takes for an unknown cell.
BestCost(c) == IF c \in DOMAIN best THEN best[c] ELSE 0

\* ERROR for checking: a better cost replaces a lower one.
AlreadyBetterLoose(c) == BestCost(c) # 0 /\ BestCost(c) < Steps(goal, c)

AlreadyBetter(c) == BestCost(c) # 0 /\ BestCost(c) <= Steps(goal, c)

\* ERROR for checking: the depth is counted from the destination.
ReservesFromDest(c) ==
  {q \in InFront(c) : CanGo(q) /\ Steps(dest, q) < MaxDepth /\ ~AlreadyBetter(q)}

\* ERROR for checking: CanGo is not asked.
ReservesBlocked(c) ==
  {q \in InFront(c) : Steps(src, q) < MaxDepth /\ ~AlreadyBetter(q)}

\* The neighbours of c that are reserved.
Reserves(c) ==
  {q \in InFront(c) : CanGo(q) /\ Steps(src, q) < MaxDepth /\ ~AlreadyBetter(q)}

\* One turn of the search.
Visit ==
  /\ phase = "search"
  /\ \E n \in Tops :
       /\ best[n.pos] < n.cost \/ n.pos # dest
       /\ LET new == IF best[n.pos] < n.cost THEN {} ELSE Reserves(n.pos)
          IN  /\ pq' = (pq \ {n}) \cup {Node(q) : q \in new}
              /\ best' = [c \in DOMAIN best \cup new |->
                            IF c \in new THEN Steps(goal, c) ELSE best[c]]
              /\ parent' = [c \in DOMAIN parent \cup new |->
                              IF c \in new THEN n.pos ELSE parent[c]]
  /\ UNCHANGED <<dest, pos, path, phase>>
  /\ UNCHANGED place /\ UNCHANGED choice

\* The destination is reached.
Arrive ==
  /\ phase = "search"
  /\ \E n \in Tops :
       /\ best[n.pos] >= n.cost /\ n.pos = dest
       /\ pq' = pq \ {n}
  /\ phase' = "walk"
  /\ pos' = dest
  /\ UNCHANGED <<dest, best, parent, path>>
  /\ UNCHANGED place /\ UNCHANGED choice

\* The heap is empty: what the search has reached is looked through.
Exhaust ==
  /\ phase = "search"
  /\ pq = {}
  /\ phase' = "choose"
  /\ unseen' = DOMAIN best
  /\ bestScore' = FltMax
  /\ UNCHANGED <<dest, pos, path>>
  /\ UNCHANGED place /\ UNCHANGED search

\* ERROR for checking: a later cell of equal score always wins.
PrefersLast(c) == bestScore >= best[c]

\* A lower score wins; at a tie, the cell nearer to the monster.
Prefers(c) ==
  \/ bestScore > best[c]
  \/ bestScore = best[c] /\ Steps(dest, src) > Steps(c, src)

\* One turn of the loop over best, in the order of its keys.
Consider ==
  /\ phase = "choose"
  /\ \E c \in unseen :
       /\ \A d \in unseen : ~Before(d, c)
       /\ unseen' = unseen \ {c}
       /\ dest' = IF Prefers(c) THEN c ELSE dest
       /\ bestScore' = IF bestScore > best[c] THEN best[c] ELSE bestScore
  /\ UNCHANGED <<pos, path, phase>>
  /\ UNCHANGED place /\ UNCHANGED search

Chosen ==
  /\ phase = "choose"
  /\ unseen = {}
  /\ phase' = "walk"
  /\ pos' = dest
  /\ UNCHANGED <<dest, path>>
  /\ UNCHANGED place /\ UNCHANGED search /\ UNCHANGED choice

\* One turn of the walk back, to the cell that is its own parent.
Walk ==
  /\ phase = "walk"
  /\ path' = <<pos>> \o path
  /\ IF pos = parent[pos] THEN phase' = "done" /\ UNCHANGED pos
                          ELSE pos' = parent[pos] /\ UNCHANGED phase
  /\ UNCHANGED dest
  /\ UNCHANGED place /\ UNCHANGED search /\ UNCHANGED choice

Turn == Visit \/ Arrive \/ Exhaust \/ Consider \/ Chosen \/ Walk

Next == Call \/ Refuse \/ Turn

SafeSpec == Init /\ [][Next]_vars

Spec == SafeSpec /\ WF_vars(Call \/ Turn)
-----------------------------------------------------------------------------
Scored(f) == \A c \in DOMAIN f : f[c] \in 0..FltMax

TypeOK ==
  /\ walkable \in Maps
  /\ {src, goal, dest, pos} \subseteq walkable
  /\ DOMAIN best \subseteq walkable /\ Scored(best)
  /\ DOMAIN parent = DOMAIN best
  /\ \A c \in DOMAIN parent : parent[c] \in DOMAIN best
  /\ \A n \in pq : n = Node(n.pos) /\ n.pos \in DOMAIN best
  /\ unseen \subseteq DOMAIN best
  /\ bestScore \in 0..FltMax
  /\ path \in Seq(walkable)
  /\ phase \in {"idle", "refused", "search", "choose", "walk", "done"}

\* The cells one can walk to from the monster without leaving the depth: those in
\* every set that holds src and, with a cell, its eligible neighbours.
Eligible(c) == CanGo(c) /\ Steps(src, c) < MaxDepth
Closed(S) == src \in S /\ \A c \in S : \A q \in InFront(c) : Eligible(q) => q \in S
Reach == {c \in walkable : \A S \in SUBSET walkable : Closed(S) => c \in S}

\* The path leads from the monster, one free neighbour after another, never twice
\* to a cell; its second cell is what UpdateIdle steps on without a collision.
PathWalkable ==
  phase = "done" =>
    /\ Len(path) > 0 /\ path[1] = src /\ path[Len(path)] = dest
    /\ \A i \in 2..Len(path) : CanGo(path[i]) /\ path[i] \in InFront(path[i - 1])
    /\ \A i, j \in 1..Len(path) : path[i] = path[j] => i = j

\* The walk ends at a cell that can be reached, nearest to the target among all
\* that can, and nearest to the monster among those: "if the path to the
\* destination is not found, move as far as was found" (GameRoom.cpp:295, :303).
NearestReached ==
  phase = "done" =>
    /\ dest \in Reach
    /\ \A c \in Reach :
         \/ Steps(goal, dest) < Steps(goal, c)
         \/ /\ Steps(goal, dest) = Steps(goal, c)
            /\ Steps(src, dest) <= Steps(src, c)

\* A cell is reserved once: no parent ever changes, so parents cannot form a
\* cycle and the walk back cannot run for ever.
ReservedOnce ==
  [][phase = "search" => \A c \in DOMAIN parent : parent'[c] = parent[c]]_vars

\* The cells within the depth, and those of them that the loop under way has still to
\* come to.
Within == {src} \cup {c \in walkable : Eligible(c)}

Ahead ==
  CASE phase = "search" -> {c \in Within : c \in DOMAIN best => Node(c) \in pq}
    [] phase = "choose" -> unseen
    [] phase = "walk" -> {c \in Within : \A i \in DOMAIN path : path[i] # c}
    [] OTHER -> {}

LoopsLeft ==
  CASE phase = "search" -> 3 [] phase = "choose" -> 2 [] phase = "walk" -> 1 [] OTHER -> 0

Left == LoopsLeft * (Cardinality(Within) + 1) + Cardinality(Ahead)

\* Each turn of each of the three loops leaves less to do, whatever the map, so no
\* call runs for ever.  One that did would hang the only worker thread (GameRoom.cpp:281, :322).
TurnsRunOut == [][Turn => Left' < Left]_vars
=============================================================================
