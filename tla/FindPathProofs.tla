--------------------------- MODULE FindPathProofs ---------------------------
(***************************************************************************)
(* Theorems about FindPath, for every set of maps and every depth: of one  *)
(* call, and of the calls a monster makes on its way.                      *)
(***************************************************************************)
EXTENDS Hunt, FiniteSetTheorems, TLAPS

Running == {"search", "choose", "walk", "done"}
Known == DOMAIN best

\* The keys of best: reached cells, each with its distance.  The target's cell is
\* among them only if the monster stands on it; then the search ends at once.
KeysInv ==
  /\ phase \in Running => src \in Known /\ Steps(goal, src) < MaxDepth
  /\ Known \subseteq Reach
  /\ \A c \in Known : best[c] = Steps(goal, c) /\ best[c] < FltMax
  /\ goal \in Known => src = goal
  /\ phase = "walk" => pos \in Known
  /\ phase \in {"idle", "search"} => dest = goal
  /\ src = goal => /\ dest = goal
                   /\ phase # "choose"
                   /\ phase = "search" => pq = {Node(src)}

\* A key whose neighbours are not all keys is still in the heap.
FrontierInv ==
  /\ phase \in Running /\ src # goal =>
       \A c \in Known : \/ Node(c) \in pq
                        \/ \A q \in InFront(c) : Eligible(q) => q \in Known
  /\ phase \in {"choose", "walk", "done"} /\ src # goal => pq = {}

\* dest is the best of the keys the loop has come to.
BestSoFar ==
  /\ \A c \in Known \ unseen :
       \/ Steps(goal, dest) < Steps(goal, c)
       \/ /\ Steps(goal, dest) = Steps(goal, c)
          /\ Steps(src, dest) <= Steps(src, c)
  /\ dest \in Known /\ bestScore = Steps(goal, dest)

ChoiceInv ==
  /\ phase \in {"idle", "search"} => unseen = {}
  /\ phase = "choose" => \/ unseen = Known /\ bestScore = FltMax
                         \/ BestSoFar
  /\ phase \in {"walk", "done"} /\ src # goal => unseen = {} /\ BestSoFar

\* Parents: neighbours, and no set of cells other than src keeps all its parents,
\* so a walk along parents never comes back.
ParentsInv ==
  /\ \A c \in Known \ {src} :
       parent[c] \in Known /\ c \in InFront(parent[c]) /\ Eligible(c)
  /\ src \in Known => parent[src] = src
  /\ \A S \in SUBSET (Known \ {src}) :
       S # {} => \E c \in S : parent[c] \notin S

\* The walk back: cell after cell along parents, ending at dest, never twice the
\* same, and not yet where it stands.
Trail ==
  /\ \A i \in 1..Len(path) : path[i] \in Known
  /\ \A i \in 2..Len(path) : path[i] # src /\ parent[path[i]] = path[i - 1]
  /\ \A i, j \in 1..Len(path) : path[i] = path[j] => i = j
  /\ Len(path) > 0 => path[Len(path)] = dest

WalkInv ==
  /\ phase \in {"search", "choose"} => path = << >>
  /\ phase \in {"walk", "done"} => Trail
  /\ phase = "walk" /\ path = << >> => pos = dest
  /\ phase = "walk" /\ path # << >> => /\ path[1] # src /\ parent[path[1]] = pos
                                      /\ \A i \in 1..Len(path) : path[i] # pos
  /\ phase = "done" => Len(path) > 0 /\ path[1] = src

Inv == TypeOK /\ KeysInv /\ FrontierInv /\ ChoiceInv /\ ParentsInv /\ WalkInv

-----------------------------------------------------------------------------
(* Distances.                                                              *)

Plane == Int \X Int

\* Absolute differences of integers: a distance with the triangle inequality.
LEMMA AbsProperties ==
  ASSUME NEW x \in Int, NEW y \in Int, NEW z \in Int
  PROVE  /\ Abs(x - y) \in Nat /\ Abs(x - y) = Abs(y - x)
         /\ Abs(x - y) = 0 => x = y
         /\ Abs(x - z) <= Abs(y - x) + Abs(y - z)
         /\ Abs(x - x) = 0
BY DEF Abs

\* Steps, the sum of two such differences, is a distance on the plane.
LEMMA StepsProperties ==
  ASSUME NEW a \in Plane, NEW b \in Plane, NEW c \in Plane
  PROVE  /\ Steps(a, b) \in Nat
         /\ Steps(a, b) = Steps(b, a)
         /\ Steps(a, b) = 0 => a = b
         /\ Steps(a, c) <= Steps(b, a) + Steps(b, c)
         /\ Steps(a, a) = 0
<1>1. PICK ax \in Int, ay \in Int : a = <<ax, ay>>
  BY DEF Plane
<1>2. PICK bx \in Int, by \in Int : b = <<bx, by>>
  BY DEF Plane
<1>3. PICK cx \in Int, cy \in Int : c = <<cx, cy>>
  BY DEF Plane
<1>4. /\ Steps(a, b) = Abs(ax - bx) + Abs(ay - by)
      /\ Steps(b, a) = Abs(bx - ax) + Abs(by - ay)
      /\ Steps(a, c) = Abs(ax - cx) + Abs(ay - cy)
      /\ Steps(b, c) = Abs(bx - cx) + Abs(by - cy)
      /\ Steps(a, a) = Abs(ax - ax) + Abs(ay - ay)
  BY <1>1, <1>2, <1>3 DEF Steps
<1>5. /\ Abs(ax - bx) \in Nat /\ Abs(ax - bx) = Abs(bx - ax)
      /\ Abs(ax - bx) = 0 => ax = bx
      /\ Abs(ax - cx) <= Abs(bx - ax) + Abs(bx - cx)
      /\ Abs(ax - ax) = 0
  BY AbsProperties
<1>6. /\ Abs(ay - by) \in Nat /\ Abs(ay - by) = Abs(by - ay)
      /\ Abs(ay - by) = 0 => ay = by
      /\ Abs(ay - cy) <= Abs(by - ay) + Abs(by - cy)
      /\ Abs(ay - ay) = 0
  BY AbsProperties
<1>7. /\ Abs(ax - cx) \in Nat /\ Abs(bx - cx) \in Nat
      /\ Abs(ay - cy) \in Nat /\ Abs(by - cy) \in Nat
  BY AbsProperties
<1> QED  BY <1>1, <1>2, <1>4, <1>5, <1>6, <1>7

\* Walkable cells are cells of the plane, so the distance is defined on them.
LEMMA MapPlane ==
  ASSUME TypeOK
  PROVE  walkable \subseteq Plane
BY MapsAssumption DEF TypeOK, Plane

\* FltMax is above the score of every eligible cell.
LEMMA ScoreBounded ==
  ASSUME NEW s \in Plane, NEW g \in Plane, NEW c \in Plane,
         Steps(g, s) < MaxDepth, Steps(s, c) < MaxDepth
  PROVE  Steps(g, c) < FltMax /\ FltMax \in Nat
BY StepsProperties, DepthAssumption DEF FltMax
-----------------------------------------------------------------------------
(* What can be reached.                                                    *)

\* Reach holds src, and with a cell its eligible neighbours; it is the least set
\* that does.
LEMMA ReachProperties ==
  ASSUME TypeOK
  PROVE  /\ src \in Reach /\ Reach \subseteq walkable
         /\ \A c \in Reach : \A q \in InFront(c) : Eligible(q) => q \in Reach
         /\ \A S \in SUBSET walkable : Closed(S) => Reach \subseteq S
<1>1. src \in Reach /\ Reach \subseteq walkable
  BY DEF TypeOK, Reach, Closed
<1>2. ASSUME NEW c \in Reach, NEW q \in InFront(c), Eligible(q) PROVE q \in Reach
  BY <1>2 DEF Reach, Closed, Eligible, CanGo
<1>3. ASSUME NEW S \in SUBSET walkable, Closed(S) PROVE Reach \subseteq S
  BY <1>3 DEF Reach
<1> QED  BY <1>1, <1>2, <1>3

\* The call does not change what can be reached.
LEMMA ReachFixed ==
  ASSUME UNCHANGED place
  PROVE  /\ walkable' = walkable /\ src' = src /\ goal' = goal
         /\ Reach' = Reach
         /\ \A c : Eligible(c)' = Eligible(c)
<1>1. walkable' = walkable /\ src' = src /\ goal' = goal
  BY DEF place
<1>2. \A c : Eligible(c)' = Eligible(c)
  BY <1>1 DEF Eligible, CanGo, Steps, Abs
<1>3. ASSUME NEW S PROVE Closed(S)' = Closed(S)
  BY <1>1, <1>2 DEF Closed, InFront
<1> QED  BY <1>1, <1>2, <1>3 DEF Reach

-----------------------------------------------------------------------------
(* The search.                                                             *)

Fresh(c) == {q \in InFront(c) : Eligible(q) /\ q \notin Known}

\* A neighbour is reserved if it is eligible and not yet a key: the test of the
\* costs comes to no more than that.
LEMMA ReservesFresh ==
  ASSUME Inv, NEW c \in Known, dest = goal
  PROVE  Reserves(c) = Fresh(c) /\ Fresh(c) \subseteq walkable \ {src, goal}
<1>1. ASSUME NEW q \in InFront(c), CanGo(q)
      PROVE  AlreadyBetter(q) <=> q \in Known
  <2>1. q \in Plane /\ goal \in Plane /\ q # goal
    BY <1>1, MapPlane DEF Inv, TypeOK, CanGo
  <2>2. Steps(goal, q) \in Nat /\ Steps(goal, q) # 0
    BY <2>1, StepsProperties
  <2>3. q \in Known => best[q] = Steps(goal, q)
    BY DEF Inv, KeysInv
  <2> QED  BY <2>2, <2>3 DEF AlreadyBetter, BestCost, Known
<1> QED  BY <1>1 DEF Reserves, Fresh, Eligible, CanGo

\* What a turn of the search does: one key's fresh neighbours become keys.
LEMMA VisitEffect ==
  ASSUME Inv, Visit
  PROVE  \E c \in Known :
           /\ phase = "search" /\ src # goal /\ dest = goal
           /\ Node(c) \in pq
           /\ pq' = (pq \ {Node(c)}) \cup {Node(q) : q \in Fresh(c)}
           /\ best' = [d \in Known \cup Fresh(c) |->
                         IF d \in Fresh(c) THEN Steps(goal, d) ELSE best[d]]
           /\ parent' = [d \in Known \cup Fresh(c) |->
                           IF d \in Fresh(c) THEN c ELSE parent[d]]
<1>1. PICK n \in Tops :
        /\ best[n.pos] < n.cost \/ n.pos # dest
        /\ LET new == IF best[n.pos] < n.cost THEN {} ELSE Reserves(n.pos)
           IN  /\ pq' = (pq \ {n}) \cup {Node(q) : q \in new}
               /\ best' = [c \in DOMAIN best \cup new |->
                             IF c \in new THEN Steps(goal, c) ELSE best[c]]
               /\ parent' = [c \in DOMAIN parent \cup new |->
                               IF c \in new THEN n.pos ELSE parent[c]]
  BY DEF Visit
<1>2. n \in pq /\ n = Node(n.pos) /\ n.pos \in Known
  BY DEF Tops, Inv, TypeOK, Known
<1>3. phase = "search" /\ dest = goal
  BY DEF Visit, Inv, KeysInv
<1>4. ~(best[n.pos] < n.cost)
  <2>1. best[n.pos] = Steps(goal, n.pos) /\ Steps(goal, n.pos) \in Nat
    BY <1>2, MapPlane, StepsProperties DEF Inv, KeysInv, TypeOK, Known
  <2>2. n.cost = Steps(goal, n.pos)
    BY <1>2 DEF Node
  <2> QED  BY <2>1, <2>2
<1>5. Reserves(n.pos) = Fresh(n.pos)
  BY <1>2, <1>3, ReservesFresh
<1>6. src # goal
  <2>1. n.pos # goal
    BY <1>1, <1>3, <1>4
  <2>2. src = goal => n = Node(src)
    BY <1>2, <1>3 DEF Inv, KeysInv
  <2> QED  BY <2>1, <2>2 DEF Node
<1> QED  BY <1>1, <1>2, <1>3, <1>4, <1>5, <1>6 DEF Inv, TypeOK, Known
-----------------------------------------------------------------------------
(* Every step keeps the invariant; one lemma for each part of it.          *)

\* Every cell of the map is at a natural distance from both ends.
LEMMA CellTyped ==
  ASSUME TypeOK, NEW c \in walkable
  PROVE  /\ c \in Plane /\ src \in Plane /\ goal \in Plane
         /\ Steps(goal, c) \in Nat /\ Steps(src, c) \in Nat
         /\ Steps(c, src) = Steps(src, c)
BY MapPlane, StepsProperties DEF TypeOK

\* What is left to show when the keys stay and the heap only shrinks.
LEMMA TypeFrame ==
  ASSUME TypeOK, UNCHANGED <<walkable, src, goal, best, parent>>, pq' \subseteq pq,
         dest' \in walkable, pos' \in walkable, unseen' \subseteq DOMAIN best,
         bestScore' \in 0..FltMax, path' \in Seq(walkable),
         phase' \in {"idle", "refused", "search", "choose", "walk", "done"}
  PROVE  TypeOK'
<1>1. \A n \in pq' : n = Node(n.pos)' /\ n.pos \in DOMAIN best'
  BY DEF TypeOK, Node
<1>2. Scored(best)'
  BY DEF TypeOK, Scored
<1> QED  BY <1>1, <1>2 DEF TypeOK

\* The keys and the heap stay on the map.
LEMMA TypeStep == Inv /\ [Next]_vars => TypeOK'
<1> SUFFICES ASSUME Inv, [Next]_vars PROVE TypeOK'
  OBVIOUS
<1> USE DEF Inv, TypeOK, Scored
<1>0. FltMax \in Nat
  BY DepthAssumption DEF FltMax
<1>1. CASE Call
  <2>1. Steps(goal, src) \in 0..FltMax
    BY <1>1, CellTyped, DepthAssumption DEF Call, FltMax
  <2>2. << >> \in Seq(walkable)
    OBVIOUS
  <2>3. /\ walkable' = walkable /\ src' = src /\ goal' = goal /\ dest' = goal
        /\ pos' = pos /\ path' = << >> /\ phase' = "search"
        /\ unseen' = unseen /\ bestScore' = bestScore /\ pq' = {Node(src)}
        /\ best' = [c \in {src} |-> Steps(goal, src)]
        /\ parent' = [c \in {src} |-> src]
    BY <1>1 DEF Call, place, choice
  <2>4. Scored(best)'
    BY <2>1, <2>3
  <2>5. \A n \in pq' : n = Node(n.pos)' /\ n.pos \in DOMAIN best'
    BY <2>3 DEF Node
  <2>6. unseen = {}
    BY <1>1 DEF Call, ChoiceInv
  <2> QED  BY <2>1, <2>2, <2>3, <2>4, <2>5, <2>6
<1>2. CASE Refuse
  BY <1>2, TypeFrame DEF Refuse, place, search, choice
<1>3. CASE Visit
  <2>1. PICK c \in Known :
           /\ phase = "search" /\ src # goal /\ dest = goal
           /\ Node(c) \in pq
           /\ pq' = (pq \ {Node(c)}) \cup {Node(q) : q \in Fresh(c)}
           /\ best' = [d \in Known \cup Fresh(c) |->
                         IF d \in Fresh(c) THEN Steps(goal, d) ELSE best[d]]
           /\ parent' = [d \in Known \cup Fresh(c) |->
                           IF d \in Fresh(c) THEN c ELSE parent[d]]
    BY <1>3, VisitEffect
  <2>2. Fresh(c) \subseteq walkable
    BY <2>1, ReservesFresh
  <2>3. \A q \in Fresh(c) : Steps(goal, q) \in 0..FltMax
    <3> TAKE q \in Fresh(c)
    <3>1. Steps(goal, src) < MaxDepth
      BY <2>1 DEF KeysInv, Running
    <3>2. q \in Plane /\ src \in Plane /\ goal \in Plane /\ Steps(goal, q) \in Nat
      BY <2>2, CellTyped
    <3>3. Steps(src, q) < MaxDepth
      BY DEF Fresh, Eligible
    <3> QED  BY <1>0, <3>1, <3>2, <3>3, ScoreBounded
  <2>4. /\ walkable' = walkable /\ src' = src /\ goal' = goal /\ dest' = dest
        /\ pos' = pos /\ path' = path /\ phase' = phase
        /\ unseen' = unseen /\ bestScore' = bestScore
    BY <1>3 DEF Visit, place, choice
  <2>5. DOMAIN best' = Known \cup Fresh(c) /\ DOMAIN parent' = DOMAIN best'
    BY <2>1
  <2>6. Scored(best)'
    BY <2>1, <2>3, <2>5 DEF Known
  <2>7. \A d \in DOMAIN parent' : parent'[d] \in DOMAIN best'
    BY <2>1, <2>5 DEF Known
  <2>8. \A n \in pq' : n = Node(n.pos)' /\ n.pos \in DOMAIN best'
    BY <2>1, <2>4, <2>5 DEF Node, Known
  <2> QED  BY <2>2, <2>4, <2>5, <2>6, <2>7, <2>8 DEF Known
<1>4. CASE Arrive
  BY <1>4, TypeFrame DEF Arrive, place, choice
<1>5. CASE Exhaust
  BY <1>0, <1>5, TypeFrame DEF Exhaust, place, search
<1>6. CASE Consider
  <2>1. PICK c \in unseen :
          /\ unseen' = unseen \ {c}
          /\ dest' = IF Prefers(c) THEN c ELSE dest
          /\ bestScore' = IF bestScore > best[c] THEN best[c] ELSE bestScore
    BY <1>6 DEF Consider
  <2>2. best[c] \in 0..FltMax /\ c \in walkable
    BY <2>1
  <2> QED  BY <1>6, <2>1, <2>2, TypeFrame DEF Consider, place, search
<1>7. CASE Chosen
  BY <1>7, TypeFrame DEF Chosen, place, search, choice
<1>8. CASE Walk
  <2>1. path' \in Seq(walkable)
    BY <1>8 DEF Walk
  <2>2. pos' \in walkable /\ phase' \in {"walk", "done"}
    <3>1. pos \in walkable /\ phase = "walk"
      BY <1>8 DEF Walk
    <3>2. pos = parent[pos] \/ pos' = parent[pos]
      BY <1>8 DEF Walk
    <3>3. pos \in DOMAIN best
      BY <1>8 DEF Walk, KeysInv, Known
    <3> QED  BY <1>8, <3>1, <3>2, <3>3 DEF Walk
  <2> QED  BY <1>8, <2>1, <2>2, TypeFrame DEF Walk, place, search, choice
<1>9. CASE UNCHANGED vars
  BY <1>9, TypeFrame DEF vars
<1> QED
  BY <1>1, <1>2, <1>3, <1>4, <1>5, <1>6, <1>7, <1>8, <1>9 DEF Next, Turn

\* The keys stay reached cells with their distances.
LEMMA KeysStep == Inv /\ [Next]_vars => KeysInv'
<1> SUFFICES ASSUME Inv, [Next]_vars PROVE KeysInv'
  OBVIOUS
<1>0. ASSUME UNCHANGED place
      PROVE  /\ src' = src /\ goal' = goal /\ Reach' = Reach
             /\ \A c : Node(c)' = Node(c) /\ Steps(goal, c)' = Steps(goal, c)
  BY <1>0, ReachFixed DEF Node, Steps
<1>1. CASE Call
  <2>1. src \in Reach
    BY ReachProperties DEF Inv
  <2>2. Steps(goal, src) < FltMax
    BY <1>1, CellTyped, DepthAssumption DEF Call, FltMax, Inv, TypeOK
  <2> QED  BY <1>0, <1>1, <2>1, <2>2 DEF Call, Inv, KeysInv, Known, Running
<1>2. CASE Refuse
  BY <1>0, <1>2 DEF Refuse, Inv, KeysInv, Known, Running, search
<1>3. CASE Visit
  <2>1. PICK c \in Known :
           /\ phase = "search" /\ src # goal /\ dest = goal
           /\ Node(c) \in pq
           /\ pq' = (pq \ {Node(c)}) \cup {Node(q) : q \in Fresh(c)}
           /\ best' = [d \in Known \cup Fresh(c) |->
                         IF d \in Fresh(c) THEN Steps(goal, d) ELSE best[d]]
           /\ parent' = [d \in Known \cup Fresh(c) |->
                           IF d \in Fresh(c) THEN c ELSE parent[d]]
    BY <1>3, VisitEffect
  <2>2. Fresh(c) \subseteq walkable \ {src, goal}
    BY <2>1, ReservesFresh
  <2>3. Fresh(c) \subseteq Reach
    BY ReachProperties DEF Fresh, Inv, KeysInv
  <2>4. \A q \in Fresh(c) : Steps(goal, q) < FltMax
    <3> TAKE q \in Fresh(c)
    <3>1. Steps(goal, src) < MaxDepth
      BY <2>1 DEF Inv, KeysInv, Running
    <3>2. q \in Plane /\ src \in Plane /\ goal \in Plane
      BY <2>2, CellTyped DEF Inv
    <3>3. Steps(src, q) < MaxDepth
      BY DEF Fresh, Eligible
    <3> QED  BY <3>1, <3>2, <3>3, ScoreBounded
  <2>5. dest' = dest /\ phase' = phase /\ UNCHANGED place
    BY <1>3 DEF Visit
  <2>6. Known' = Known \cup Fresh(c)
    BY <2>1 DEF Known
  <2> QED
    BY <1>0, <2>1, <2>2, <2>3, <2>4, <2>5, <2>6 DEF Inv, KeysInv
<1>4. CASE Arrive
  <2>1. dest \in Known /\ phase = "search"
    <3>1. PICK n \in Tops : n.pos = dest
      BY <1>4 DEF Arrive
    <3> QED  BY <1>4, <3>1 DEF Arrive, Tops, Inv, TypeOK, Known
  <2> QED  BY <1>0, <1>4, <2>1 DEF Arrive, Inv, KeysInv, Known, Running
<1>5. CASE Exhaust
  BY <1>0, <1>5 DEF Exhaust, Inv, KeysInv, Known, Running, search
<1>6. CASE Consider
  BY <1>0, <1>6 DEF Consider, Inv, KeysInv, Known, Running, search
<1>7. CASE Chosen
  <2>1. dest \in Known
    BY <1>7 DEF Chosen, Inv, KeysInv, ChoiceInv, BestSoFar, Running
  <2> QED  BY <1>0, <1>7, <2>1 DEF Chosen, Inv, KeysInv, Known, Running, search
<1>8. CASE Walk
  <2>1. parent[pos] \in Known
    BY <1>8 DEF Walk, Inv, TypeOK, KeysInv, Known
  <2> QED  BY <1>0, <1>8, <2>1 DEF Walk, Inv, KeysInv, Known, Running, search
<1>9. CASE UNCHANGED vars
  BY <1>0, <1>9 DEF vars, place, Inv, KeysInv, Known, Running
<1> QED
  BY <1>1, <1>2, <1>3, <1>4, <1>5, <1>6, <1>7, <1>8, <1>9 DEF Next, Turn
\* A key leaves the heap only when its neighbours have become keys.
LEMMA FrontierStep == Inv /\ [Next]_vars => FrontierInv'
<1> SUFFICES ASSUME Inv, [Next]_vars PROVE FrontierInv'
  OBVIOUS
<1>0. ASSUME UNCHANGED place
      PROVE  /\ src' = src /\ goal' = goal /\ \A c : Node(c)' = Node(c)
             /\ \A c : Eligible(c)' = Eligible(c) /\ InFront(c)' = InFront(c)
  BY <1>0, ReachFixed DEF Node, Steps, InFront
<1>1. CASE Call
  BY <1>0, <1>1 DEF Call, FrontierInv, Known
<1>2. CASE Refuse
  BY <1>2 DEF Refuse, FrontierInv, Running
<1>3. CASE Visit
  <2>1. PICK c \in Known :
           /\ phase = "search" /\ src # goal /\ dest = goal
           /\ Node(c) \in pq
           /\ pq' = (pq \ {Node(c)}) \cup {Node(q) : q \in Fresh(c)}
           /\ best' = [d \in Known \cup Fresh(c) |->
                         IF d \in Fresh(c) THEN Steps(goal, d) ELSE best[d]]
           /\ parent' = [d \in Known \cup Fresh(c) |->
                           IF d \in Fresh(c) THEN c ELSE parent[d]]
    BY <1>3, VisitEffect
  <2>2. phase' = phase /\ UNCHANGED place
    BY <1>3 DEF Visit
  <2>3. Known' = Known \cup Fresh(c)
    BY <2>1 DEF Known
  <2>4. ASSUME NEW d \in Known'
        PROVE  \/ Node(d)' \in pq'
               \/ \A q \in InFront(d)' : Eligible(q)' => q \in Known'
    <3>1. CASE d = c
      BY <1>0, <2>2, <2>3, <3>1 DEF Fresh
    <3>2. CASE d \in Fresh(c)
      BY <1>0, <2>1, <2>2, <3>2
    <3>3. CASE d \in Known /\ d # c
      <4>1. Node(d) # Node(c)
        BY <3>3 DEF Node
      <4> QED
        BY <1>0, <2>1, <2>2, <2>3, <3>3, <4>1 DEF Inv, FrontierInv, Running
    <3> QED  BY <2>3, <3>1, <3>2, <3>3
  <2> QED  BY <2>1, <2>2, <2>4 DEF FrontierInv
<1>4. CASE Arrive
  <2>1. src = goal
    BY <1>4 DEF Arrive, Tops, Inv, TypeOK, KeysInv, Known
  <2> QED  BY <1>0, <1>4, <2>1 DEF Arrive, FrontierInv
<1>5. CASE Exhaust
  BY <1>0, <1>5 DEF Exhaust, Inv, FrontierInv, Known, Running, search
<1>6. CASE Consider
  BY <1>0, <1>6 DEF Consider, Inv, FrontierInv, Known, Running, search
<1>7. CASE Chosen
  BY <1>0, <1>7 DEF Chosen, Inv, FrontierInv, Known, Running, search
<1>8. CASE Walk
  BY <1>0, <1>8 DEF Walk, Inv, FrontierInv, Known, Running, search
<1>9. CASE UNCHANGED vars
  BY <1>0, <1>9 DEF vars, place, Inv, FrontierInv, Known, Running
<1> QED
  BY <1>1, <1>2, <1>3, <1>4, <1>5, <1>6, <1>7, <1>8, <1>9 DEF Next, Turn

\* The loop over best keeps the best of the keys it has come to.
LEMMA ChoiceStep == Inv /\ [Next]_vars => ChoiceInv'
<1> SUFFICES ASSUME Inv, [Next]_vars PROVE ChoiceInv'
  OBVIOUS
<1>0. ASSUME UNCHANGED place
      PROVE  /\ src' = src /\ goal' = goal
             /\ \A c : Steps(goal, c)' = Steps(goal, c) /\ Steps(src, c)' = Steps(src, c)
  BY <1>0, ReachFixed DEF Steps
<1>1. CASE Call
  BY <1>1 DEF Call, choice, Inv, ChoiceInv
<1>2. CASE Refuse
  BY <1>2 DEF Refuse, ChoiceInv
<1>3. CASE Visit
  <2>1. phase = "search" /\ phase' = "search" /\ unseen' = unseen
    BY <1>3 DEF Visit, choice
  <2> QED  BY <2>1 DEF Inv, ChoiceInv
<1>4. CASE Arrive
  <2>1. src = goal
    BY <1>4 DEF Arrive, Tops, Inv, TypeOK, KeysInv, Known
  <2> QED  BY <1>0, <1>4, <2>1 DEF Arrive, ChoiceInv
<1>5. CASE Exhaust
  BY <1>0, <1>5 DEF Exhaust, ChoiceInv, Known, FltMax, search
<1>6. CASE Consider
  <2>1. PICK c \in unseen :
          /\ unseen' = unseen \ {c}
          /\ dest' = IF Prefers(c) THEN c ELSE dest
          /\ bestScore' = IF bestScore > best[c] THEN best[c] ELSE bestScore
    BY <1>6 DEF Consider
  <2>2. /\ phase = "choose" /\ phase' = "choose" /\ Known' = Known
        /\ src' = src /\ goal' = goal /\ UNCHANGED place
    BY <1>6 DEF Consider, place, search, Known
  <2>3. /\ c \in Known /\ unseen \subseteq Known /\ Known \subseteq walkable
        /\ best[c] = Steps(goal, c) /\ best[c] < FltMax
    BY DEF Inv, TypeOK, KeysInv, Known
  <2>4. \A d \in walkable : /\ Steps(goal, d) \in Nat /\ Steps(src, d) \in Nat
                           /\ Steps(d, src) = Steps(src, d)
    BY CellTyped DEF Inv
  <2>5. BestSoFar'
    <3> SUFFICES /\ \A d \in Known \ (unseen \ {c}) :
                      \/ Steps(goal, dest') < Steps(goal, d)
                      \/ /\ Steps(goal, dest') = Steps(goal, d)
                         /\ Steps(src, dest') <= Steps(src, d)
                 /\ dest' \in Known /\ bestScore' = Steps(goal, dest')
      BY <2>1, <2>2 DEF BestSoFar
    <3>1. CASE unseen = Known /\ bestScore = FltMax
      <4>1. dest' = c /\ bestScore' = best[c]
        BY <2>1, <2>3, <3>1, DepthAssumption DEF Prefers, FltMax
      <4> QED  BY <2>3, <2>4, <3>1, <4>1
    <3>2. CASE BestSoFar
      <4>1. dest \in walkable /\ dest \in Known /\ bestScore = Steps(goal, dest)
        BY <2>3, <3>2 DEF BestSoFar
      <4>2. CASE bestScore > best[c]
        <5>1. dest' = c /\ bestScore' = best[c]
          BY <2>1, <4>2 DEF Prefers
        <5> QED  BY <2>3, <2>4, <3>2, <4>1, <4>2, <5>1 DEF BestSoFar
      <4>3. CASE bestScore = best[c] /\ Steps(dest, src) > Steps(c, src)
        <5>1. dest' = c /\ bestScore' = bestScore
          BY <2>1, <2>3, <2>4, <4>3 DEF Prefers
        <5> QED  BY <2>3, <2>4, <3>2, <4>1, <4>3, <5>1 DEF BestSoFar
      <4>4. CASE ~Prefers(c)
        <5>1. dest' = dest /\ bestScore' = bestScore
          BY <2>1, <4>4 DEF Prefers
        <5> QED  BY <2>3, <2>4, <3>2, <4>1, <4>4, <5>1 DEF BestSoFar, Prefers
      <4> QED  BY <4>2, <4>3, <4>4 DEF Prefers
    <3> QED  BY <2>2, <3>1, <3>2 DEF Inv, ChoiceInv
  <2> QED  BY <2>2, <2>5 DEF ChoiceInv
<1>7. CASE Chosen
  <2>1. src \in Known /\ unseen = {} /\ phase = "choose"
    BY <1>7 DEF Chosen, Inv, KeysInv, Running
  <2>2. BestSoFar
    BY <2>1 DEF Inv, ChoiceInv
  <2>3. BestSoFar'
    BY <1>0, <1>7, <2>2 DEF Chosen, choice, search, BestSoFar, Known
  <2> QED  BY <1>7, <2>1, <2>3 DEF Chosen, choice, ChoiceInv
<1>8. CASE Walk
  <2>1. BestSoFar => BestSoFar'
    BY <1>0, <1>8 DEF Walk, choice, search, BestSoFar, Known
  <2>2. phase = "walk" /\ phase' \in {"walk", "done"} /\ unseen' = unseen
        /\ src' = src /\ goal' = goal
    BY <1>0, <1>8 DEF Walk, choice
  <2> QED  BY <2>1, <2>2 DEF Inv, ChoiceInv
<1>9. CASE UNCHANGED vars
  <2>1. BestSoFar' <=> BestSoFar
    BY <1>0, <1>9 DEF vars, place, BestSoFar, Known
  <2> QED  BY <1>9, <2>1 DEF vars, Inv, ChoiceInv, Known
<1> QED
  BY <1>1, <1>2, <1>3, <1>4, <1>5, <1>6, <1>7, <1>8, <1>9 DEF Next, Turn
\* New keys hang on old ones, so no cycle of parents is closed.
LEMMA ParentsStep == Inv /\ [Next]_vars => ParentsInv'
<1> SUFFICES ASSUME Inv, [Next]_vars PROVE ParentsInv'
  OBVIOUS
<1>0. ASSUME UNCHANGED place
      PROVE  /\ src' = src /\ \A c : Eligible(c)' = Eligible(c)
             /\ \A c : InFront(c)' = InFront(c)
  BY <1>0, ReachFixed DEF InFront
<1>1. ASSUME UNCHANGED place, UNCHANGED search PROVE ParentsInv'
  BY <1>0, <1>1 DEF search, Inv, ParentsInv, Known
<1>2. CASE Call
  <2>1. Known' = {src} /\ parent'[src] = src /\ src' = src
    BY <1>2 DEF Call, place, Known
  <2> QED  BY <2>1 DEF ParentsInv
<1>3. CASE Visit
  <2>1. PICK c \in Known :
           /\ phase = "search" /\ src # goal /\ dest = goal
           /\ Node(c) \in pq
           /\ pq' = (pq \ {Node(c)}) \cup {Node(q) : q \in Fresh(c)}
           /\ best' = [d \in Known \cup Fresh(c) |->
                         IF d \in Fresh(c) THEN Steps(goal, d) ELSE best[d]]
           /\ parent' = [d \in Known \cup Fresh(c) |->
                           IF d \in Fresh(c) THEN c ELSE parent[d]]
    BY <1>3, VisitEffect
  <2>2. /\ UNCHANGED place /\ src' = src
        /\ Known' = Known \cup Fresh(c) /\ Fresh(c) \cap Known = {}
        /\ src \notin Fresh(c)
    BY <1>0, <1>3, <2>1, ReservesFresh DEF Visit, Known, Fresh
  <2>3. ASSUME NEW d \in Known' \ {src}
        PROVE  parent'[d] \in Known' /\ d \in InFront(parent'[d]) /\ Eligible(d)
    <3>1. CASE d \in Fresh(c)
      BY <2>1, <2>2, <3>1 DEF Fresh
    <3>2. CASE d \in Known
      BY <2>1, <2>2, <2>3, <3>2 DEF Inv, ParentsInv
    <3> QED  BY <2>2, <3>1, <3>2
  <2>4. src \in Known' => parent'[src] = src
    BY <2>1, <2>2 DEF Inv, ParentsInv
  <2>5. ASSUME NEW S \in SUBSET (Known' \ {src}), S # {}
        PROVE  \E d \in S : parent'[d] \notin S
    <3>1. CASE S \subseteq Fresh(c)
      BY <2>1, <2>2, <2>5, <3>1
    <3>2. CASE S \cap Known # {}
      <4>1. PICK d \in S \cap Known : parent[d] \notin S \cap Known
        BY <2>2, <3>2 DEF Inv, ParentsInv
      <4>2. parent[d] \in Known /\ parent'[d] = parent[d]
        BY <2>1, <2>2, <4>1 DEF Inv, ParentsInv
      <4> QED  BY <4>1, <4>2
    <3> QED  BY <2>2, <3>1, <3>2
  <2> QED  BY <1>0, <2>2, <2>3, <2>4, <2>5 DEF ParentsInv
<1>4. CASE Arrive
  BY <1>0, <1>4 DEF Arrive, Inv, ParentsInv, Known
<1>5. CASE UNCHANGED vars
  BY <1>1, <1>5 DEF vars, place, search
<1> QED
  BY <1>1, <1>2, <1>3, <1>4, <1>5
  DEF Next, Turn, Refuse, Exhaust, Consider, Chosen, Walk

\* One turn of the walk back puts a new cell in front of the trail, and it stops
\* where it should.
LEMMA TrailGrows ==
  ASSUME Inv, Walk
  PROVE  /\ path' = <<pos>> \o path /\ Trail'
         /\ pos = parent[pos] => pos = src
         /\ pos # parent[pos] =>
              /\ pos # src
              /\ \A i \in 1..Len(path') : path'[i] # parent[pos]
<1>1. /\ phase = "walk" /\ path' = <<pos>> \o path /\ pos \in Known
      /\ Known' = Known /\ parent' = parent /\ src' = src /\ dest' = dest
      /\ path \in Seq(walkable) /\ pos \in walkable
  BY DEF Walk, place, search, Inv, KeysInv, TypeOK, Known
<1>2. /\ Len(path') = Len(path) + 1 /\ path'[1] = pos
      /\ \A i \in 2..Len(path') : path'[i] = path[i - 1]
      /\ Len(path) \in Nat
  BY <1>1
<1>3. Trail /\ WalkInv /\ ParentsInv
  BY <1>1 DEF Inv, WalkInv
<1>4. \A i \in 1..Len(path') : path'[i] \in Known
  BY <1>1, <1>2, <1>3 DEF Trail
<1>5. path # << >> => /\ Len(path) > 0 /\ path[1] # src /\ parent[path[1]] = pos
                      /\ \A i \in 1..Len(path) : path[i] # pos
  BY <1>1, <1>3 DEF WalkInv
<1>6. ASSUME NEW i \in 2..Len(path')
      PROVE  path'[i] # src /\ parent[path'[i]] = path'[i - 1]
  <2>1. CASE i = 2
    BY <1>1, <1>2, <1>5, <2>1
  <2>2. CASE i > 2
    <3>1. i - 1 \in 2..Len(path) /\ i - 1 \in 2..Len(path')
      BY <1>2, <2>2
    <3> QED  BY <1>2, <1>3, <3>1 DEF Trail
  <2> QED  BY <2>1, <2>2
<1>7. ASSUME NEW i \in 1..Len(path'), NEW j \in 1..Len(path'), path'[i] = path'[j]
      PROVE  i = j
  <2>1. ASSUME NEW k \in 2..Len(path') PROVE path'[k] # pos
    <3>1. k - 1 \in 1..Len(path) /\ path'[k] = path[k - 1] /\ Len(path) > 0
      BY <1>2
    <3> QED  BY <1>5, <3>1
  <2>2. CASE i = 1 \/ j = 1
    BY <1>2, <1>7, <2>1, <2>2
  <2>3. CASE i # 1 /\ j # 1
    <3>1. /\ i - 1 \in 1..Len(path) /\ j - 1 \in 1..Len(path)
          /\ path[i - 1] = path[j - 1]
      BY <1>2, <1>7, <2>3
    <3> QED  BY <1>3, <3>1 DEF Trail
  <2> QED  BY <2>2, <2>3
<1>8. path'[Len(path')] = dest
  <2>1. CASE path = << >>
    BY <1>1, <1>2, <1>3, <2>1 DEF WalkInv
  <2>2. CASE path # << >>
    BY <1>1, <1>2, <1>3, <1>5, <2>2 DEF Trail
  <2> QED  BY <2>1, <2>2
<1>9. Trail'
  BY <1>1, <1>4, <1>6, <1>7, <1>8 DEF Trail
<1>10. pos = parent[pos] => pos = src
  <2> SUFFICES ASSUME pos = parent[pos], pos # src PROVE FALSE
    OBVIOUS
  <2>1. {pos} \in SUBSET (Known \ {src})
    BY <1>1
  <2> QED  BY <1>3, <2>1 DEF ParentsInv
<1>11. ASSUME pos # parent[pos]
       PROVE  pos # src /\ \A i \in 1..Len(path') : path'[i] # parent[pos]
  <2>1. pos # src
    BY <1>1, <1>3, <1>11 DEF ParentsInv
  <2>2. ASSUME NEW k \in 1..Len(path'), path'[k] = parent[pos]
        PROVE  FALSE
    <3> DEFINE S == {path'[i] : i \in 1..Len(path')}
    <3>1. S \in SUBSET (Known \ {src}) /\ S # {}
      BY <1>2, <1>4, <1>6, <2>1
    <3>2. \A i \in 1..Len(path') : parent[path'[i]] \in S
      <4> TAKE i \in 1..Len(path')
      <4>1. CASE i = 1
        BY <1>2, <2>2, <4>1
      <4>2. CASE i # 1
        <5>1. i \in 2..Len(path') /\ i - 1 \in 1..Len(path')
          BY <1>2, <4>2
        <5> QED  BY <1>6, <5>1
      <4> QED  BY <4>1, <4>2
    <3> QED  BY <1>3, <3>1, <3>2 DEF ParentsInv
  <2> QED  BY <2>1, <2>2
<1> QED  BY <1>1, <1>9, <1>10, <1>11
\* Every step keeps the trail.
LEMMA WalkStep == Inv /\ [Next]_vars => WalkInv'
<1> SUFFICES ASSUME Inv, [Next]_vars PROVE WalkInv'
  OBVIOUS
<1>1. CASE Call
  BY <1>1 DEF Call, WalkInv
<1>2. CASE Refuse
  BY <1>2 DEF Refuse, WalkInv
<1>3. CASE Visit
  BY <1>3 DEF Visit, Inv, WalkInv
<1>4. ASSUME path = << >>, path' = path, phase' = "walk", pos' = dest'
      PROVE  WalkInv'
  BY <1>4 DEF WalkInv, Trail
<1>5. CASE Arrive
  BY <1>4, <1>5 DEF Arrive, Inv, WalkInv
<1>6. CASE Chosen
  BY <1>4, <1>6 DEF Chosen, Inv, WalkInv
<1>7. CASE Exhaust
  BY <1>7 DEF Exhaust, Inv, WalkInv
<1>8. CASE Consider
  BY <1>8 DEF Consider, Inv, WalkInv
<1>9. CASE Walk
  <2>1. /\ path' = <<pos>> \o path /\ Trail'
        /\ pos = parent[pos] => pos = src
        /\ pos # parent[pos] =>
             /\ pos # src
             /\ \A i \in 1..Len(path') : path'[i] # parent[pos]
    BY <1>9, TrailGrows
  <2>2. Len(path') > 0 /\ path'[1] = pos /\ path' # << >>
    BY <2>1 DEF Inv, TypeOK
  <2>3. /\ src' = src /\ parent' = parent /\ phase = "walk"
        /\ \/ pos = parent[pos] /\ phase' = "done" /\ pos' = pos
           \/ pos # parent[pos] /\ phase' = "walk" /\ pos' = parent[pos]
    BY <1>9 DEF Walk, place, search
  <2> QED  BY <2>1, <2>2, <2>3 DEF WalkInv
<1>10. CASE UNCHANGED vars
  <2>1. Trail' <=> Trail
    BY <1>10 DEF vars, Trail, Known
  <2> QED  BY <1>10, <2>1 DEF vars, Inv, WalkInv
<1> QED
  BY <1>1, <1>2, <1>3, <1>5, <1>6, <1>7, <1>8, <1>9, <1>10 DEF Next, Turn

-----------------------------------------------------------------------------
(* The loops come to an end.                                               *)

\* The cells within the depth lie in a square around the monster.
LEMMA WithinFinite ==
  ASSUME TypeOK
  PROVE  IsFiniteSet(Within)
<1>1. src \in Plane /\ MaxDepth \in Nat
  BY MapPlane, DepthAssumption DEF TypeOK
<1>2. PICK x \in Int, y \in Int : src = <<x, y>>
  BY <1>1 DEF Plane
<1> DEFINE Box == (x - MaxDepth .. x + MaxDepth) \X (y - MaxDepth .. y + MaxDepth)
<1>3. IsFiniteSet(Box)
  <2>1. IsFiniteSet(x - MaxDepth .. x + MaxDepth)
    BY <1>1, FS_Interval
  <2>2. IsFiniteSet(y - MaxDepth .. y + MaxDepth)
    BY <1>1, FS_Interval
  <2> QED  BY <2>1, <2>2, FS_Product
<1>4. ASSUME NEW c \in Within PROVE c \in Box
  <2>1. CASE c = src
    BY <1>1, <1>2, <2>1
  <2>2. CASE c # src
    <3>1. c \in Plane /\ Steps(src, c) < MaxDepth
      BY <2>2, MapPlane DEF Within, Eligible
    <3>2. PICK u \in Int, v \in Int : c = <<u, v>>
      BY <3>1 DEF Plane
    <3>3. Abs(x - u) + Abs(y - v) < MaxDepth
      BY <1>2, <3>1, <3>2 DEF Steps
    <3>4. u \in x - MaxDepth .. x + MaxDepth /\ v \in y - MaxDepth .. y + MaxDepth
      BY <1>1, <3>3 DEF Abs
    <3> QED  BY <3>2, <3>4
  <2> QED  BY <2>1, <2>2
<1>5. Within \in SUBSET Box
  BY <1>4
<1> QED  BY <1>3, <1>5, FS_Subset

\* The keys are cells within the depth, and what lies ahead of a loop is too.
Bounded ==
  /\ Known \subseteq Within /\ Ahead \subseteq Within
  /\ IsFiniteSet(Ahead)
  /\ Cardinality(Ahead) \in Nat /\ Cardinality(Within) \in Nat
  /\ Cardinality(Ahead) <= Cardinality(Within)

LEMMA AheadBounded == Inv => Bounded
<1> SUFFICES ASSUME Inv PROVE Bounded
  OBVIOUS
<1>1. Known \subseteq Within
  <2> SUFFICES ASSUME NEW c \in Known PROVE c \in Within
    OBVIOUS
  <2>1. c \in walkable /\ (c # src => Eligible(c))
    BY DEF Inv, TypeOK, ParentsInv, Known
  <2> QED  BY <2>1 DEF Within
<1>2. Ahead \subseteq Within
  BY <1>1 DEF Ahead, Inv, TypeOK, Known
<1>3. IsFiniteSet(Within)
  BY WithinFinite DEF Inv
<1>4. /\ IsFiniteSet(Ahead) /\ Cardinality(Ahead) \in Nat
      /\ Cardinality(Within) \in Nat /\ Cardinality(Ahead) <= Cardinality(Within)
  BY <1>2, <1>3, FS_Subset, FS_CardinalityType
<1> QED  BY <1>1, <1>2, <1>4 DEF Bounded

\* The same after a step.
LEMMA AheadBoundedNext == Inv' => Bounded'
BY AheadBounded, PTL

\* A loop that takes one cell from what lies ahead of it leaves less.
LEMMA OneLess ==
  ASSUME Inv, Inv', Within' = Within, LoopsLeft' = LoopsLeft,
         NEW c \in Ahead, Ahead' = Ahead \ {c}
  PROVE  Left' < Left
<1>1. Cardinality(Ahead') = Cardinality(Ahead) - 1
  BY AheadBounded, FS_RemoveElement DEF Bounded
<1>2. Cardinality(Ahead) \in Nat /\ Cardinality(Within) \in Nat
  BY AheadBounded DEF Bounded
<1>3. LoopsLeft \in 0..3
  BY DEF LoopsLeft
<1> DEFINE w == LoopsLeft * (Cardinality(Within) + 1)
<1>4. w \in Int
  BY <1>2, <1>3
<1>5. Left = w + Cardinality(Ahead) /\ Left' = w + Cardinality(Ahead')
  BY DEF Left
<1> QED  BY <1>1, <1>2, <1>4, <1>5

\* A step to a later loop leaves less, whatever lies ahead of that one.
LEMMA NextLoop ==
  ASSUME Inv, Inv', Within' = Within,
         LoopsLeft \in 0..3, LoopsLeft' \in 0..3, LoopsLeft' < LoopsLeft
  PROVE  Left' < Left
<1> DEFINE w == Cardinality(Within) + 1
           a == Cardinality(Ahead)
           b == Cardinality(Ahead')
           l == LoopsLeft
           k == LoopsLeft'
<1>1. w \in Nat /\ a \in Nat
  BY AheadBounded DEF Bounded
<1>2. b \in Nat /\ b < w
  <2>1. /\ Cardinality(Ahead') \in Nat /\ Cardinality(Within') \in Nat
        /\ Cardinality(Ahead') <= Cardinality(Within')
    BY AheadBoundedNext DEF Bounded
  <2> QED  BY <2>1
<1>3. Left = l * w + a /\ Left' = k * w + b
  BY DEF Left
<1>4. l \in 0..3 /\ k \in 0..3 /\ k < l
  OBVIOUS
<1> HIDE DEF w, a, b, l, k
<1>5. l * w + a > k * w + b
  BY <1>1, <1>2, <1>4
<1> QED  BY <1>3, <1>5

\* Each turn leaves less to do: the search takes a cell off the heap and puts only
\* new cells on it, the loop over best takes a key, the walk back a cell it has not
\* been to.
LEMMA TurnLeavesLess == Inv /\ Inv' /\ Turn => Left' < Left
<1> SUFFICES ASSUME Inv, Inv', Turn PROVE Left' < Left
  OBVIOUS
<1>0. UNCHANGED place /\ Within' = Within /\ \A c : Node(c)' = Node(c)
  <2>1. UNCHANGED place
    BY DEF Turn, Visit, Arrive, Exhaust, Consider, Chosen, Walk
  <2> QED  BY <2>1, ReachFixed DEF Within, Node, Steps
<1>1. CASE Visit
  <2>1. PICK c \in Known :
           /\ phase = "search" /\ src # goal /\ dest = goal
           /\ Node(c) \in pq
           /\ pq' = (pq \ {Node(c)}) \cup {Node(q) : q \in Fresh(c)}
           /\ best' = [d \in Known \cup Fresh(c) |->
                         IF d \in Fresh(c) THEN Steps(goal, d) ELSE best[d]]
           /\ parent' = [d \in Known \cup Fresh(c) |->
                           IF d \in Fresh(c) THEN c ELSE parent[d]]
    BY <1>1, VisitEffect
  <2>2. phase' = "search" /\ Known' = Known \cup Fresh(c) /\ c \notin Fresh(c)
    BY <1>1, <2>1 DEF Visit, Known, Fresh
  <2>3. c \in Ahead
    BY <2>1, AheadBounded DEF Ahead, Bounded
  <2>4. ASSUME NEW d \in Within
        PROVE  (d \in Known' => Node(d) \in pq')
                 <=> ((d \in Known => Node(d) \in pq) /\ d # c)
    <3>1. \A q : Node(q) = Node(d) => q = d
      BY DEF Node
    <3>2. CASE d \in Fresh(c)
      BY <2>1, <2>2, <3>2 DEF Fresh
    <3>3. CASE d \notin Fresh(c)
      <4>1. Node(d) \in pq' <=> Node(d) \in pq /\ d # c
        BY <2>1, <3>1, <3>3
      <4> QED  BY <2>1, <2>2, <3>3, <4>1
    <3> QED  BY <3>2, <3>3
  <2>5. Ahead' = {d \in Within : d \in Known' => Node(d) \in pq'}
    BY <1>0, <2>2 DEF Ahead, Known
  <2>6. Ahead = {d \in Within : d \in Known => Node(d) \in pq}
    BY <2>1 DEF Ahead, Known
  <2>7. Ahead' = Ahead \ {c}
    BY <2>4, <2>5, <2>6
  <2>8. LoopsLeft' = LoopsLeft
    BY <2>1, <2>2 DEF LoopsLeft
  <2> QED  BY <1>0, <2>3, <2>7, <2>8, OneLess
<1>2. CASE Arrive
  BY <1>0, <1>2, NextLoop DEF Arrive, LoopsLeft
<1>3. CASE Exhaust
  BY <1>0, <1>3, NextLoop DEF Exhaust, LoopsLeft
<1>4. CASE Consider
  <2>1. PICK c \in unseen : unseen' = unseen \ {c}
    BY <1>4 DEF Consider
  <2>2. phase = "choose" /\ phase' = "choose"
    BY <1>4 DEF Consider
  <2>3. Ahead = unseen /\ Ahead' = unseen' /\ LoopsLeft' = LoopsLeft
    BY <2>2 DEF Ahead, LoopsLeft
  <2> QED  BY <1>0, <2>1, <2>3, OneLess
<1>5. CASE Chosen
  BY <1>0, <1>5, NextLoop DEF Chosen, LoopsLeft
<1>6. CASE Walk /\ phase' = "done"
  BY <1>0, <1>6, NextLoop DEF Walk, LoopsLeft
<1>7. CASE Walk /\ phase' # "done"
  <2>1. /\ phase = "walk" /\ phase' = "walk" /\ pos \in Known
        /\ path \in Seq(walkable) /\ pos \in walkable
    BY <1>7 DEF Walk, Inv, KeysInv, TypeOK
  <2>2. path' = <<pos>> \o path
    BY <1>7, TrailGrows
  <2>3. \A i \in DOMAIN path : path[i] # pos
    BY <2>1 DEF Inv, WalkInv
  <2>4. ASSUME NEW d \in Within
        PROVE  (\A i \in DOMAIN path' : path'[i] # d)
                 <=> ((\A i \in DOMAIN path : path[i] # d) /\ d # pos)
    <3>1. /\ DOMAIN path' = 1..(Len(path) + 1) /\ DOMAIN path = 1..Len(path)
          /\ Len(path) \in Nat /\ path'[1] = pos
      BY <2>1, <2>2
    <3>2. \A i \in DOMAIN path : i + 1 \in DOMAIN path' /\ path'[i + 1] = path[i]
      BY <2>1, <2>2, <3>1
    <3>3. \A i \in DOMAIN path' : i = 1 \/ (i - 1 \in DOMAIN path /\ path'[i] = path[i - 1])
      BY <2>1, <2>2, <3>1
    <3> QED  BY <3>1, <3>2, <3>3
  <2>5. Ahead = {d \in Within : \A i \in DOMAIN path : path[i] # d}
    BY <2>1 DEF Ahead
  <2>6. Ahead' = {d \in Within : \A i \in DOMAIN path' : path'[i] # d}
    BY <1>0, <2>1 DEF Ahead
  <2>7. pos \in Ahead /\ Ahead' = Ahead \ {pos}
    <3>1. pos \in Within
      BY <2>1, AheadBounded DEF Bounded
    <3> QED  BY <2>3, <2>4, <2>5, <2>6, <3>1
  <2>8. LoopsLeft' = LoopsLeft
    BY <2>1 DEF LoopsLeft
  <2> QED  BY <1>0, <2>7, <2>8, OneLess
<1> QED  BY <1>1, <1>2, <1>3, <1>4, <1>5, <1>6, <1>7 DEF Turn

\* The initial states satisfy the invariant.
LEMMA InitInv == Init => Inv
<1> SUFFICES ASSUME Init PROVE Inv
  OBVIOUS
<1> USE DEF Init
<1>1. Known = {} /\ FltMax \in Nat
  BY DepthAssumption DEF Known, FltMax
<1>2. TypeOK
  BY <1>1 DEF TypeOK, Scored, Known
<1>3. KeysInv /\ FrontierInv /\ ChoiceInv
  BY <1>1 DEF KeysInv, FrontierInv, ChoiceInv, Running
<1>4. ParentsInv /\ WalkInv
  BY <1>1 DEF ParentsInv, WalkInv
<1> QED  BY <1>2, <1>3, <1>4 DEF Inv

-----------------------------------------------------------------------------
(* The hunt: one call after another.                                       *)

\* Between two calls the keys of the last one are left over, around a cell the
\* monster has left: only the types hold of them.
HuntInv ==
  /\ TypeOK
  /\ phase = "idle" => unseen = {}
  /\ phase \in Running => Inv

\* A call makes the invariant hold, whatever is left over.
LEMMA CallStarts ==
  ASSUME TypeOK, unseen = {}, Call
  PROVE  Inv'
<1>1. /\ walkable' = walkable /\ src' = src /\ goal' = goal /\ dest' = goal
      /\ pos' = pos /\ path' = << >> /\ phase' = "search"
      /\ unseen' = {} /\ bestScore' = bestScore /\ pq' = {Node(src)}
      /\ best' = [c \in {src} |-> Steps(goal, src)]
      /\ parent' = [c \in {src} |-> src] /\ Known' = {src}
      /\ Steps(goal, src) < MaxDepth /\ UNCHANGED place
  BY DEF Call, place, choice, Known
<1>2. /\ Steps(goal, src) \in Nat /\ Steps(goal, src) < FltMax /\ FltMax \in Nat
  BY <1>1, CellTyped, DepthAssumption DEF FltMax, TypeOK
<1>3. Reach' = Reach /\ src \in Reach
  BY <1>1, ReachFixed, ReachProperties
<1>4. TypeOK'
  <2>1. Scored(best)'
    BY <1>1, <1>2 DEF Scored, FltMax
  <2>2. \A n \in pq' : n = Node(n.pos)' /\ n.pos \in DOMAIN best'
    BY <1>1 DEF Node
  <2>3. << >> \in Seq(walkable)
    OBVIOUS
  <2> QED  BY <1>1, <2>1, <2>2, <2>3 DEF TypeOK
<1>5. KeysInv'
  <2>1. /\ Steps(goal, src)' = Steps(goal, src) /\ Node(src)' = Node(src)
        /\ \A c : Steps(goal, c)' = Steps(goal, c)
    BY <1>1 DEF Steps, Node
  <2> QED  BY <1>1, <1>2, <1>3, <2>1 DEF KeysInv, Running
<1>6. FrontierInv'
  <2>1. Node(src)' = Node(src)
    BY <1>1 DEF Node, Steps
  <2> QED  BY <1>1, <2>1 DEF FrontierInv
<1>7. ChoiceInv'
  BY <1>1 DEF ChoiceInv
<1>8. ParentsInv'
  BY <1>1 DEF ParentsInv
<1>9. WalkInv'
  BY <1>1 DEF WalkInv
<1> QED  BY <1>4, <1>5, <1>6, <1>7, <1>8, <1>9 DEF Inv

\* The monster steps onto the map, and no key is left unseen: it has not found the
\* destination, so it has chosen.
LEMMA StepOnEffect ==
  ASSUME Inv, StepOn
  PROVE  TypeOK' /\ unseen' = {} /\ phase' = "idle"
<1>1. /\ phase = "done" /\ Len(path) > 1 /\ CanGo(path[2]) /\ src' = path[2]
      /\ phase' = "idle" /\ unseen' = unseen /\ path \in Seq(walkable)
      /\ UNCHANGED <<walkable, goal, dest, pos, path, pq, best, parent, bestScore>>
  BY DEF StepOn, search, choice, Inv, TypeOK
<1>2. src # goal
  <2>1. Trail /\ path[1] = src /\ Len(path) \in Nat
    BY <1>1 DEF Inv, WalkInv
  <2>2. path[Len(path)] = dest /\ path[Len(path)] # path[1]
    BY <1>1, <2>1 DEF Trail
  <2> QED  BY <2>1, <2>2 DEF Inv, KeysInv
<1>3. unseen = {}
  BY <1>1, <1>2 DEF Inv, ChoiceInv
<1>4. \A n \in pq' : n = Node(n.pos)' /\ n.pos \in DOMAIN best'
  BY <1>1 DEF Inv, TypeOK, Node, Steps
<1>5. Scored(best)'
  BY <1>1 DEF Inv, TypeOK, Scored
<1>6. TypeOK'
  BY <1>1, <1>4, <1>5 DEF Inv, TypeOK, CanGo
<1> QED  BY <1>1, <1>3, <1>6

\* A call that has begun keeps the invariant to its end.
LEMMA TurnKeeps == Inv /\ (Turn \/ UNCHANGED vars) => Inv'
BY TypeStep, KeysStep, FrontierStep, ChoiceStep, ParentsStep, WalkStep DEF Inv, Next

\* Every step of the hunt keeps the types, and a call under way the invariant.
LEMMA HuntStep == HuntInv /\ [HuntNext]_vars => HuntInv'
<1> SUFFICES ASSUME HuntInv, [HuntNext]_vars PROVE HuntInv'
  OBVIOUS
<1>1. CASE Plan /\ Call
  <2>1. Inv' /\ phase' = "search"
    BY <1>1, CallStarts DEF HuntInv, Call
  <2> QED  BY <2>1 DEF HuntInv, Inv
<1>2. CASE Plan /\ Refuse
  <2>1. TypeOK'
    BY <1>2, TypeFrame DEF Refuse, place, search, choice, HuntInv, TypeOK
  <2>2. phase' = "refused"
    BY <1>2 DEF Refuse
  <2> QED  BY <2>1, <2>2 DEF HuntInv, Running
<1>3. CASE Turn
  <2>1. phase \in Running /\ phase' \in Running
    BY <1>3 DEF Turn, Visit, Arrive, Exhaust, Consider, Chosen, Walk, Running
  <2>2. Inv'
    BY <1>3, <2>1, TurnKeeps DEF HuntInv
  <2> QED  BY <2>1, <2>2 DEF HuntInv, Running, Inv
<1>4. CASE StepOn
  <2>1. Inv
    BY <1>4 DEF StepOn, HuntInv, Running
  <2> QED  BY <1>4, <2>1, StepOnEffect DEF HuntInv, Running
<1>5. CASE UNCHANGED vars
  <2>1. phase' = phase /\ unseen' = unseen
    BY <1>5 DEF vars
  <2>2. TypeOK'
    BY <1>5, TypeFrame DEF vars, HuntInv, TypeOK
  <2>3. phase \in Running => Inv'
    BY <1>5, TurnKeeps DEF HuntInv
  <2> QED  BY <2>1, <2>2, <2>3 DEF HuntInv
<1> QED  BY <1>1, <1>2, <1>3, <1>4, <1>5 DEF HuntNext, Plan

\* So they hold all along the hunt.
LEMMA HuntInvariance == HuntSafeSpec => []HuntInv
<1>1. Init => HuntInv
  <2> SUFFICES ASSUME Init PROVE HuntInv
    OBVIOUS
  <2>1. TypeOK
    BY InitInv DEF Inv
  <2> QED  BY <2>1 DEF Init, HuntInv, Running
<1> QED  BY <1>1, HuntStep, PTL DEF HuntSafeSpec

-----------------------------------------------------------------------------
(* The theorems.                                                           *)

\* Every step keeps the invariant.
LEMMA Invariance == SafeSpec => []Inv
<1>1. Inv /\ [Next]_vars => Inv'
  BY TypeStep, KeysStep, FrontierStep, ChoiceStep, ParentsStep, WalkStep DEF Inv
<1> QED  BY <1>1, InitInv, PTL DEF SafeSpec

\* Keys, heap and path stay on the map.
THEOREM TypeCorrect == SafeSpec => []TypeOK
BY Invariance, PTL DEF Inv

\* At the end of the walk back the trail is the path.
LEMMA PathFromInv == Inv => PathWalkable
<1> SUFFICES ASSUME Inv, phase = "done"
             PROVE /\ Len(path) > 0 /\ path[1] = src /\ path[Len(path)] = dest
                   /\ \A i \in 2..Len(path) :
                        CanGo(path[i]) /\ path[i] \in InFront(path[i - 1])
                   /\ \A i, j \in 1..Len(path) : path[i] = path[j] => i = j
  BY DEF PathWalkable
<1>1. Trail /\ Len(path) > 0 /\ path[1] = src /\ Len(path) \in Nat
  BY DEF Inv, WalkInv, TypeOK
<1>2. ASSUME NEW i \in 2..Len(path)
      PROVE  CanGo(path[i]) /\ path[i] \in InFront(path[i - 1])
  <2>1. path[i] \in Known \ {src} /\ parent[path[i]] = path[i - 1]
    BY <1>1 DEF Trail
  <2> QED  BY <2>1 DEF Inv, ParentsInv, Eligible
<1> QED  BY <1>1, <1>2 DEF Trail

\* FindPath's path leads from the monster's cell over free neighbours, no cell
\* twice, to the cell chosen.
THEOREM PathCanBeWalked == SafeSpec => []PathWalkable
BY PathFromInv, Invariance, PTL

\* An empty heap leaves the keys closed, so they are all that can be reached.
LEMMA NearestFromInv == Inv => NearestReached
<1> SUFFICES ASSUME Inv, phase = "done"
             PROVE /\ dest \in Reach
                   /\ \A c \in Reach :
                        \/ Steps(goal, dest) < Steps(goal, c)
                        \/ /\ Steps(goal, dest) = Steps(goal, c)
                           /\ Steps(src, dest) <= Steps(src, c)
  BY DEF NearestReached
<1>1. Reach \subseteq walkable /\ src \in Reach
  BY ReachProperties DEF Inv
<1>2. \A c \in walkable : /\ Steps(goal, c) \in Nat /\ Steps(src, c) \in Nat
                         /\ src \in Plane
  BY CellTyped DEF Inv
<1>3. CASE src = goal
  <2>1. dest = src /\ goal = src /\ Steps(src, src) = 0
    BY <1>1, <1>2, <1>3, StepsProperties DEF Inv, KeysInv
  <2> QED  BY <1>1, <1>2, <2>1
<1>4. CASE src # goal
  <2>1. pq = {} /\ unseen = {} /\ BestSoFar /\ src \in Known
    BY <1>4 DEF Inv, FrontierInv, ChoiceInv, KeysInv, Running
  <2>2. Closed(Known) /\ Known \in SUBSET walkable /\ Known \subseteq Reach
    BY <1>1, <1>4, <2>1 DEF Closed, Inv, FrontierInv, KeysInv, Running
  <2>3. Reach = Known
    BY <2>2, ReachProperties DEF Inv
  <2> QED  BY <2>1, <2>3 DEF BestSoFar
<1> QED  BY <1>3, <1>4

\* The search reaches everything that can be reached, and the walk ends at the
\* nearest of it.
THEOREM EndsNearest == SafeSpec => []NearestReached
BY NearestFromInv, Invariance, PTL

\* No step of the search changes the parent of a cell that has one.
THEOREM ParentsStay == SafeSpec => ReservedOnce
<1> DEFINE Kept == phase = "search" => \A c \in DOMAIN parent : parent'[c] = parent[c]
<1>1. Inv /\ [Next]_vars => [Kept]_vars
  <2> SUFFICES ASSUME Inv, Next, phase = "search",
                      NEW c \in DOMAIN parent
               PROVE  parent'[c] = parent[c]
    OBVIOUS
  <2>1. CASE Visit
    <3>1. c \in Known
      BY DEF Inv, TypeOK, Known
    <3> QED  BY <2>1, <3>1, VisitEffect DEF Fresh
  <2>2. CASE parent' = parent
    BY <2>2
  <2> QED
    BY <2>1, <2>2 DEF Next, Turn, Call, Refuse, Arrive, Exhaust, Consider, Chosen,
       Walk, search
<1> QED  BY <1>1, Invariance, PTL DEF SafeSpec, ReservedOnce

\* All of it, of every call on the monster's way: however often it has stepped on and
\* whatever the calls before have left over, the path can be walked and ends nearest.
THEOREM EveryCallOfTheHunt ==
  HuntSafeSpec => [](TypeOK /\ PathWalkable /\ NearestReached)
<1>1. HuntInv => TypeOK /\ PathWalkable /\ NearestReached
  <2> SUFFICES ASSUME HuntInv PROVE TypeOK /\ PathWalkable /\ NearestReached
    OBVIOUS
  <2>1. CASE phase = "done"
    BY <2>1, PathFromInv, NearestFromInv DEF HuntInv, Running
  <2>2. CASE phase # "done"
    BY <2>2 DEF HuntInv, PathWalkable, NearestReached
  <2> QED  BY <2>1, <2>2
<1> QED  BY <1>1, HuntInvariance, PTL

\* Every turn of every call leaves less to do, a natural number, on every map and
\* for every depth: no call of FindPath keeps the worker thread for ever.
THEOREM TurnsAlwaysRunOut ==
  HuntSafeSpec => TurnsRunOut /\ [](phase \in Running => Left \in Nat)
<1>1. HuntInv /\ HuntInv' /\ [HuntNext]_vars => [Turn => Left' < Left]_vars
  <2> SUFFICES ASSUME HuntInv, HuntInv', Turn PROVE Left' < Left
    OBVIOUS
  <2>1. phase \in Running /\ phase' \in Running
    BY DEF Turn, Visit, Arrive, Exhaust, Consider, Chosen, Walk, Running
  <2> QED  BY <2>1, TurnLeavesLess DEF HuntInv
<1>2. HuntInv => (phase \in Running => Left \in Nat)
  <2> SUFFICES ASSUME HuntInv, phase \in Running PROVE Left \in Nat
    OBVIOUS
  <2>1. Cardinality(Ahead) \in Nat /\ Cardinality(Within) \in Nat
    BY AheadBounded DEF HuntInv, Bounded
  <2>2. LoopsLeft \in 0..3
    BY DEF LoopsLeft
  <2>3. LoopsLeft * (Cardinality(Within) + 1) \in Nat
    BY <2>1, <2>2
  <2> QED  BY <2>1, <2>3 DEF Left
<1> QED  BY <1>1, <1>2, HuntInvariance, PTL DEF HuntSafeSpec, TurnsRunOut
=============================================================================
