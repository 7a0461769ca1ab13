--------------------------- MODULE CalmRoomProofs ---------------------------
(***************************************************************************)
(* Theorems about a GameRoom in which no WSASend and no WSARecv fails at   *)
(* once, and the end of a connection is reported by completions only.      *)
(* Broadcasts do not nest then, no batch is lost, and what the clients     *)
(* have been told agrees with the room, for any number of sessions, any    *)
(* map and any hp.                                                         *)
(*                                                                         *)
(* Without nesting, what is under way beneath a broadcast is one of ten    *)
(* short stacks, Rest.  The invariants are about Rest, the message of the  *)
(* broadcast above it, if any, and how far that has come.                  *)
(***************************************************************************)
EXTENDS GameRoomProofs

\* The frames of handlers.
Listening(s) == [op |-> "listen", id |-> s]
Parsing(s) == [op |-> "parse", id |-> s]
Hitting(s) == [op |-> "hit", id |-> s]
Attacking(s, front) == [op |-> "attack", id |-> s, front |-> front]
Attacked(s) == [op |-> "attacked", id |-> s, prey |-> Monster]

LEMMA CallTypes ==
  /\ \A s \in Sessions :
       /\ Listening(s) \in Frames /\ Parsing(s) \in Frames /\ Hitting(s) \in Frames
       /\ Attacked(s) \in Frames /\ EraseFrame(s) \in Frames
       /\ \A front \in Int \X Int : Attacking(s, front) \in Frames
  /\ EraseFrame(Monster) \in Frames /\ CalmFrame \in Frames
BY FrameTypes, RemoveObjectIs, IdFacts
   DEF Listening, Parsing, Hitting, Attacked, Attacking, CalmFrame

IsOn(stk) == stk # << >> /\ Head(stk).op = "broadcast"
RestOf(stk) == IF IsOn(stk) THEN Tail(stk) ELSE stk

BroadcastOn == IsOn(stack)
Rest == RestOf(stack)

\* The calls of a receive, and those of every other handler.
InReceive(r) ==
  \E s \in Sessions :
    \/ r \in {<<Parsing(s)>>, <<Attacked(s), Parsing(s)>>,
              <<EraseFrame(Monster), Parsing(s)>>}
    \/ \E front \in Int \X Int : r = <<Attacking(s, front), Parsing(s)>>

Shape(r) ==
  \/ r \in {<< >>, <<CalmFrame>>}
  \/ \E s \in Sessions :
       r \in {<<Listening(s)>>, <<Hitting(s)>>, <<EraseFrame(s)>>,
              <<EraseFrame(s), CalmFrame>>}
  \/ InReceive(r)

\* The object whose removal is being broadcast or about to be done.
LeavingOf(r) == IF r # << >> /\ Head(r).op = "erase" THEN {Head(r).id} ELSE {}
Leaving == LeavingOf(Rest)

CalmInv ==
  /\ fate = "defined" /\ failed = {}
  /\ Shape(Rest)
  /\ InReceive(Rest) => turn = "update"
  /\ Leaving \subseteq ObjectsIn
  /\ \A s \in players \ Leaving : connected[s]
  /\ Rest # << >> /\ Head(Rest).op = "attack" => Head(Rest).id \in players

-----------------------------------------------------------------------------
(* The ten stacks.                                                         *)

\* Stacks without and with a broadcast on top.
LEMMA RestFacts ==
  /\ ~IsOn(<< >>) /\ RestOf(<< >>) = << >>
  /\ \A f \in Frames : f.op # "broadcast" => ~IsOn(<<f>>) /\ RestOf(<<f>>) = <<f>>
  /\ \A f, g \in Frames : f.op # "broadcast" => ~IsOn(<<f, g>>) /\ RestOf(<<f, g>>) = <<f, g>>
  /\ \A b \in Frames : b.op = "broadcast" =>
       /\ IsOn(<<b>>) /\ RestOf(<<b>>) = << >>
       /\ \A f \in Frames : IsOn(<<b, f>>) /\ RestOf(<<b, f>>) = <<f>>
       /\ \A f, g \in Frames : IsOn(<<b, f, g>>) /\ RestOf(<<b, f, g>>) = <<f, g>>
BY DEF IsOn, RestOf

\* Their innermost calls.
LEMMA HeadFacts ==
  /\ \A f : Head(<<f>>) = f /\ Tail(<<f>>) = << >> /\ <<f>> # << >>
  /\ \A f, g : Head(<<f, g>>) = f /\ Tail(<<f, g>>) = <<g>> /\ <<f, g>> # << >>
  /\ \A f, g, h : Head(<<f, g, h>>) = f
OBVIOUS

\* Which of the ten a stack is, by its innermost call.
LEMMA ShapeByTop ==
  ASSUME NEW r, Shape(r), r # << >>
  PROVE  /\ Head(r).op # "broadcast"
         /\ Head(r).op = "parse" => \E s \in Sessions : r = <<Parsing(s)>>
         /\ Head(r).op = "listen" => \E s \in Sessions : r = <<Listening(s)>>
         /\ Head(r).op = "hit" => \E s \in Sessions : r = <<Hitting(s)>>
         /\ Head(r).op = "calm" => r = <<CalmFrame>>
         /\ Head(r).op = "attack" =>
              \E s \in Sessions, front \in Int \X Int :
                r = <<Attacking(s, front), Parsing(s)>>
         /\ Head(r).op = "attacked" => \E s \in Sessions : r = <<Attacked(s), Parsing(s)>>
         /\ Head(r).op = "erase" =>
              \/ \E s \in Sessions : r \in {<<EraseFrame(s)>>, <<EraseFrame(s), CalmFrame>>}
              \/ \E s \in Sessions : r = <<EraseFrame(Monster), Parsing(s)>>
<1>1. CASE r = <<CalmFrame>>
  BY <1>1, HeadFacts DEF CalmFrame
<1>2. ASSUME NEW s \in Sessions,
             r \in {<<Listening(s)>>, <<Hitting(s)>>, <<EraseFrame(s)>>,
                    <<EraseFrame(s), CalmFrame>>}
      PROVE  Head(r) \in {Listening(s), Hitting(s), EraseFrame(s)}
             /\ (Head(r) = Listening(s) => r = <<Listening(s)>>)
             /\ (Head(r) = Hitting(s) => r = <<Hitting(s)>>)
             /\ (Head(r) = EraseFrame(s) => r \in {<<EraseFrame(s)>>, <<EraseFrame(s), CalmFrame>>})
  BY <1>2, HeadFacts DEF Listening, Hitting, EraseFrame
<1>3. ASSUME NEW s \in Sessions,
             r \in {<<Parsing(s)>>, <<Attacked(s), Parsing(s)>>,
                    <<EraseFrame(Monster), Parsing(s)>>}
      PROVE  Head(r) \in {Parsing(s), Attacked(s), EraseFrame(Monster)}
             /\ (Head(r) = Parsing(s) => r = <<Parsing(s)>>)
             /\ (Head(r) = Attacked(s) => r = <<Attacked(s), Parsing(s)>>)
             /\ (Head(r) = EraseFrame(Monster) => r = <<EraseFrame(Monster), Parsing(s)>>)
  BY <1>3, HeadFacts DEF Parsing, Attacked, EraseFrame
<1>4. ASSUME NEW s \in Sessions, NEW front \in Int \X Int,
             r = <<Attacking(s, front), Parsing(s)>>
      PROVE  Head(r).op = "attack"
  BY <1>4, HeadFacts DEF Attacking
<1>5. ASSUME NEW s \in Sessions
      PROVE  /\ Listening(s).op = "listen" /\ Hitting(s).op = "hit"
             /\ EraseFrame(s).op = "erase" /\ EraseFrame(Monster).op = "erase"
             /\ Parsing(s).op = "parse" /\ Attacked(s).op = "attacked"
  BY DEF Listening, Hitting, EraseFrame, Parsing, Attacked
<1>6. CASE \E s \in Sessions :
             r \in {<<Listening(s)>>, <<Hitting(s)>>, <<EraseFrame(s)>>,
                    <<EraseFrame(s), CalmFrame>>}
  BY <1>2, <1>5, <1>6
<1>7. CASE \E s \in Sessions :
             r \in {<<Parsing(s)>>, <<Attacked(s), Parsing(s)>>,
                    <<EraseFrame(Monster), Parsing(s)>>}
  BY <1>3, <1>5, <1>7
<1>8. CASE \E s \in Sessions, front \in Int \X Int : r = <<Attacking(s, front), Parsing(s)>>
  BY <1>4, <1>8
<1> QED BY <1>1, <1>6, <1>7, <1>8 DEF Shape, InReceive

\* Outside a broadcast the stack is Rest, and its innermost call says which.
LEMMA TopShape ==
  ASSUME CalmInv, NEW op, Top(op), op # "broadcast"
  PROVE  Rest = stack /\ ~BroadcastOn /\ Shape(stack) /\ stack # << >> /\ Head(stack).op = op
BY DEF Top, CalmInv, Rest, RestOf, BroadcastOn, IsOn

\* What is known of each of the ten.
LEMMA Resting ==
  /\ LET r == << >> IN Shape(r) /\ ~InReceive(r) /\ LeavingOf(r) = {}
  /\ LET r == <<CalmFrame>>
     IN  Shape(r) /\ ~InReceive(r) /\ LeavingOf(r) = {} /\ Head(r).op # "attack"
  /\ \A s \in Sessions :
       /\ \A r \in {<<Listening(s)>>, <<Hitting(s)>>} :
            Shape(r) /\ ~InReceive(r) /\ LeavingOf(r) = {} /\ Head(r).op # "attack"
       /\ \A r \in {<<EraseFrame(s)>>, <<EraseFrame(s), CalmFrame>>} :
            Shape(r) /\ ~InReceive(r) /\ LeavingOf(r) = {s} /\ Head(r).op # "attack"
       /\ \A r \in {<<Parsing(s)>>, <<Attacked(s), Parsing(s)>>} :
            Shape(r) /\ InReceive(r) /\ LeavingOf(r) = {} /\ Head(r).op # "attack"
       /\ LET r == <<EraseFrame(Monster), Parsing(s)>>
          IN  Shape(r) /\ InReceive(r) /\ LeavingOf(r) = {Monster} /\ Head(r).op # "attack"
       /\ \A front \in Int \X Int :
            LET r == <<Attacking(s, front), Parsing(s)>>
            IN  Shape(r) /\ InReceive(r) /\ LeavingOf(r) = {} /\ Head(r).id = s
<1>1. \A s \in Sessions :
        /\ Listening(s).op = "listen" /\ Hitting(s).op = "hit"
        /\ EraseFrame(s).op = "erase" /\ EraseFrame(s).id = s
        /\ EraseFrame(Monster).op = "erase" /\ EraseFrame(Monster).id = Monster
        /\ Parsing(s).op = "parse" /\ Attacked(s).op = "attacked"
        /\ \A front : Attacking(s, front).op = "attack" /\ Attacking(s, front).id = s
  BY DEF Listening, Hitting, EraseFrame, Parsing, Attacked, Attacking
<1>2. CalmFrame.op = "calm"
  BY DEF CalmFrame
<1>3. ~InReceive(<< >>) /\ LeavingOf(<< >>) = {}
  BY HeadFacts DEF InReceive, LeavingOf
<1>4. ASSUME NEW r, InReceive(r)
      PROVE  \/ Head(r).op \in {"parse", "attacked", "attack"}
             \/ \E s \in Sessions : r = <<EraseFrame(Monster), Parsing(s)>>
  BY <1>1, <1>4, HeadFacts DEF InReceive
<1>5. ~InReceive(<<CalmFrame>>) /\ LeavingOf(<<CalmFrame>>) = {}
      /\ Head(<<CalmFrame>>).op # "attack"
  BY <1>2, <1>4, HeadFacts DEF LeavingOf
<1>6. \A s \in Sessions : \A r \in {<<Listening(s)>>, <<Hitting(s)>>} :
        ~InReceive(r) /\ LeavingOf(r) = {} /\ Head(r).op # "attack"
  BY <1>1, <1>4, HeadFacts DEF LeavingOf
<1>7. ASSUME NEW s \in Sessions, NEW r \in {<<EraseFrame(s)>>, <<EraseFrame(s), CalmFrame>>}
      PROVE  ~InReceive(r) /\ LeavingOf(r) = {s} /\ Head(r).op # "attack"
  <2>1. Head(r) = EraseFrame(s) /\ r # << >> /\ Head(r).op = "erase" /\ Head(r).id = s
    BY <1>1, <1>7, HeadFacts
  <2>2. \A q \in Sessions : r # <<EraseFrame(Monster), Parsing(q)>>
    BY <1>1, <2>1, HeadFacts, IdFacts
  <2> QED BY <1>4, <2>1, <2>2 DEF LeavingOf
<1>8. \A s \in Sessions : \A r \in {<<Parsing(s)>>, <<Attacked(s), Parsing(s)>>} :
        InReceive(r) /\ LeavingOf(r) = {} /\ Head(r).op # "attack"
  BY <1>1, HeadFacts DEF LeavingOf, InReceive
<1>9. ASSUME NEW s \in Sessions
      PROVE  LET r == <<EraseFrame(Monster), Parsing(s)>>
             IN  InReceive(r) /\ LeavingOf(r) = {Monster} /\ Head(r).op # "attack"
  BY <1>1, <1>9, HeadFacts DEF LeavingOf, InReceive
<1>10. ASSUME NEW s \in Sessions, NEW front \in Int \X Int
       PROVE  LET r == <<Attacking(s, front), Parsing(s)>>
              IN  InReceive(r) /\ LeavingOf(r) = {} /\ Head(r).id = s
  BY <1>1, <1>10, HeadFacts DEF LeavingOf, InReceive
<1>11. /\ \A r : InReceive(r) => Shape(r)
       /\ Shape(<< >>) /\ Shape(<<CalmFrame>>)
       /\ \A s \in Sessions :
            /\ Shape(<<Listening(s)>>) /\ Shape(<<Hitting(s)>>) /\ Shape(<<EraseFrame(s)>>)
            /\ Shape(<<EraseFrame(s), CalmFrame>>)
  BY DEF Shape
<1> QED BY <1>3, <1>5, <1>6, <1>7, <1>8, <1>9, <1>10, <1>11

-----------------------------------------------------------------------------
(***************************************************************************)
(* What each step does to Rest.  A handler calls Broadcast of m above the  *)
(* calls r, or goes on with the calls r alone.                             *)
(***************************************************************************)
Calling(m, r) == BroadcastOn' /\ Head(stack') = Start(m) /\ Rest' = r
GoingOn(r) == ~BroadcastOn' /\ Rest' = r

\* Stacks with a new broadcast on top.
LEMMA CallingOver ==
  ASSUME NEW m \in Messages
  PROVE  /\ stack' = <<Start(m)>> => Calling(m, << >>)
         /\ \A f \in Frames : stack' = <<Start(m), f>> => Calling(m, <<f>>)
         /\ \A f, g \in Frames : stack' = <<Start(m), f, g>> => Calling(m, <<f, g>>)
<1> DEFINE b == Start(m)
<1>1. b \in Frames /\ b.op = "broadcast"
  BY BroadcastType DEF Start
<1> HIDE DEF b
<1>2. /\ stack' = <<b>> => BroadcastOn' /\ Head(stack') = b /\ Rest' = << >>
      /\ \A f \in Frames : stack' = <<b, f>> => BroadcastOn' /\ Head(stack') = b /\ Rest' = <<f>>
      /\ \A f, g \in Frames :
           stack' = <<b, f, g>> => BroadcastOn' /\ Head(stack') = b /\ Rest' = <<f, g>>
  <2>1. (BroadcastOn' <=> IsOn(stack')) /\ Rest' = RestOf(stack')
    BY DEF BroadcastOn, Rest
  <2>2. ASSUME stack' = <<b>> PROVE BroadcastOn' /\ Head(stack') = b /\ Rest' = << >>
    BY <1>1, <2>1, <2>2, RestFacts, HeadFacts
  <2>3. ASSUME NEW f \in Frames, stack' = <<b, f>>
        PROVE  BroadcastOn' /\ Head(stack') = b /\ Rest' = <<f>>
    <3>1. Head(<<b, f>>) = b /\ Tail(<<b, f>>) = <<f>> /\ <<b, f>> # << >>
      OBVIOUS
    <3>2. IsOn(<<b, f>>) /\ RestOf(<<b, f>>) = <<f>>
      BY <1>1, <3>1 DEF IsOn, RestOf
    <3> QED BY <2>1, <2>3, <3>1, <3>2
  <2>4. ASSUME NEW f \in Frames, NEW g \in Frames, stack' = <<b, f, g>>
        PROVE  BroadcastOn' /\ Head(stack') = b /\ Rest' = <<f, g>>
    <3>1. Head(<<b, f, g>>) = b /\ Tail(<<b, f, g>>) = <<f, g>> /\ <<b, f, g>> # << >>
      OBVIOUS
    <3>2. IsOn(<<b, f, g>>) /\ RestOf(<<b, f, g>>) = <<f, g>>
      BY <1>1, <3>1 DEF IsOn, RestOf
    <3> QED BY <2>1, <2>4, <3>1, <3>2
  <2> QED BY <2>2, <2>3, <2>4
<1> QED BY <1>2 DEF Calling, b

\* Stacks without one.
LEMMA GoingOnWith ==
  ASSUME NEW r, Shape(r), stack' = r
  PROVE  GoingOn(r)
BY ShapeByTop DEF GoingOn, BroadcastOn, Rest, RestOf, IsOn

\* EnterRoom.
LEMMA EnterCalls ==
  ASSUME TypeOK, NEW s \in Sessions, EnterRoom(s)
  PROVE  Calling(Add(s, pos[s]), <<Listening(s)>>)
<1>1. Add(s, pos[s]) \in Messages
  BY MessageTypes, RoomFacts, IdFacts DEF TypeOK
<1> DEFINE f == Listening(s)
<1>2. f \in Frames
  BY CallTypes
<1>3. stack' = Broadcast(Add(s, pos[s])) \o <<f>>
  BY DEF EnterRoom, Listening
<1> HIDE DEF f
<1>4. stack' = <<Start(Add(s, pos[s])), f>>
  BY <1>1, <1>2, <1>3, BroadcastAnd
<1>5. Calling(Add(s, pos[s]), <<f>>)
  BY <1>1, <1>2, <1>4, CallingOver
<1> QED BY <1>5 DEF f

\* LeaveRoom of a player, and of a session that has none.
LEMMA LeaveCalls ==
  ASSUME TypeOK, NEW s \in Sessions, LeaveRoom(s)
  PROVE  \/ s \in ObjectsIn /\ Calling(Remove(s), <<EraseFrame(s)>>)
         \/ s \notin ObjectsIn /\ GoingOn(<< >>)
<1>1. s \in Ids /\ stack' = RemoveObject(s)
  BY IdFacts DEF LeaveRoom
<1>2. EraseFrame(s) \in Frames /\ Remove(s) \in Messages
  BY <1>1, RemoveObjectIs, MessageTypes, CellsAssumption
<1>3. CASE s \in ObjectsIn
  <2>1. stack' = <<Start(Remove(s)), EraseFrame(s)>>
    BY <1>1, <1>3, RemoveObjectIs
  <2> QED BY <1>2, <1>3, <2>1, CallingOver
<1>4. CASE s \notin ObjectsIn
  <2>1. stack' = << >>
    BY <1>1, <1>4, RemoveObjectIs
  <2> QED BY <1>4, <2>1, GoingOnWith, Resting
<1> QED BY <1>3, <1>4

\* Monster::UpdateIdle tells where the monster is, or nothing.
LEMMA IdleCalls ==
  ASSUME TypeOK, UpdateIdle
  PROVE  /\ Monster \in monsters /\ stack = << >>
         /\ \/ GoingOn(<< >>) /\ pos' = pos
            \/ \E c \in Cells : /\ Calling(Move(Monster, c), << >>)
                                /\ pos' = [pos EXCEPT ![Monster] = c]
<1>1. Monster \in monsters /\ stack = << >> /\ pos \in [Ids -> Cells] /\ Monster \in Ids
  BY IdFacts DEF UpdateIdle, Updating, Quiet, TypeOK, TypeOK
<1>2. \/ stack' = stack /\ pos' = pos
      \/ \E c \in Cells : stack' = Broadcast(Move(Monster, c))
                          /\ pos' = [pos EXCEPT ![Monster] = c]
  <2>1. pos = [pos EXCEPT ![Monster] = pos[Monster]] /\ pos[Monster] \in Cells
    BY <1>1
  <2> QED BY <2>1 DEF UpdateIdle, FirstSteps, CanGo
<1>3. ASSUME NEW c \in Cells, stack' = Broadcast(Move(Monster, c))
      PROVE  Calling(Move(Monster, c), << >>)
  <2>1. Move(Monster, c) \in Messages
    BY <1>1, MessageTypes
  <2> QED BY <1>3, <2>1, BroadcastType, CallingOver
<1>4. stack' = stack => GoingOn(<< >>)
  BY <1>1, GoingOnWith, Resting
<1> QED BY <1>1, <1>2, <1>3, <1>4

\* Monster::UpdateSkill strikes, or finds the target gone.
LEMMA SkillCalls ==
  ASSUME TypeOK, UpdateSkill
  PROVE  /\ Monster \in monsters /\ stack = << >>
         /\ \/ GoingOn(<< >>)
            \/ /\ target \in players
               /\ Calling(Attack(target, Monster), <<Hitting(target)>>)
<1>1. Monster \in monsters /\ stack = << >>
  BY DEF UpdateSkill, Updating, Quiet
<1>2. CASE stack' = stack
  BY <1>1, <1>2, GoingOnWith, Resting
<1>3. CASE /\ target \in players
           /\ stack' = Broadcast(Attack(target, Monster)) \o <<Hitting(target)>>
  <2> DEFINE f == Hitting(target)
             m == Attack(target, Monster)
  <2>1. target \in Sessions /\ m \in Messages
    BY <1>3, RoomFacts, IdFacts, AttackType DEF TypeOK
  <2>2. f \in Frames
    BY <2>1, CallTypes
  <2>3. stack' = Broadcast(m) \o <<f>>
    BY <1>3
  <2> HIDE DEF f, m
  <2>4. Calling(m, <<f>>)
    BY <2>1, <2>2, <2>3, BroadcastAnd, CallingOver
  <2> QED BY <1>1, <1>3, <2>4 DEF f, m
<1> QED BY <1>2, <1>3 DEF UpdateSkill, Hitting

\* A packet is handled beneath nothing else.
LEMMA MoveCalls ==
  ASSUME TypeOK, CalmInv, NEW s \in Sessions, NEW c \in Cells, NEW skill \in BOOLEAN,
         NEW front \in InFront(c), HandleCMove(s, c, skill, front)
  PROVE  /\ stack = <<Parsing(s)>> /\ Rest = stack /\ ~BroadcastOn /\ front \in Int \X Int
         /\ \/ Calling(Move(s, c), <<Parsing(s)>>)
            \/ Calling(Move(s, c), <<Attacking(s, front), Parsing(s)>>)
<1>1. Top("parse")
  BY DEF HandleCMove
<1>2. /\ Rest = stack /\ ~BroadcastOn /\ Head(stack) = Parsing(s)
      /\ \E t \in Sessions : stack = <<Parsing(t)>>
  BY <1>1, TopShape, ShapeByTop, HandleCMoveCalls DEF Parsing
<1>3. stack = <<Parsing(s)>> /\ Tail(stack) = << >>
  BY <1>2, HeadFacts
<1>4. front \in Int \X Int
  BY CellsAssumption DEF InFront
<1>5. Move(s, c) \in Messages
  BY MessageTypes, IdFacts
<1> DEFINE p == Parsing(s)
           a == Attacking(s, front)
           b == Start(Move(s, c))
<1>6. p \in Frames /\ a \in Frames /\ b \in Frames
  BY <1>4, <1>5, CallTypes, BroadcastType
<1>7. stack' = <<b, a, p>> \o << >> \/ stack' = <<b, p>> \o << >>
  BY <1>3, HandleCMoveCalls DEF Parsing, Attacking
<1> HIDE DEF p, a, b
<1>8. <<b, a, p>> \in Seq(Frames) /\ <<b, p>> \in Seq(Frames)
  BY <1>6
<1>9. <<b, a, p>> \o << >> = <<b, a, p>> /\ <<b, p>> \o << >> = <<b, p>>
  BY <1>8, ConcatEmptySeq
<1>10. stack' = <<Start(Move(s, c)), a, p>> \/ stack' = <<Start(Move(s, c)), p>>
  BY <1>7, <1>9 DEF b
<1>11. Calling(Move(s, c), <<a, p>>) \/ Calling(Move(s, c), <<p>>)
  BY <1>5, <1>6, <1>10, CallingOver
<1> QED BY <1>2, <1>3, <1>4, <1>11 DEF a, p

\* One call above others.
LEMMA OneAbove ==
  ASSUME NEW f \in Frames, NEW t \in Seq(Frames)
  PROVE  <<f>> \o t # << >> /\ Head(<<f>> \o t) = f /\ Tail(<<f>> \o t) = t
<1> DEFINE u == <<f>> \o t
<1>1. /\ u \in Seq(Frames) /\ Len(u) = 1 + Len(t) /\ Len(t) \in Nat
      /\ u[1] = f /\ \A i \in 1..Len(t) : u[i + 1] = t[i]
  <2>1. <<f>> \in Seq(Frames) /\ Len(<<f>>) = 1 /\ <<f>>[1] = f /\ Len(t) \in Nat
    BY LenProperties
  <2>2. /\ u \in Seq(Frames) /\ Len(u) = 1 + Len(t)
        /\ \A i \in 1..(1 + Len(t)) : u[i] = IF i <= 1 THEN <<f>>[i] ELSE t[i - 1]
    BY <2>1, ConcatProperties
  <2>3. u[1] = f
    BY <2>1, <2>2
  <2>4. ASSUME NEW i \in 1..Len(t) PROVE u[i + 1] = t[i]
    <3>1. i + 1 \in 1..(1 + Len(t)) /\ ~(i + 1 <= 1) /\ (i + 1) - 1 = i
      BY <2>1
    <3> QED BY <2>2, <3>1
  <2> QED BY <2>1, <2>2, <2>3, <2>4
<1> HIDE DEF u
<1>2. u # << >>
  BY <1>1
<1>3. /\ Head(u) = f /\ Tail(u) \in Seq(Frames) /\ Len(Tail(u)) = Len(t)
      /\ \A i \in 1..Len(t) : Tail(u)[i] = t[i]
  BY <1>1, <1>2, TopFacts
<1>4. Tail(u) = t
  BY <1>3, SeqEqual
<1> QED BY <1>2, <1>3, <1>4 DEF u

\* A broadcast visits one more player, and nothing changes beneath it.
LEMMA VisitCalls ==
  ASSUME TypeOK, NEW p \in Sessions, SendTo(p)
  PROVE  /\ BroadcastOn /\ BroadcastOn' /\ Rest' = Rest
         /\ Head(stack) \in BroadcastFrames
         /\ Head(stack').on = p /\ Head(stack').msg = Head(stack).msg
<1>1. Top("broadcast") /\ stack' = <<[Head(stack) EXCEPT !.on = p]>> \o Tail(stack)
  BY DEF SendTo, Calls
<1> DEFINE next == [Head(stack) EXCEPT !.on = p]
<1>2. /\ Head(stack) \in BroadcastFrames /\ next \in Frames
      /\ next.on = p /\ next.op = "broadcast" /\ next.msg = Head(stack).msg
  BY <1>1, BroadcastMoves
<1>3. stack # << >> /\ Head(stack).op = "broadcast" /\ Tail(stack) \in Seq(Frames)
  BY <1>1, TopFrame
<1>4. stack' = <<next>> \o Tail(stack)
  BY <1>1
<1> HIDE DEF next
<1>5. stack' # << >> /\ Head(stack') = next /\ Tail(stack') = Tail(stack)
  BY <1>2, <1>3, <1>4, OneAbove
<1> QED BY <1>2, <1>3, <1>5 DEF BroadcastOn, Rest, IsOn, RestOf

\* A broadcast returns to what is beneath it.
LEMMA ReturnCalls ==
  ASSUME TypeOK, CalmInv, BroadcastEnds
  PROVE  BroadcastOn /\ GoingOn(Rest) /\ Head(stack) \in BroadcastFrames
<1>1. stack # << >> /\ Head(stack).op = "broadcast" /\ Head(stack) \in BroadcastFrames
  BY TopFrame, FrameByOp DEF BroadcastEnds
<1>2. stack' = Rest /\ BroadcastOn
  BY <1>1 DEF BroadcastEnds, Return, Rest, RestOf, BroadcastOn, IsOn
<1> QED BY <1>1, <1>2, GoingOnWith DEF CalmInv

\* The erase at the end of RemoveObject.
LEMMA EraseCalls ==
  ASSUME TypeOK, CalmInv, Erase
  PROVE  LET o == Head(stack).id
         IN  /\ ~BroadcastOn /\ Rest = stack /\ Leaving = {o} /\ fate' = "defined"
             /\ \/ GoingOn(<< >>) \/ GoingOn(<<CalmFrame>>)
                \/ InReceive(Rest) /\ \E s \in Sessions : GoingOn(<<Parsing(s)>>)
<1>1. Top("erase")
  BY DEF Erase
<1>2. Rest = stack /\ ~BroadcastOn /\ Head(stack).op = "erase" /\ stack # << >>
  BY <1>1, TopShape
<1>3. \/ \E s \in Sessions : stack \in {<<EraseFrame(s)>>, <<EraseFrame(s), CalmFrame>>}
      \/ \E s \in Sessions : stack = <<EraseFrame(Monster), Parsing(s)>>
  BY <1>1, TopShape, ShapeByTop
<1>4. stack' = Tail(stack) /\ Leaving = {Head(stack).id}
  BY <1>2 DEF Erase, Return, Leaving, LeavingOf
<1>5. CASE \E s \in Sessions : stack \in {<<EraseFrame(s)>>, <<EraseFrame(s), CalmFrame>>}
  <2>1. PICK s \in Sessions : stack \in {<<EraseFrame(s)>>, <<EraseFrame(s), CalmFrame>>}
    BY <1>5
  <2>2. Head(stack) = EraseFrame(s) /\ Tail(stack) \in {<< >>, <<CalmFrame>>}
    BY <2>1, HeadFacts
  <2>3. Head(stack).id # Monster
    BY <2>2, IdFacts DEF EraseFrame
  <2>4. GoingOn(<< >>) \/ GoingOn(<<CalmFrame>>)
    BY <1>4, <2>2, GoingOnWith, Resting
  <2>5. ~IteratorLost(Head(stack).id)
    <3>1. ASSUME NEW i \in 2..Len(stack) PROVE stack[i].op # "broadcast"
      <4>1. Len(<<EraseFrame(s)>>) = 1 /\ Len(<<EraseFrame(s), CalmFrame>>) = 2
        OBVIOUS
      <4>2. stack = <<EraseFrame(s), CalmFrame>> /\ i = 2
        <5>1. Len(stack) = 1 \/ (stack = <<EraseFrame(s), CalmFrame>> /\ Len(stack) = 2)
          BY <2>1, <4>1
        <5>2. Len(stack) \in Int
          BY <5>1
        <5>3. 2 <= i /\ i <= Len(stack) /\ i \in Int
          BY <3>1, <5>2
        <5>4. Len(stack) # 1
          <6>1. ASSUME Len(stack) = 1 PROVE FALSE
            <7>1. i <= 1
              BY <5>3, <6>1
            <7> QED BY <5>3, <7>1
          <6> QED BY <6>1
        <5>5. stack = <<EraseFrame(s), CalmFrame>> /\ Len(stack) = 2
          BY <5>1, <5>4
        <5> QED BY <5>3, <5>5
      <4>3. <<EraseFrame(s), CalmFrame>>[2] = CalmFrame
        OBVIOUS
      <4> QED BY <4>2, <4>3 DEF CalmFrame
    <3> QED BY <2>3, <3>1 DEF IteratorLost
  <2> QED BY <1>2, <1>4, <2>4, <2>5 DEF Erase, CalmInv
<1>6. CASE \E s \in Sessions : stack = <<EraseFrame(Monster), Parsing(s)>>
  <2>1. PICK s \in Sessions : stack = <<EraseFrame(Monster), Parsing(s)>>
    BY <1>6
  <2>2. Tail(stack) = <<Parsing(s)>> /\ InReceive(stack)
    BY <2>1, HeadFacts DEF InReceive
  <2>3. GoingOn(<<Parsing(s)>>)
    BY <1>4, <2>2, GoingOnWith, Resting
  <2>4. ~IteratorLost(Head(stack).id)
    <3>1. ASSUME NEW i \in 2..Len(stack) PROVE stack[i].op # "broadcast"
      <4>1. stack[2] = Parsing(s) /\ i = 2
        BY <2>1, <3>1
      <4> QED BY <4>1 DEF Parsing
    <3> QED BY <1>2, <2>2, <3>1 DEF IteratorLost, CalmInv
  <2> QED BY <1>2, <1>4, <2>2, <2>3, <2>4 DEF Erase, CalmInv
<1> QED BY <1>3, <1>5, <1>6

\* Player::Attack finds its room, and hits the monster or nobody.
LEMMA AttackCalls ==
  ASSUME TypeOK, CalmInv, PlayerAttacks
  PROVE  /\ ~BroadcastOn /\ Rest = stack /\ Leaving = {} /\ InReceive(Rest)
         /\ UNCHANGED <<view, players, monsters, pos, connected, failed, fate, turn>>
         /\ \E s \in Sessions :
              /\ s \in players
              /\ \/ GoingOn(<<Parsing(s)>>)
                 \/ /\ Monster \in monsters
                    /\ Calling(Attack(Monster, s), <<Attacked(s), Parsing(s)>>)
<1>1. Top("attack")
  BY DEF PlayerAttacks
<1>2. Rest = stack /\ ~BroadcastOn /\ stack # << >> /\ Head(stack).op = "attack"
  BY <1>1, TopShape
<1>3. PICK s \in Sessions, front \in Int \X Int : stack = <<Attacking(s, front), Parsing(s)>>
  BY <1>1, TopShape, ShapeByTop
<1>4. Head(stack).id = s /\ Tail(stack) = <<Parsing(s)>>
  BY <1>3, HeadFacts DEF Attacking
<1>5. s \in players
  BY <1>2, <1>4 DEF CalmInv
<1>6. Leaving = {} /\ InReceive(Rest)
  BY <1>2, <1>3 DEF Leaving, LeavingOf, InReceive
<1>7. UNCHANGED <<view, players, monsters, pos, connected, failed, fate, turn>>
  BY <1>4, <1>5 DEF PlayerAttacks, access, objects
<1>8. CASE stack' = Tail(stack)
  BY <1>2, <1>4, <1>5, <1>6, <1>7, <1>8, GoingOnWith, Resting
<1> DEFINE m == Attack(Monster, s)
           hit == Attacked(s)
           p == Parsing(s)
           b == Start(m)
<1>9. CASE stack' = <<b, hit>> \o Tail(stack) /\ Monster \in monsters
  <2>1. m \in Messages /\ b \in Frames /\ hit \in Frames /\ p \in Frames
    BY AttackType, BroadcastType, CallTypes, IdFacts DEF TypeOK
  <2>2. stack' = <<b, hit>> \o <<p>>
    BY <1>4, <1>9
  <2> HIDE DEF m, hit, p, b
  <2>3. stack' = <<b, hit, p>>
    BY <2>1, <2>2, ConcatThree
  <2>4. stack' = <<Start(m), hit, p>>
    BY <2>3 DEF b
  <2>5. Calling(m, <<hit, p>>)
    BY <2>1, <2>4, CallingOver
  <2> QED BY <1>2, <1>5, <1>6, <1>7, <1>9, <2>5 DEF m, hit, p
<1>10. \/ stack' = Tail(stack)
       \/ stack' = <<b, hit>> \o Tail(stack) /\ Monster \in monsters
  <2>1. LET q == Head(stack).id
            fs == <<Start(Attack(Monster, q)), [op |-> "attacked", id |-> q, prey |-> Monster]>>
        IN  \/ stack' = Tail(stack)
            \/ stack' = fs \o Tail(stack) /\ Monster \in monsters
    BY PlayerAttacksCalls
  <2> QED BY <1>4, <2>1 DEF Attacked
<1> QED BY <1>8, <1>9, <1>10

\* The rest of Player::Attack.
LEMMA AttackedCalls ==
  ASSUME TypeOK, CalmInv, AttackerStays, PlayerAttacked
  PROVE  /\ ~BroadcastOn /\ Rest = stack /\ Leaving = {} /\ InReceive(Rest)
         /\ UNCHANGED <<view, players, monsters, pos, connected, failed, fate, turn>>
         /\ \E s \in Sessions :
              \/ GoingOn(<<Parsing(s)>>)
              \/ /\ Monster \in ObjectsIn
                 /\ Calling(Remove(Monster), <<EraseFrame(Monster), Parsing(s)>>)
<1>1. Top("attacked")
  BY DEF PlayerAttacked
<1>2. Rest = stack /\ ~BroadcastOn /\ stack # << >> /\ Head(stack).op = "attacked"
  BY <1>1, TopShape
<1>3. PICK s \in Sessions : stack = <<Attacked(s), Parsing(s)>>
  BY <1>1, TopShape, ShapeByTop
<1>4. Tail(stack) = <<Parsing(s)>>
  BY <1>3, HeadFacts
<1>5. Leaving = {} /\ InReceive(Rest)
  BY <1>2, <1>3 DEF Leaving, LeavingOf, InReceive
<1>stays. Head(stack).id \in players
  BY <1>1 DEF AttackerStays, CalmInv
<1> DEFINE fs == IF Dead(Monster) THEN RemoveObject(Monster) ELSE << >>
           p == Parsing(s)
<1>6. stack' = fs \o <<p>> /\ p \in Frames
  BY <1>4, <1>stays, PlayerAttackedCalls, CallTypes
<1>kept. UNCHANGED <<view, players, monsters, pos, connected, failed, fate, turn>>
  BY <1>stays, PlayerAttackedCalls DEF access, objects
<1>7. CASE Dead(Monster) /\ Monster \in ObjectsIn
  <2>1. Remove(Monster) \in Messages /\ EraseFrame(Monster) \in Frames
    BY CallTypes, MessageTypes, IdFacts, CellsAssumption
  <2>2. stack' = RemoveObject(Monster) \o <<p>>
    BY <1>6, <1>7
  <2> HIDE DEF p
  <2>3. Calling(Remove(Monster), <<EraseFrame(Monster), p>>)
    BY <1>6, <1>7, <2>1, <2>2, RemoveAnd, CallingOver, IdFacts
  <2> QED BY <1>2, <1>5, <1>7, <1>kept, <2>3 DEF p
<1>8. CASE ~(Dead(Monster) /\ Monster \in ObjectsIn)
  <2>1. fs = << >>
    BY <1>8, RemoveObjectIs, IdFacts
  <2> HIDE DEF p, fs
  <2>2. stack' = <<p>>
    BY <1>6, <2>1, ConcatEmptySeq
  <2> QED BY <1>2, <1>5, <1>kept, <2>2, GoingOnWith, Resting DEF p
<1> QED BY <1>7, <1>8

\* The rest of Monster::UpdateSkill.
LEMMA HitCalls ==
  ASSUME TypeOK, CalmInv, MonsterHit
  PROVE  /\ ~BroadcastOn /\ Rest = stack /\ Leaving = {} /\ Head(Rest).op # "attack"
         /\ \/ GoingOn(<<CalmFrame>>)
            \/ \E t \in Sessions :
                 t \in ObjectsIn /\ Calling(Remove(t), <<EraseFrame(t), CalmFrame>>)
<1>1. Top("hit")
  BY DEF MonsterHit
<1>2. Rest = stack /\ ~BroadcastOn /\ stack # << >> /\ Head(stack).op = "hit"
  BY <1>1, TopShape
<1>3. PICK t \in Sessions : stack = <<Hitting(t)>>
  BY <1>1, TopShape, ShapeByTop
<1>4. Head(stack).id = t /\ Tail(stack) = << >>
  BY <1>3, HeadFacts DEF Hitting
<1>5. Leaving = {}
  BY <1>2 DEF Leaving, LeavingOf
<1>6. Remove(t) \in Messages /\ EraseFrame(t) \in Frames /\ CalmFrame \in Frames
      /\ Start(Remove(t)) \in Frames
  BY CallTypes, RemoveObjectIs, MessageTypes, IdFacts, CellsAssumption
<1>7. CASE Dead(t) /\ t \in ObjectsIn
  <2> DEFINE b == Start(Remove(t))
             e == EraseFrame(t)
  <2>1. stack' = <<b, e, CalmFrame>> \o << >>
    BY <1>4, <1>7, MonsterHitCalls
  <2> HIDE DEF b, e
  <2>2. stack' = <<b, e, CalmFrame>>
    <3>1. <<b, e, CalmFrame>> \in Seq(Frames)
      BY <1>6 DEF b, e
    <3> QED BY <2>1, <3>1, ConcatEmptySeq
  <2>3. stack' = <<Start(Remove(t)), e, CalmFrame>>
    BY <2>2 DEF b
  <2>4. Calling(Remove(t), <<e, CalmFrame>>)
    BY <1>6, <2>3, CallingOver DEF e
  <2> QED BY <1>2, <1>5, <1>7, <2>4 DEF e
<1>8. CASE ~(Dead(t) /\ t \in ObjectsIn)
  <2>1. stack' = <<CalmFrame>> \o << >>
    BY <1>4, <1>8, MonsterHitCalls
  <2>2. <<CalmFrame>> \in Seq(Frames)
    BY <1>6
  <2>3. stack' = <<CalmFrame>>
    BY <2>1, <2>2, ConcatEmptySeq
  <2> QED BY <1>2, <1>5, <2>3, GoingOnWith, Resting
<1> QED BY <1>7, <1>8

\* The calls that return to the worker loop, and the end of a receive.
LEMMA LastCalls ==
  ASSUME TypeOK, CalmInv, Listen \/ MonsterCalms \/ ParseEnds
  PROVE  /\ ~BroadcastOn /\ Rest = stack /\ Leaving = {} /\ Head(Rest).op # "attack"
         /\ \/ GoingOn(<< >>)
            \/ \E s \in Sessions : GoingOn(<<Listening(s)>>)
<1>1. PICK op \in {"listen", "calm", "parse"} : Top(op)
  BY DEF Listen, MonsterCalms, ParseEnds
<1>2. Rest = stack /\ ~BroadcastOn /\ stack # << >> /\ Head(stack).op = op
  BY <1>1, TopShape
<1>3. Leaving = {}
  BY <1>2 DEF Leaving, LeavingOf
<1>4. CASE Listen \/ MonsterCalms
  <2>1. op \in {"listen", "calm"}
    BY <1>2, <1>4 DEF Listen, MonsterCalms, Top
  <2>2. \E f : stack = <<f>>
    BY <1>1, <2>1, TopShape, ShapeByTop
  <2>3. stack' = << >>
    BY <1>4, <2>2, HeadFacts DEF Listen, MonsterCalms, Return
  <2> QED BY <1>2, <1>3, <2>3, GoingOnWith, Resting
<1>5. CASE ParseEnds
  <2>1. op = "parse"
    BY <1>2, <1>5 DEF ParseEnds, Top
  <2>2. PICK s \in Sessions : stack = <<Parsing(s)>>
    BY <1>1, <2>1, TopShape, ShapeByTop
  <2>3. [Head(stack) EXCEPT !.op = "listen"] = Listening(s) /\ Tail(stack) = << >>
    BY <2>2, HeadFacts DEF Parsing, Listening
  <2> DEFINE f == Listening(s)
  <2>4. stack' = <<f>> \o << >> /\ f \in Frames
    BY <1>5, <2>3, CallTypes DEF ParseEnds, Calls
  <2> HIDE DEF f
  <2>5. stack' = <<f>>
    BY <2>4, ConcatEmptySeq
  <2>6. GoingOn(<<f>>)
    BY <2>5, GoingOnWith, Resting DEF f
  <2> QED BY <1>2, <1>3, <2>6 DEF f
<1> QED BY <1>4, <1>5

-----------------------------------------------------------------------------
(* Nothing undefined happens.                                              *)

\* A step to the calls r that leaves the room as it is.
LEMMA CalmKeeps ==
  ASSUME CalmInv, NEW r, Rest' = r, Shape(r), UNCHANGED <<players, monsters, connected, failed, fate>>,
         InReceive(r) => turn' = "update",
         LeavingOf(r) \subseteq ObjectsIn,
         Leaving \subseteq LeavingOf(r),
         r # << >> /\ Head(r).op = "attack" => Head(r).id \in players
  PROVE  CalmInv'
BY DEF CalmInv, Leaving, ObjectsIn

\* The same for calls that neither attack nor remove.
LEMMA CalmPlain ==
  ASSUME CalmInv, NEW r, Rest' = r, Leaving = {}, UNCHANGED <<players, monsters, connected, failed, fate>>,
         InReceive(r) => turn' = "update",
         \/ r = << >> \/ r = <<CalmFrame>>
         \/ \E s \in Sessions :
              r \in {<<Listening(s)>>, <<Hitting(s)>>, <<Parsing(s)>>,
                     <<Attacked(s), Parsing(s)>>}
  PROVE  CalmInv'
<1>1. Shape(r) /\ LeavingOf(r) = {} /\ (r # << >> => Head(r).op # "attack")
  BY Resting
<1> QED BY <1>1, CalmKeeps

\* No step of a calm room does anything undefined, and no session is left behind.
LEMMA CalmStep ==
  ASSUME ~EarlyFailures, TypeOK, CalmInv, AttackerStays, [Next]_vars
  PROVE  CalmInv'
<1> USE DEF access, objects, ai
<1>1. ASSUME NEW s \in Sessions, EnterRoom(s) PROVE CalmInv'
  <2>1. /\ Rest' = <<Listening(s)>> /\ stack = << >> /\ UNCHANGED <<monsters, failed, fate>>
        /\ players' = players \cup {s} /\ connected' = [connected EXCEPT ![s] = TRUE]
    BY <1>1, EnterCalls DEF EnterRoom, Fails, Dispatched, Quiet, Calling, CalmInv
  <2>2. Leaving = {} /\ \A p \in players : connected[p]
    BY <2>1, RestFacts, Resting DEF CalmInv, Leaving, Rest
  <2>3. \A p \in players' : connected'[p]
    BY <2>1, <2>2, RoomFacts DEF TypeOK
  <2> QED BY <2>1, <2>2, <2>3, Resting DEF CalmInv, Leaving
<1>2. ASSUME NEW s \in Sessions, LeaveRoom(s) PROVE CalmInv'
  <2>1. /\ stack = << >> /\ UNCHANGED <<players, monsters, failed, fate>>
        /\ connected' = [connected EXCEPT ![s] = FALSE]
    BY <1>2 DEF LeaveRoom, Disconnect, Dispatched, Quiet
  <2>2. Leaving = {} /\ \A p \in players : connected[p]
    BY <2>1, RestFacts, Resting DEF CalmInv, Leaving, Rest
  <2>3. \A p \in players : p # s => connected'[p]
    BY <2>1, <2>2, RoomFacts DEF TypeOK
  <2>4. CASE s \in ObjectsIn /\ Rest' = <<EraseFrame(s)>>
    <3>1. /\ Shape(Rest') /\ ~InReceive(Rest') /\ LeavingOf(Rest') = {s}
          /\ Head(Rest').op # "attack"
      BY <2>4, Resting
    <3>2. Leaving' \subseteq ObjectsIn' /\ \A p \in players' \ Leaving' : connected'[p]
      BY <2>1, <2>3, <2>4, <3>1 DEF Leaving, ObjectsIn
    <3> QED BY <2>1, <3>1, <3>2 DEF CalmInv
  <2>5. CASE s \notin ObjectsIn /\ Rest' = << >>
    BY <2>1, <2>3, <2>5, Resting DEF CalmInv, Leaving, ObjectsIn
  <2> QED BY <1>2, <2>4, <2>5, LeaveCalls DEF Calling, GoingOn
<1>3. ASSUME NEW s \in Sessions, SendDone(s) PROVE CalmInv'
  <2>1. /\ stack = << >> /\ stack' = << >> /\ UNCHANGED <<players, monsters, connected, failed, fate>>
    BY <1>3 DEF SendDone, Dispatched, Quiet
  <2>2. Leaving = {} /\ Rest' = << >>
    BY <2>1, RestFacts, Resting DEF Leaving, Rest
  <2> QED BY <2>1, <2>2, Resting, CalmPlain
<1>4. ASSUME NEW s \in Sessions, Receive(s) PROVE CalmInv'
  <2>1. /\ stack = << >> /\ stack' = <<Parsing(s)>> /\ turn' = "update"
        /\ UNCHANGED <<players, monsters, connected, failed, fate>>
    BY <1>4 DEF Receive, Dispatched, Quiet, Parsing
  <2>2. Leaving = {} /\ Rest' = <<Parsing(s)>>
    BY <2>1, RestFacts, Resting, GoingOnWith DEF Leaving, Rest, GoingOn
  <2> QED BY <2>1, <2>2, CalmPlain
<1>5. CASE DispatchNothing \/ UpdateNothing \/ UpdateMove \/ Tick
  <2>1. stack = << >> /\ stack' = << >> /\ UNCHANGED <<players, monsters, connected, failed, fate>>
    BY <1>5 DEF DispatchNothing, UpdateNothing, UpdateMove, Tick, Dispatched, Updating, Quiet
  <2>2. Leaving = {} /\ Rest' = << >>
    BY <2>1, RestFacts, Resting DEF Leaving, Rest
  <2> QED BY <2>1, <2>2, Resting, CalmPlain
<1>6. CASE UpdateIdle
  <2>1. stack = << >> /\ Rest' = << >> /\ UNCHANGED <<players, monsters, connected, failed, fate>>
    BY <1>6, IdleCalls DEF UpdateIdle, GoingOn, Calling
  <2>2. Leaving = {}
    BY <2>1, RestFacts, Resting DEF Leaving, Rest
  <2> QED BY <2>1, <2>2, Resting, CalmPlain
<1>7. CASE UpdateSkill
  <2>1. /\ stack = << >> /\ UNCHANGED <<players, monsters, connected, failed, fate>>
        /\ \/ Rest' = << >>
           \/ target \in players /\ Rest' = <<Hitting(target)>>
    BY <1>7, SkillCalls DEF UpdateSkill, GoingOn, Calling
  <2>2. Leaving = {}
    BY <2>1, RestFacts, Resting DEF Leaving, Rest
  <2>3. \A s \in Sessions : ~InReceive(<<Hitting(s)>>)
    BY Resting
  <2> QED BY <2>1, <2>2, <2>3, Resting, CalmPlain, RoomFacts DEF TypeOK
<1>8. CASE Packet
  <2>1. PICK s \in Sessions, c \in Cells, skill \in BOOLEAN :
          \E front \in InFront(c) : HandleCMove(s, c, skill, front)
    BY <1>8 DEF Packet
  <2>2. PICK front \in InFront(c) : HandleCMove(s, c, skill, front)
    BY <2>1
  <2>3. /\ UNCHANGED <<players, monsters, connected, failed, fate, turn>> /\ s \in players
    BY <2>2 DEF HandleCMove
  <2>4. /\ Rest = <<Parsing(s)>> /\ front \in Int \X Int
        /\ \/ Rest' = <<Parsing(s)>>
           \/ Rest' = <<Attacking(s, front), Parsing(s)>>
    BY <2>2, MoveCalls DEF Calling
  <2>5. Leaving = {} /\ turn = "update"
    BY <2>4, Resting DEF Leaving, CalmInv
  <2>6. CASE Rest' = <<Parsing(s)>>
    BY <2>3, <2>5, <2>6, CalmPlain
  <2>7. CASE Rest' = <<Attacking(s, front), Parsing(s)>>
    <3> DEFINE r == <<Attacking(s, front), Parsing(s)>>
    <3>1. Shape(r) /\ LeavingOf(r) = {} /\ Head(r).id = s
      BY <2>4, Resting
    <3>2. Rest' = r
      BY <2>7
    <3> HIDE DEF r
    <3> QED BY <2>3, <2>5, <3>1, <3>2, CalmKeeps
  <2> QED BY <2>4, <2>6, <2>7
<1>9. ASSUME NEW p \in Sessions, SendTo(p) PROVE CalmInv'
  BY <1>9, VisitCalls DEF SendTo, CalmInv, Leaving, ObjectsIn
<1>10. CASE BroadcastEnds
  BY <1>10, ReturnCalls DEF BroadcastEnds, CalmInv, Leaving, ObjectsIn, GoingOn
<1>11. ASSUME NEW p \in Sessions, SendFails(p) \/ SendLoses(p) \/ SendDoneLoses(p) PROVE FALSE
  BY <1>11 DEF SendFails, SendLoses, SendDoneLoses, Fails
<1>12. CASE ListenFails \/ ListenDeafens
  BY <1>12 DEF ListenFails, ListenDeafens, Fails
<1>13. CASE Erase
  <2> DEFINE o == Head(stack).id
  <2>1. /\ Leaving = {o} /\ fate' = "defined" /\ UNCHANGED <<connected, failed, turn>>
        /\ players' = players \ {o}
        /\ \/ Rest' = << >> \/ Rest' = <<CalmFrame>>
           \/ InReceive(Rest) /\ \E s \in Sessions : Rest' = <<Parsing(s)>>
    BY <1>13, EraseCalls DEF Erase, GoingOn
  <2>2. \A s \in players' : connected'[s]
    BY <2>1 DEF CalmInv
  <2>3. /\ Shape(Rest') /\ Leaving' = {} /\ (Rest' # << >> => Head(Rest').op # "attack")
        /\ InReceive(Rest') => InReceive(Rest)
    BY <2>1, Resting DEF Leaving
  <2> QED BY <2>1, <2>2, <2>3 DEF CalmInv
<1>14. CASE PlayerAttacks
  <2>1. /\ Leaving = {} /\ turn = "update"
        /\ UNCHANGED <<players, monsters, connected, failed, fate, turn>>
        /\ \E s \in Sessions : Rest' \in {<<Parsing(s)>>, <<Attacked(s), Parsing(s)>>}
    BY <1>14, AttackCalls DEF GoingOn, Calling, CalmInv
  <2> QED BY <2>1, CalmPlain
<1>15. CASE PlayerAttacked
  <2>1. /\ Leaving = {} /\ turn = "update"
        /\ UNCHANGED <<players, monsters, connected, failed, fate, turn>>
    BY <1>15, AttackedCalls DEF CalmInv
  <2>2. PICK s \in Sessions :
          \/ Rest' = <<Parsing(s)>>
          \/ Monster \in ObjectsIn /\ Rest' = <<EraseFrame(Monster), Parsing(s)>>
    BY <1>15, AttackedCalls DEF GoingOn, Calling
  <2>3. CASE Rest' = <<Parsing(s)>>
    BY <2>1, <2>3, CalmPlain
  <2>4. CASE Monster \in ObjectsIn /\ Rest' = <<EraseFrame(Monster), Parsing(s)>>
    BY <2>1, <2>4, Resting, CalmKeeps
  <2> QED BY <2>2, <2>3, <2>4
<1>16. CASE MonsterHit
  <2>1. Leaving = {} /\ UNCHANGED <<players, monsters, connected, failed, fate, turn>>
    BY <1>16, HitCalls DEF MonsterHit
  <2>2. CASE Rest' = <<CalmFrame>>
    BY <2>1, <2>2, CalmPlain, Resting
  <2>3. ASSUME NEW t \in Sessions, t \in ObjectsIn, Rest' = <<EraseFrame(t), CalmFrame>>
        PROVE  CalmInv'
    BY <2>1, <2>3, Resting, CalmKeeps
  <2> QED BY <1>16, <2>2, <2>3, HitCalls DEF GoingOn, Calling
<1>17. CASE Listen \/ MonsterCalms \/ ParseEnds
  <2>1. /\ Leaving = {} /\ UNCHANGED <<players, monsters, connected, failed, fate, turn>>
        /\ Rest' = << >> \/ \E s \in Sessions : Rest' = <<Listening(s)>>
    BY <1>17, LastCalls DEF Listen, MonsterCalms, ParseEnds, GoingOn
  <2>2. ~InReceive(Rest')
    BY <2>1, Resting
  <2> QED BY <2>1, <2>2, CalmPlain
<1>18. CASE UNCHANGED vars
  BY <1>18 DEF vars, CalmInv, Leaving, Rest, ObjectsIn
<1> QED
  BY <1>1, <1>2, <1>3, <1>4, <1>5, <1>6, <1>7, <1>8, <1>9, <1>10, <1>11, <1>12, <1>13,
     <1>14, <1>15, <1>16, <1>17, <1>18 DEF Next, Dispatch, Update, Unwind

-----------------------------------------------------------------------------
(***************************************************************************)
(* The views.  What a client will have been told when the broadcast has    *)
(* come to it is the room as it will be when the calls beneath are done.   *)
(***************************************************************************)
Shared == [o \in Ids |-> IF o \in ObjectsIn \ Leaving THEN pos[o] ELSE Unseen]

\* The message that the players after `on` have still to hear.
Heard(p) ==
  IF BroadcastOn /\ p > Head(stack).on THEN Apply(view[p], Head(stack).msg) ELSE view[p]

ViewInv ==
  /\ \A p \in players : connected[p] => Heard(p) = Shared
  /\ BroadcastOn /\ Head(stack).msg.kind \in {"move", "attack"} =>
       DOMAIN Head(stack).msg.at \subseteq ObjectsIn \ Leaving

\* What a view becomes when an object is added,
LEMMA ApplyAdd ==
  ASSUME NEW v, NEW o \in Ids, NEW c
  PROVE  /\ Apply(v, Add(o, c)) = [x \in Ids |-> IF x = o THEN c ELSE v[x]]
         /\ Add(o, c).kind = "add"
BY DEF Apply, Add

\* removed,
LEMMA ApplyRemove ==
  ASSUME NEW v, NEW o \in Ids
  PROVE  /\ Apply(v, Remove(o)) = [x \in Ids |-> IF x = o THEN Unseen ELSE v[x]]
         /\ Remove(o).kind = "remove"
BY DEF Apply, Remove

\* moved,
LEMMA ApplyMove ==
  ASSUME NEW v, NEW o \in Ids, NEW c
  PROVE  /\ v[o] # Unseen => Apply(v, Move(o, c)) = [x \in Ids |-> IF x = o THEN c ELSE v[x]]
         /\ DOMAIN Move(o, c).at = {o}
BY DEF Apply, Move

\* or attacks or is attacked where it is known to be.
LEMMA ApplyAttack ==
  ASSUME NEW v, NEW o \in Ids, NEW d \in Ids
  PROVE  v[o] = pos[o] /\ v[d] = pos[d] => Apply(v, Attack(o, d)) = [x \in Ids |-> v[x]]
BY DEF Apply, Attack

\* Between broadcasts the clients know the shared view.
LEMMA ViewIsShared ==
  ASSUME ViewInv, ~BroadcastOn
  PROVE  \A p \in players : connected[p] => view[p] = Shared
BY DEF ViewInv, Heard

\* A broadcast that begins.
LEMMA ViewCalling ==
  ASSUME TypeOK', NEW m, NEW r, Calling(m, r),
         \A p \in players' : connected'[p] => Apply(view'[p], m) = Shared',
         m.kind \in {"move", "attack"} => DOMAIN m.at \subseteq (ObjectsIn \ Leaving)'
  PROVE  ViewInv'
<1>1. Head(stack').on = NoOne /\ Head(stack').msg = m /\ BroadcastOn'
  BY DEF Calling, Start
<1>2. \A p \in players' : p > NoOne
  <2>1. players' \subseteq Nat
    BY DEF TypeOK
  <2> QED BY <2>1 DEF NoOne
<1> QED BY <1>1, <1>2 DEF ViewInv, Heard

\* A step without a broadcast.
LEMMA ViewGoingOn ==
  ASSUME NEW r, GoingOn(r), \A p \in players' : connected'[p] => view'[p] = Shared'
  PROVE  ViewInv'
BY DEF ViewInv, Heard, GoingOn

\* The shared view changes with the objects, their cells and who is leaving.
LEMMA SharedSame ==
  ASSUME UNCHANGED <<players, monsters, pos>>, Leaving' = Leaving
  PROVE  Shared' = Shared
BY DEF Shared, ObjectsIn

\* A step that changes nothing of a room from which nobody is leaving.
LEMMA ViewPlain ==
  ASSUME ViewInv, ~BroadcastOn, Leaving = {}, NEW r, GoingOn(r), LeavingOf(r) = {},
         UNCHANGED <<players, monsters, pos, connected, view>>
  PROVE  ViewInv'
<1>1. Shared' = Shared
  BY SharedSame DEF Leaving, GoingOn
<1> QED BY <1>1, ViewIsShared, ViewGoingOn

\* A step to the broadcast of a removal.
LEMMA ViewRemoving ==
  ASSUME TypeOK, TypeOK', ViewInv, ~BroadcastOn, Leaving = {}, NEW o \in Ids, NEW r,
         Calling(Remove(o), r), LeavingOf(r) = {o},
         UNCHANGED <<players, monsters, pos>>,
         \A p \in players : connected'[p] => connected[p] /\ view'[p] = view[p]
  PROVE  ViewInv'
<1>1. Leaving' = {o}
  BY DEF Calling, Leaving
<1>2. Shared' = [x \in Ids |-> IF x = o THEN Unseen ELSE Shared[x]]
  BY <1>1 DEF Shared, ObjectsIn
<1>3. \A p \in players' : connected'[p] => Apply(view'[p], Remove(o)) = Shared'
  <2>1. Apply(Shared, Remove(o)) = Shared'
    BY <1>2, ApplyRemove
  <2>2. \A p \in players' : connected'[p] => view'[p] = Shared
    BY ViewIsShared
  <2> QED BY <2>1, <2>2
<1> QED BY <1>3, ViewCalling, ApplyRemove

\* Steps of the worker loop begin and end in a shared view.
LEMMA ViewQuiet ==
  ASSUME stack = << >>
  PROVE  ~BroadcastOn /\ Leaving = {} /\ Rest = << >>
BY RestFacts, Resting DEF BroadcastOn, Leaving, Rest

\* No step lets a client's view drift from the room.
LEMMA ViewStep ==
  ASSUME ~EarlyFailures, TypeOK, TypeOK', CalmInv, CalmInv', AttackerStays, ViewInv,
         [Next]_vars
  PROVE  ViewInv'
<1> USE DEF access, objects, ai
<1>1. ASSUME NEW s \in Sessions, EnterRoom(s) PROVE ViewInv'
  <2>1. /\ stack = << >> /\ UNCHANGED <<monsters, pos>> /\ opened = s - 1
        /\ players' = players \cup {s} /\ connected' = [connected EXCEPT ![s] = TRUE]
        /\ view' = [view EXCEPT ![s] = ObjectList(s)]
    BY <1>1 DEF EnterRoom, Fails, Dispatched, Quiet
  <2> DEFINE m == Add(s, pos[s])
  <2>2. Calling(m, <<Listening(s)>>) /\ Leaving' = {} /\ s \in Ids /\ s \notin players
    <3>1. s \notin players
      BY <2>1, IdFacts DEF TypeOK
    <3> QED BY <1>1, <3>1, EnterCalls, Resting, IdFacts DEF Calling, Leaving
  <2>3. Leaving = {} /\ \A p \in players : connected[p] => view[p] = Shared
    BY <2>1, ViewQuiet, ViewIsShared
  <2>4. Shared' = [x \in Ids |-> IF x = s THEN pos[s] ELSE Shared[x]]
    BY <2>1, <2>2, <2>3 DEF Shared, ObjectsIn
  <2>5. Apply(Shared, m) = Shared' /\ Apply(ObjectList(s), m) = Shared'
    <3>1. Apply(Shared, m) = Shared'
      BY <2>2, <2>4, ApplyAdd
    <3>2. ObjectList(s) = Shared'
      BY <2>1, <2>2 DEF Shared, ObjectList, ObjectsIn
    <3>3. Apply(Shared', m) = [x \in Ids |-> IF x = s THEN pos[s] ELSE Shared'[x]]
      BY <2>2, ApplyAdd
    <3>4. Apply(Shared', m) = Shared'
      BY <2>4, <3>3
    <3> QED BY <3>1, <3>2, <3>4
  <2>6. \A p \in players' : connected'[p] => Apply(view'[p], m) = Shared'
    <3>1. view'[s] = ObjectList(s)
      BY <2>1 DEF TypeOK
    <3>2. ASSUME NEW p \in players, connected'[p] PROVE Apply(view'[p], m) = Shared'
      <4>1. p # s /\ p \in Sessions
        BY <2>2, RoomFacts DEF TypeOK
      <4>2. connected[p] /\ view'[p] = view[p]
        BY <2>1, <3>2, <4>1 DEF TypeOK
      <4> QED BY <2>3, <2>5, <4>2
    <3> QED BY <2>1, <2>5, <3>1, <3>2
  <2>7. m.kind = "add"
    BY <2>2, ApplyAdd
  <2> HIDE DEF m
  <2> QED BY <2>2, <2>6, <2>7, ViewCalling
<1>2. ASSUME NEW s \in Sessions, LeaveRoom(s) PROVE ViewInv'
  <2>1. /\ stack = << >> /\ UNCHANGED <<players, monsters, pos>> /\ s \in Ids
        /\ connected' = [connected EXCEPT ![s] = FALSE]
        /\ view' = [view EXCEPT ![s] = Nothing]
    BY <1>2, IdFacts DEF LeaveRoom, Disconnect, Dispatched, Quiet
  <2>2. \A p \in players : connected'[p] => connected[p] /\ view'[p] = view[p]
    BY <2>1, RoomFacts DEF TypeOK
  <2>3. ~BroadcastOn /\ Leaving = {}
    BY <2>1, ViewQuiet
  <2>4. CASE Calling(Remove(s), <<EraseFrame(s)>>)
    BY <2>1, <2>2, <2>3, <2>4, Resting, ViewRemoving
  <2>5. CASE GoingOn(<< >>)
    <3>1. Shared' = Shared
      BY <2>1, <2>3, <2>5, Resting, SharedSame DEF GoingOn, Leaving
    <3> QED BY <2>1, <2>2, <2>3, <2>5, <3>1, ViewIsShared, ViewGoingOn
  <2> QED BY <1>2, <2>4, <2>5, LeaveCalls
<1>3. ASSUME NEW s \in Sessions, SendDone(s) \/ Receive(s) PROVE ViewInv'
  <2>1. /\ stack = << >> /\ stack' \in {<< >>, <<Parsing(s)>>}
        /\ UNCHANGED <<players, monsters, pos, connected, view>>
    BY <1>3 DEF SendDone, Receive, Dispatched, Quiet, Parsing
  <2>2. GoingOn(stack') /\ LeavingOf(stack') = {}
    BY <2>1, GoingOnWith, Resting
  <2> QED BY <2>1, <2>2, ViewQuiet, ViewPlain
<1>4. CASE DispatchNothing \/ UpdateNothing \/ UpdateMove \/ Tick
  <2>1. stack = << >> /\ stack' = << >> /\ UNCHANGED <<players, monsters, pos, connected, view>>
    BY <1>4 DEF DispatchNothing, UpdateNothing, UpdateMove, Tick, Dispatched, Updating, Quiet
  <2>2. GoingOn(<< >>) /\ LeavingOf(<< >>) = {}
    BY <2>1, GoingOnWith, Resting
  <2> QED BY <2>1, <2>2, ViewQuiet, ViewPlain
<1>5. ASSUME NEW o \in Ids, NEW c \in Cells, NEW r, o \in ObjectsIn, ~BroadcastOn, Leaving = {},
             Calling(Move(o, c), r), LeavingOf(r) = {}, pos' = [pos EXCEPT ![o] = c],
             UNCHANGED <<players, monsters, connected, view>>
      PROVE  ViewInv'
  <2>1. Leaving' = {}
    BY <1>5 DEF Calling, Leaving
  <2>2. Shared' = [x \in Ids |-> IF x = o THEN c ELSE Shared[x]]
    BY <1>5, <2>1 DEF Shared, ObjectsIn, TypeOK, TypeOK
  <2>3. Shared[o] # Unseen
    BY <1>5, RoomFacts DEF Shared, TypeOK
  <2>4. Apply(Shared, Move(o, c)) = Shared'
    BY <2>2, <2>3, ApplyMove
  <2>5. \A p \in players' : connected'[p] => Apply(view'[p], Move(o, c)) = Shared'
    BY <1>5, <2>4, ViewIsShared
  <2>6. DOMAIN Move(o, c).at \subseteq (ObjectsIn \ Leaving)'
    BY <1>5, <2>1, ApplyMove DEF ObjectsIn
  <2> QED BY <1>5, <2>5, <2>6, ViewCalling
<1>6. ASSUME NEW o \in Ids, NEW d \in Ids, NEW r, o \in ObjectsIn, d \in ObjectsIn,
             ~BroadcastOn, Leaving = {}, Calling(Attack(o, d), r), LeavingOf(r) = {},
             UNCHANGED <<players, monsters, pos, connected, view>>
      PROVE  ViewInv'
  <2>1. Leaving' = {}
    BY <1>6 DEF Calling, Leaving
  <2>2. Shared' = Shared
    BY <1>6, <2>1, SharedSame
  <2>3. Shared[o] = pos[o] /\ Shared[d] = pos[d] /\ Shared = [x \in Ids |-> Shared[x]]
    BY <1>6 DEF Shared
  <2>4. Apply(Shared, Attack(o, d)) = Shared'
    BY <2>2, <2>3, ApplyAttack
  <2>5. \A p \in players' : connected'[p] => Apply(view'[p], Attack(o, d)) = Shared'
    BY <1>6, <2>4, ViewIsShared
  <2>6. DOMAIN Attack(o, d).at \subseteq (ObjectsIn \ Leaving)'
    BY <1>6, <2>1 DEF Attack, ObjectsIn
  <2> QED BY <1>6, <2>5, <2>6, ViewCalling
<1>7. CASE UpdateIdle
  <2>1. /\ Monster \in ObjectsIn /\ Monster \in Ids /\ stack = << >>
        /\ UNCHANGED <<players, monsters, connected, view>>
    BY <1>7, IdleCalls, IdFacts DEF UpdateIdle, ObjectsIn
  <2>2. ~BroadcastOn /\ Leaving = {} /\ LeavingOf(<< >>) = {}
    BY <2>1, ViewQuiet, Resting
  <2>3. CASE GoingOn(<< >>) /\ pos' = pos
    BY <2>1, <2>2, <2>3, ViewPlain
  <2>4. ASSUME NEW c \in Cells, Calling(Move(Monster, c), << >>),
               pos' = [pos EXCEPT ![Monster] = c]
        PROVE  ViewInv'
    BY <1>5, <2>1, <2>2, <2>4
  <2> QED BY <1>7, <2>3, <2>4, IdleCalls
<1>8. CASE UpdateSkill
  <2>1. /\ Monster \in ObjectsIn /\ Monster \in Ids /\ stack = << >>
        /\ UNCHANGED <<players, monsters, pos, connected, view>>
    BY <1>8, SkillCalls, IdFacts DEF UpdateSkill, ObjectsIn
  <2>2. ~BroadcastOn /\ Leaving = {} /\ LeavingOf(<< >>) = {}
    BY <2>1, ViewQuiet, Resting
  <2>3. CASE GoingOn(<< >>)
    BY <2>1, <2>2, <2>3, ViewPlain
  <2>4. CASE target \in players /\ Calling(Attack(target, Monster), <<Hitting(target)>>)
    <3>1. target \in Sessions /\ target \in Ids /\ target \in ObjectsIn
      BY <2>4, RoomFacts, IdFacts DEF TypeOK, ObjectsIn
    <3>2. LeavingOf(<<Hitting(target)>>) = {}
      BY <3>1, Resting
    <3> QED BY <1>6, <2>1, <2>2, <2>4, <3>1, <3>2
  <2> QED BY <1>8, <2>3, <2>4, SkillCalls
<1>9. CASE Packet
  <2>1. PICK s \in Sessions, c \in Cells, skill \in BOOLEAN :
          \E front \in InFront(c) : HandleCMove(s, c, skill, front)
    BY <1>9 DEF Packet
  <2>2. PICK front \in InFront(c) : HandleCMove(s, c, skill, front)
    BY <2>1
  <2>3. /\ UNCHANGED <<players, monsters, connected, view>> /\ s \in ObjectsIn /\ s \in Ids
        /\ pos' = [pos EXCEPT ![s] = c]
    BY <2>2, IdFacts DEF HandleCMove, ObjectsIn
  <2>4. /\ ~BroadcastOn /\ Rest = <<Parsing(s)>> /\ front \in Int \X Int
        /\ \E r \in {<<Parsing(s)>>, <<Attacking(s, front), Parsing(s)>>} :
             Calling(Move(s, c), r)
    BY <2>2, MoveCalls
  <2>5. Leaving = {} /\ \A r \in {<<Parsing(s)>>, <<Attacking(s, front), Parsing(s)>>} :
                         LeavingOf(r) = {}
    BY <2>4, Resting DEF Leaving
  <2> QED BY <1>5, <2>3, <2>4, <2>5
<1>10. ASSUME NEW p \in Sessions, SendTo(p) PROVE ViewInv'
  <2>1. /\ BroadcastOn /\ BroadcastOn' /\ Rest' = Rest /\ Head(stack) \in BroadcastFrames
        /\ Head(stack').on = p /\ Head(stack').msg = Head(stack).msg
    BY <1>10, VisitCalls
  <2>2. /\ UNCHANGED <<players, monsters, pos, connected>>
        /\ p \in players /\ p > Head(stack).on
        /\ \A q \in players : q > Head(stack).on => p <= q
        /\ view' = IF connected[p]
                   THEN [view EXCEPT ![p] = Apply(@, Head(stack).msg)] ELSE view
    BY <1>10 DEF SendTo, Ahead, Lossy, CalmInv
  <2>3. Shared' = Shared /\ Leaving' = Leaving
    BY <2>1, <2>2, SharedSame DEF Leaving
  <2>4. ASSUME NEW q \in players, connected[q] PROVE Heard(q)' = Heard(q)
    <3>1. q \in Int /\ p \in Int /\ Head(stack).on \in Int /\ q \in Sessions
      <4>1. Head(stack).on \in Sessions \cup {NoOne} /\ q \in Sessions
        BY <2>1, RoomFacts DEF BroadcastFrames
      <4>2. Sessions \subseteq Int /\ NoOne \in Int
        BY IdFacts DEF NoOne
      <4> QED BY <4>1, <4>2
    <3>2. CASE q = p
      BY <2>1, <2>2, <2>4, <3>1, <3>2 DEF Heard, TypeOK, TypeOK
    <3>3. CASE q > p
      BY <2>1, <2>2, <3>1, <3>3 DEF Heard, TypeOK, TypeOK
    <3>4. CASE q < p
      <4>1. ~(q > Head(stack).on) /\ ~(q > p)
        BY <2>2, <3>1, <3>4
      <4> QED BY <2>1, <2>2, <3>1, <3>4, <4>1 DEF Heard, TypeOK, TypeOK
    <3> QED BY <3>1, <3>2, <3>3, <3>4
  <2> QED BY <2>1, <2>2, <2>3, <2>4 DEF ViewInv, ObjectsIn
<1>11. CASE BroadcastEnds
  <2>1. BroadcastOn /\ GoingOn(Rest) /\ Head(stack) \in BroadcastFrames
    BY <1>11, ReturnCalls
  <2>2. UNCHANGED <<players, monsters, pos, connected, view>>
        /\ \A q \in players : ~(q > Head(stack).on)
    BY <1>11 DEF BroadcastEnds, Ahead
  <2>3. Shared' = Shared
    BY <2>1, <2>2, SharedSame DEF Leaving, GoingOn
  <2>4. \A q \in players : Heard(q) = view[q]
    BY <2>2 DEF Heard
  <2> QED BY <2>1, <2>2, <2>3, <2>4, ViewGoingOn DEF ViewInv
<1>12. ASSUME NEW p \in Sessions, SendFails(p) \/ SendLoses(p) \/ SendDoneLoses(p) PROVE FALSE
  BY <1>12 DEF SendFails, SendLoses, SendDoneLoses, Fails
<1>13. CASE ListenFails \/ ListenDeafens
  BY <1>13 DEF ListenFails, ListenDeafens, Fails
<1>14. CASE Erase
  <2> DEFINE o == Head(stack).id
  <2>1. /\ ~BroadcastOn /\ Leaving = {o}
        /\ \E r : GoingOn(r) /\ LeavingOf(r) = {}
    BY <1>14, EraseCalls, Resting
  <2>2. /\ players' = players \ {o} /\ monsters' = monsters \ {o} /\ UNCHANGED connected
        /\ pos' = IF o = Monster THEN pos ELSE [pos EXCEPT ![o] = PlayerSpawn]
        /\ view' = IF o = Monster THEN view ELSE [view EXCEPT ![o] = Nothing]
    BY <1>14 DEF Erase
  <2>3. Leaving' = {} /\ \E r : GoingOn(r)
    BY <2>1 DEF GoingOn, Leaving
  <2> HIDE DEF o
  <2>4. Shared' = Shared
    <3>1. \A x \in Ids : x # o => pos'[x] = pos[x]
      BY <2>2 DEF TypeOK
    <3>2. \A x \in Ids : (x \in (ObjectsIn \ Leaving)') = (x \in ObjectsIn \ Leaving)
      BY <2>1, <2>2, <2>3 DEF ObjectsIn
    <3>3. \A x \in Ids : x \in ObjectsIn \ Leaving => pos'[x] = pos[x]
      BY <2>1, <3>1
    <3> QED BY <3>2, <3>3 DEF Shared
  <2>5. \A p \in players' : connected'[p] => view'[p] = Shared'
    <3>1. \A p \in players' : p # o /\ p \in players /\ p \in Sessions
      BY <2>2, RoomFacts DEF TypeOK
    <3>2. \A p \in players' : view'[p] = view[p]
      BY <2>2, <3>1 DEF TypeOK
    <3> QED BY <2>1, <2>2, <2>4, <3>1, <3>2, ViewIsShared
  <2> QED BY <2>3, <2>5, ViewGoingOn
<1>15. CASE PlayerAttacks
  <2>1. /\ ~BroadcastOn /\ Leaving = {}
        /\ UNCHANGED <<view, players, monsters, pos, connected>>
    BY <1>15, AttackCalls
  <2>2. PICK s \in Sessions :
          /\ s \in players
          /\ \/ GoingOn(<<Parsing(s)>>)
             \/ /\ Monster \in monsters
                /\ Calling(Attack(Monster, s), <<Attacked(s), Parsing(s)>>)
    BY <1>15, AttackCalls
  <2>3. /\ s \in Ids /\ Monster \in Ids /\ s \in ObjectsIn
        /\ LeavingOf(<<Parsing(s)>>) = {} /\ LeavingOf(<<Attacked(s), Parsing(s)>>) = {}
    BY <2>2, IdFacts, Resting DEF ObjectsIn
  <2>4. CASE GoingOn(<<Parsing(s)>>)
    BY <2>1, <2>3, <2>4, ViewPlain
  <2>5. CASE /\ Monster \in monsters
             /\ Calling(Attack(Monster, s), <<Attacked(s), Parsing(s)>>)
    <3>1. Monster \in ObjectsIn
      BY <2>5 DEF ObjectsIn
    <3> QED BY <1>6, <2>1, <2>3, <2>5, <3>1
  <2> QED BY <2>2, <2>4, <2>5
<1>16. CASE PlayerAttacked
  <2>1. /\ ~BroadcastOn /\ Leaving = {}
        /\ UNCHANGED <<view, players, monsters, pos, connected>>
    BY <1>16, AttackedCalls
  <2>2. PICK s \in Sessions :
          \/ GoingOn(<<Parsing(s)>>)
          \/ Calling(Remove(Monster), <<EraseFrame(Monster), Parsing(s)>>)
    BY <1>16, AttackedCalls
  <2>3. /\ LeavingOf(<<Parsing(s)>>) = {} /\ Monster \in Ids
        /\ LeavingOf(<<EraseFrame(Monster), Parsing(s)>>) = {Monster}
    BY IdFacts, Resting
  <2>4. CASE GoingOn(<<Parsing(s)>>)
    BY <2>1, <2>3, <2>4, ViewPlain
  <2>5. CASE Calling(Remove(Monster), <<EraseFrame(Monster), Parsing(s)>>)
    BY <2>1, <2>3, <2>5, ViewRemoving
  <2> QED BY <2>2, <2>4, <2>5
<1>17. CASE MonsterHit
  <2>1. /\ ~BroadcastOn /\ Leaving = {}
        /\ UNCHANGED <<view, players, monsters, pos, connected>>
    BY <1>17, HitCalls DEF MonsterHit
  <2>2. CASE GoingOn(<<CalmFrame>>)
    BY <2>1, <2>2, Resting, ViewPlain
  <2>3. ASSUME NEW t \in Sessions, Calling(Remove(t), <<EraseFrame(t), CalmFrame>>)
        PROVE  ViewInv'
    <3>1. t \in Ids /\ LeavingOf(<<EraseFrame(t), CalmFrame>>) = {t}
      BY IdFacts, Resting
    <3> QED BY <2>1, <2>3, <3>1, ViewRemoving
  <2> QED BY <1>17, <2>2, <2>3, HitCalls
<1>18. CASE Listen \/ MonsterCalms \/ ParseEnds
  <2>1. /\ ~BroadcastOn /\ Leaving = {}
        /\ UNCHANGED <<view, players, monsters, pos, connected>>
        /\ \E r : GoingOn(r) /\ LeavingOf(r) = {}
    BY <1>18, LastCalls, Resting DEF Listen, MonsterCalms, ParseEnds
  <2> QED BY <2>1, ViewPlain
<1>19. CASE UNCHANGED vars
  BY <1>19 DEF vars, ViewInv, Heard, Shared, BroadcastOn, Leaving, Rest, ObjectsIn
<1> QED
  BY <1>1, <1>2, <1>3, <1>4, <1>7, <1>8, <1>9, <1>10, <1>11, <1>12, <1>13, <1>14,
     <1>15, <1>16, <1>17, <1>18, <1>19 DEF Next, Dispatch, Update, Unwind

LEMMA CalmInvHolds ==
  ASSUME ~EarlyFailures
  PROVE  SafeSpec => [](TypeOK /\ CalmInv)
<1>1. Init => CalmInv
  BY RestFacts, Resting DEF Init, CalmInv, Rest, Leaving
<1>2. TypeOK /\ CalmInv /\ AttackerStays /\ [Next]_vars => CalmInv'
  BY CalmStep
<1> QED BY <1>1, <1>2, TypeCorrect, AttackerAlwaysStays, PTL DEF SafeSpec

LEMMA ViewInvHolds ==
  ASSUME ~EarlyFailures
  PROVE  SafeSpec => []ViewInv
<1>1. Init => ViewInv
  BY DEF Init, ViewInv, BroadcastOn, IsOn
<1>2. TypeOK /\ TypeOK' /\ CalmInv /\ CalmInv' /\ AttackerStays /\ ViewInv /\ [Next]_vars
        => ViewInv'
  BY ViewStep
<1> QED BY <1>1, <1>2, CalmInvHolds, AttackerAlwaysStays, PTL DEF SafeSpec

(***************************************************************************)
(* Between handlers every connected player has been told of exactly the    *)
(* objects in the room, each at its cell.                                  *)
(***************************************************************************)
THEOREM ViewsAlwaysAgree ==
  ASSUME ~EarlyFailures
  PROVE  SafeSpec => []ViewsAgree
<1>1. ViewInv => ViewsAgree
  BY ViewQuiet, ViewIsShared DEF ViewsAgree, Shared
<1> QED BY <1>1, ViewInvHolds, PTL

(***************************************************************************)
(* No client hears of a move or an attack of an object it does not know.   *)
(***************************************************************************)
THEOREM OnlyKnownObjectsMove ==
  ASSUME ~EarlyFailures
  PROVE  SafeSpec => MovesAreOfKnownObjects
<1>1. ASSUME TypeOK, CalmInv, ViewInv, [Next]_vars, NEW p \in Sessions, Told(p),
             Head(stack).msg.kind \in {"move", "attack"},
             NEW o \in DOMAIN Head(stack).msg.at, ~UNCHANGED vars
      PROVE  view[p][o] # Unseen
  <2>1. stack # << >> /\ Head(stack).op = "broadcast" /\ BroadcastOn
        /\ Len(stack') = Len(stack) /\ Head(stack').on = p /\ connected'[p]
    BY <1>1 DEF Told, Top, BroadcastOn, IsOn
  <2>2. o \in ObjectsIn \ Leaving
    BY <1>1, <2>1 DEF ViewInv
  <2>3. p \in players /\ p > Head(stack).on /\ connected[p]
    <3>1. /\ ~Quiet /\ ~Top("parse") /\ ~Top("listen") /\ ~Top("erase") /\ ~Top("attack")
          /\ ~Top("attacked") /\ ~Top("hit") /\ ~Top("calm")
      BY <2>1 DEF Top, Quiet
    <3>2. ~BroadcastEnds
      <4>1. Len(Tail(stack)) = Len(stack) - 1 /\ Len(stack) \in Nat
        BY <1>1, <2>1, TopFacts DEF TypeOK
      <4> QED BY <2>1, <4>1 DEF BroadcastEnds, Return
    <3>3. /\ ~Dispatch /\ ~Packet /\ ~ParseEnds /\ ~Update /\ ~Tick
          /\ \A s \in Sessions : ~SendFails(s) /\ ~SendLoses(s)
      BY <3>1 DEF Dispatch, EnterRoom, LeaveRoom, SendDone, SendDoneLoses, Receive,
         DispatchNothing, Dispatched, Packet, HandleCMove, ParseEnds, Update, UpdateNothing,
         UpdateIdle, UpdateMove, UpdateSkill, Updating, Tick, SendFails, SendLoses, Fails
    <3>4. /\ ~Listen /\ ~ListenFails /\ ~Erase /\ ~PlayerAttacks /\ ~PlayerAttacked
          /\ ~MonsterHit /\ ~MonsterCalms /\ ~ListenDeafens
      BY <3>1 DEF Listen, ListenFails, ListenDeafens, Erase, PlayerAttacks, PlayerAttacked, MonsterHit,
         MonsterCalms
    <3>5. PICK q \in Sessions : SendTo(q)
      BY <1>1, <3>2, <3>3, <3>4 DEF Next, Unwind
    <3>6. q = p
      BY <1>1, <2>1, <3>5, VisitCalls
    <3> QED BY <2>1, <3>5, <3>6 DEF SendTo, Ahead, access
  <2>4. Apply(view[p], Head(stack).msg) = Shared
    BY <1>1, <2>1, <2>3 DEF ViewInv, Heard
  <2>5. o \in Ids /\ Shared[o] # Unseen
    BY <1>1, <2>2, RoomFacts DEF Shared, TypeOK
  <2>6. Apply(view[p], Head(stack).msg)[o] # Unseen
    BY <2>4, <2>5
  <2> QED BY <1>1, <2>5, <2>6 DEF Apply
<1>2. TypeOK /\ CalmInv /\ ViewInv /\ [Next]_vars =>
        [\A p \in Sessions :
           /\ Told(p) /\ fate = "defined"
           /\ Head(stack).msg.kind \in {"move", "attack"}
           => \A o \in DOMAIN Head(stack).msg.at : view[p][o] # Unseen]_vars
  BY <1>1
<1> QED
  BY <1>2, CalmInvHolds, ViewInvHolds, PTL DEF SafeSpec, MovesAreOfKnownObjects
=============================================================================
