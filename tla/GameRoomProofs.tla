--------------------------- MODULE GameRoomProofs ---------------------------
(***************************************************************************)
(* Theorems about GameRoom that hold whatever fails, for any number of     *)
(* sessions, any map and any hp.  CalmRoomProofs has what holds only as    *)
(* long as a reset connection is reported by a completion.                 *)
(*                                                                         *)
(* Every handler of the room leaves a stack of at most five calls, but     *)
(* Broadcast re-enters itself, so what is said about a stack is said about *)
(* its frames, or about the frame beneath the one that is said.            *)
(***************************************************************************)
EXTENDS GameRoom, SequenceTheorems, FiniteSetTheorems, WellFoundedInduction, TLAPS

-----------------------------------------------------------------------------
(* Frames and stacks.                                                      *)

\* Which frames an op can belong to.
LEMMA FrameByOp ==
  ASSUME NEW f \in Frames
  PROVE  /\ f.op = "broadcast" => f \in BroadcastFrames
         /\ f.op \in {"parse", "listen", "hit"} => f \in SessionFrames
         /\ f.op = "erase" => f \in EraseFrames
         /\ f.op = "attack" => f \in AttackFrames
         /\ f.op = "attacked" => f \in AttackedFrames
         /\ f.op = "calm" => f \in CalmFrames
         /\ f.op \in {"parse", "listen", "broadcast", "erase", "attack",
                      "attacked", "hit", "calm"}
BY DEF Frames, BroadcastFrames, SessionFrames, EraseFrames, AttackFrames,
       AttackedFrames, CalmFrames

\* Sessions are numbers, the monster and nobody are not among them.
LEMMA IdFacts ==
  /\ Sessions \subseteq Nat \ {0} /\ Sessions \subseteq Ids
  /\ Monster \in Ids /\ Monster \notin Sessions /\ NoOne \notin Ids
  /\ \A s \in Sessions : NoOne < s
  /\ Ids \subseteq Nat
BY BoundsAssumption DEF Sessions, Ids, Monster, NoOne

\* The messages that the room sends.
LEMMA MessageTypes ==
  ASSUME NEW o \in Ids, NEW c \in Cells
  PROVE  Add(o, c) \in Messages /\ Remove(o) \in Messages /\ Move(o, c) \in Messages
<1>1. {o} \in SUBSET Ids
  OBVIOUS
<1>2. [x \in {o} |-> c] \in [{o} -> Shown] /\ [x \in {o} |-> Unseen] \in [{o} -> Shown]
  BY DEF Shown
<1> QED
  BY <1>1, <1>2 DEF Add, Remove, Move, Messages, Kinds

\* The message of an attack.
LEMMA AttackType ==
  ASSUME TypeOK, NEW o \in Ids, NEW a \in Ids
  PROVE  Attack(o, a) \in Messages
<1>1. {o, a} \in SUBSET Ids
  OBVIOUS
<1>2. [x \in {o, a} |-> pos[x]] \in [{o, a} -> Shown]
  BY DEF Shown, TypeOK
<1> QED
  BY <1>1, <1>2 DEF Attack, Messages, Kinds

Start(m) == [op |-> "broadcast", msg |-> m, on |-> NoOne]

\* A broadcast about to begin.
LEMMA BroadcastType ==
  ASSUME NEW m \in Messages
  PROVE  Start(m) \in Frames /\ Broadcast(m) = <<Start(m)>> /\ Broadcast(m) \in Seq(Frames)
<1>1. Start(m) \in BroadcastFrames
  BY DEF Start, BroadcastFrames
<1>2. Start(m) \in Frames
  BY <1>1 DEF Frames
<1> QED
  BY <1>2 DEF Broadcast, Start

\* A sequence of one before a sequence of one.
LEMMA ConcatTwo ==
  ASSUME NEW f \in Frames, NEW g \in Frames
  PROVE  <<f>> \o <<g>> = <<f, g>>
<1>1. <<f>> \in Seq(Frames) /\ <<g>> \in Seq(Frames) /\ <<f, g>> \in Seq(Frames)
  OBVIOUS
<1>2. /\ Len(<<f>> \o <<g>>) = 2 /\ Len(<<f, g>>) = 2
      /\ <<f>> \o <<g>> \in Seq(Frames)
  BY <1>1
<1>3. \A i \in 1..2 : (<<f>> \o <<g>>)[i] = <<f, g>>[i]
  <2>1. \A i \in 1..2 : (<<f>> \o <<g>>)[i] = IF i <= 1 THEN <<f>>[i] ELSE <<g>>[i - 1]
    BY <1>1
  <2>2. \A i \in 1..2 : i = 1 \/ i = 2
    OBVIOUS
  <2> QED BY <2>1, <2>2
<1> QED BY <1>1, <1>2, <1>3, SeqEqual

\* A sequence of two before a sequence of one.
LEMMA ConcatThree ==
  ASSUME NEW f \in Frames, NEW g \in Frames, NEW h \in Frames
  PROVE  <<f, g>> \o <<h>> = <<f, g, h>>
<1>1. <<f, g>> \in Seq(Frames) /\ <<h>> \in Seq(Frames) /\ <<f, g, h>> \in Seq(Frames)
  OBVIOUS
<1>2. /\ Len(<<f, g>> \o <<h>>) = 3 /\ Len(<<f, g, h>>) = 3
      /\ <<f, g>> \o <<h>> \in Seq(Frames)
  BY <1>1
<1>3. \A i \in 1..3 : (<<f, g>> \o <<h>>)[i] = <<f, g, h>>[i]
  <2>1. \A i \in 1..3 : (<<f, g>> \o <<h>>)[i] = IF i <= 2 THEN <<f, g>>[i] ELSE <<h>>[i - 2]
    BY <1>1
  <2>2. \A i \in 1..3 : i = 1 \/ i = 2 \/ i = 3
    OBVIOUS
  <2> QED BY <2>1, <2>2
<1> QED BY <1>1, <1>2, <1>3, SeqEqual

EraseFrame(o) == [op |-> "erase", id |-> o]

\* What RemoveObject calls.
LEMMA RemoveObjectIs ==
  ASSUME NEW o \in Ids
  PROVE  /\ Start(Remove(o)) \in Frames /\ EraseFrame(o) \in Frames
         /\ o \in ObjectsIn => RemoveObject(o) = <<Start(Remove(o)), EraseFrame(o)>>
         /\ o \notin ObjectsIn => RemoveObject(o) = << >>
         /\ RemoveObject(o) \in Seq(Frames)
<1>1. Remove(o) \in Messages
  BY MessageTypes, CellsAssumption
<1>2. Start(Remove(o)) \in Frames /\ Broadcast(Remove(o)) = <<Start(Remove(o))>>
  BY <1>1, BroadcastType
<1>3. EraseFrame(o) \in Frames
  BY DEF EraseFrame, Frames, EraseFrames
<1>4. o \in ObjectsIn => RemoveObject(o) = <<Start(Remove(o)), EraseFrame(o)>>
  BY <1>2, <1>3, ConcatTwo DEF RemoveObject, EraseFrame
<1>5. o \notin ObjectsIn => RemoveObject(o) = << >>
  BY DEF RemoveObject
<1>6. << >> \in Seq(Frames) /\ <<Start(Remove(o)), EraseFrame(o)>> \in Seq(Frames)
  BY <1>2, <1>3
<1> QED
  BY <1>2, <1>3, <1>4, <1>5, <1>6

\* The innermost call and the calls beneath it.
LEMMA TopFacts ==
  ASSUME NEW stk \in Seq(Frames), stk # << >>
  PROVE  /\ Len(stk) \in Nat \ {0}
         /\ Head(stk) = stk[1] /\ Head(stk) \in Frames /\ Tail(stk) \in Seq(Frames)
         /\ Len(Tail(stk)) = Len(stk) - 1
         /\ \A i \in 1..Len(Tail(stk)) : Tail(stk)[i] = stk[i + 1]
BY HeadTailProperties

\* Where the frames of a stack go when its innermost call calls others.
LEMMA CallsAt ==
  ASSUME NEW stk \in Seq(Frames), stk # << >>, NEW fs \in Seq(Frames),
         NEW n \in Nat, n = Len(fs)
  PROVE  /\ fs \o Tail(stk) \in Seq(Frames)
         /\ Len(fs \o Tail(stk)) = n + Len(stk) - 1
         /\ \A i \in 1..n : (fs \o Tail(stk))[i] = fs[i]
         /\ \A i \in 2..Len(stk) : (fs \o Tail(stk))[n + i - 1] = stk[i]
         /\ \A i \in (n + 1)..(n + Len(stk) - 1) :
              i - n + 1 \in 2..Len(stk) /\ (fs \o Tail(stk))[i] = stk[i - n + 1]
<1>1. /\ Tail(stk) \in Seq(Frames) /\ Len(Tail(stk)) = Len(stk) - 1
      /\ Len(stk) \in Nat \ {0}
      /\ \A i \in 1..Len(Tail(stk)) : Tail(stk)[i] = stk[i + 1]
  BY TopFacts
<1>2. /\ fs \o Tail(stk) \in Seq(Frames)
      /\ Len(fs \o Tail(stk)) = n + Len(Tail(stk))
      /\ \A i \in 1..(n + Len(Tail(stk))) :
           (fs \o Tail(stk))[i] = IF i <= n THEN fs[i] ELSE Tail(stk)[i - n]
  BY <1>1, ConcatProperties
<1>3. \A i \in 2..Len(stk) : (fs \o Tail(stk))[n + i - 1] = stk[i]
  <2> TAKE i \in 2..Len(stk)
  <2>1. n + i - 1 \in 1..(n + Len(Tail(stk))) /\ ~(n + i - 1 <= n)
        /\ (n + i - 1) - n = i - 1 /\ i - 1 \in 1..Len(Tail(stk)) /\ (i - 1) + 1 = i
    BY <1>1
  <2>2. (fs \o Tail(stk))[n + i - 1] = Tail(stk)[i - 1]
    BY <1>2, <2>1
  <2> QED BY <1>1, <2>1, <2>2
<1>4. \A i \in (n + 1)..(n + Len(stk) - 1) :
        i - n + 1 \in 2..Len(stk) /\ (fs \o Tail(stk))[i] = stk[i - n + 1]
  <2> TAKE i \in (n + 1)..(n + Len(stk) - 1)
  <2>1. i - n + 1 \in 2..Len(stk) /\ n + (i - n + 1) - 1 = i
    BY <1>1
  <2> QED BY <1>3, <2>1
<1> QED BY <1>1, <1>2, <1>3, <1>4

-----------------------------------------------------------------------------
(***************************************************************************)
(* Types.  That the closest player exists needs that distances, broken by  *)
(* ids, are well ordered.                                                  *)
(***************************************************************************)
\* A player that is in the room, and the cells of objects.
LEMMA RoomFacts ==
  ASSUME TypeOK
  PROVE  /\ players \subseteq Sessions /\ ObjectsIn \subseteq Ids
         /\ \A o \in Ids : pos[o] \in Cells
         /\ Cells \subseteq Shown /\ Unseen \in Shown
         /\ \A c \in Cells : c # Unseen
<1>1. \A c \in Cells : c # Unseen
  BY CellsAssumption DEF Unseen
<1>2. players \subseteq Sessions
  BY BoundsAssumption DEF TypeOK, Sessions
<1> QED BY <1>1, <1>2 DEF TypeOK, ObjectsIn, Ids, Shown

NatOrder == OpToRel(<, Nat)

\* The distance of a player, then its id.
Key(c, p) == <<LengthSquared(c, pos[p]), p>>

\* FindClosestPlayer finds a player if there is one.
LEMMA ClosestExists ==
  ASSUME TypeOK, NEW c \in Cells, players # {}
  PROVE  ClosestPlayer(c) \in players
<1> DEFINE T == {Key(c, p) : p \in players}
           R == LexPairOrdering(NatOrder, NatOrder, Nat, Nat)
<1>1. players \subseteq Ids /\ players \subseteq Nat
  BY RoomFacts, IdFacts
<1>2. \A p \in players : LengthSquared(c, pos[p]) \in Nat
  <2> TAKE p \in players
  <2>1. \A x \in Int : x * x \in Nat
    OBVIOUS
  <2>2. pos[p] \in Int \X Int /\ c \in Int \X Int
    BY <1>1, CellsAssumption DEF TypeOK
  <2> DEFINE dx == c[1] - pos[p][1]
             dy == c[2] - pos[p][2]
  <2>3. dx \in Int /\ dy \in Int
    BY <2>2
  <2>4. LengthSquared(c, pos[p]) = dx * dx + dy * dy
    BY DEF LengthSquared
  <2>5. dx * dx \in Nat /\ dy * dy \in Nat
    BY <2>1, <2>3
  <2> QED BY <2>4, <2>5
<1>3. T \subseteq Nat \X Nat /\ T # {}
  <2>1. \A p \in players : Key(c, p) \in Nat \X Nat
    BY <1>1, <1>2 DEF Key
  <2> QED BY <2>1
<1>4. IsWellFoundedOn(R, Nat \X Nat)
  BY NatLessThanWellFounded, WFLexPairOrdering DEF NatOrder
<1> HIDE DEF R
<1>5. PICK k \in T : \A l \in T : ~(<<l, k>> \in R)
  BY <1>3, <1>4, WFMin, Zenon
<1>6. PICK p \in players : k = Key(c, p)
  BY <1>5
<1>7. \A q \in players : ~(<<Key(c, q), Key(c, p)>> \in R)
  BY <1>5, <1>6
<1>8. ASSUME NEW q \in players \ {p}
      PROVE  \/ LengthSquared(c, pos[p]) < LengthSquared(c, pos[q])
             \/ LengthSquared(c, pos[p]) = LengthSquared(c, pos[q]) /\ p < q
  <2>1. \A x, y \in Nat : <<x, y>> \in NatOrder <=> x < y
    BY DEF NatOrder, OpToRel
  <2>2. /\ LengthSquared(c, pos[p]) \in Nat /\ LengthSquared(c, pos[q]) \in Nat
        /\ p \in Nat /\ q \in Nat /\ p # q
    BY <1>1, <1>2
  <2>3. <<Key(c, q), Key(c, p)>> \in (Nat \X Nat) \X (Nat \X Nat)
    BY <2>2 DEF Key
  <2>4. /\ ~(<<LengthSquared(c, pos[q]), LengthSquared(c, pos[p])>> \in NatOrder)
        /\ ~(/\ LengthSquared(c, pos[q]) = LengthSquared(c, pos[p])
             /\ <<q, p>> \in NatOrder)
    BY <1>7, <2>3 DEF R, LexPairOrdering, Key
  <2>5. /\ ~(LengthSquared(c, pos[q]) < LengthSquared(c, pos[p]))
        /\ ~(LengthSquared(c, pos[q]) = LengthSquared(c, pos[p]) /\ q < p)
    BY <2>1, <2>2, <2>4
  <2> QED BY <2>2, <2>5
<1>9. p \in Closest(c)
  BY <1>8 DEF Closest
<1>10. ClosestPlayer(c) \in Closest(c)
  BY <1>9 DEF ClosestPlayer
<1> QED BY <1>10 DEF Closest

\* What a client makes of a message keeps its view a view.
LEMMA ViewType ==
  ASSUME NEW v \in [Ids -> Shown], NEW m \in Messages
  PROVE  Apply(v, m) \in [Ids -> Shown]
<1>1. PICK D \in SUBSET Ids : m.at \in [D -> Shown]
  BY DEF Messages
<1> QED BY <1>1 DEF Apply

\* Disconnect keeps its variables typed.
LEMMA DisconnectType ==
  ASSUME TypeOK, NEW s \in Sessions, Disconnect(s)
  PROVE  /\ connected' \in [Sessions -> BOOLEAN]
         /\ sending' \subseteq {t \in Sessions : connected'[t]}
         /\ view' \in [Sessions -> [Ids -> Shown]]
<1>1. Nothing \in [Ids -> Shown]
  BY DEF Nothing, Shown
<1> QED BY <1>1 DEF Disconnect, TypeOK, Shown

\* What fails has a kind.
LEMMA FailsType ==
  ASSUME TypeOK, NEW s \in Sessions, NEW kind \in {"greeting", "reset", "loss", "deaf"},
         Fails(s, kind)
  PROVE  failed' \subseteq Sessions \X {"greeting", "reset", "loss", "deaf"}
BY DEF Fails, TypeOK

\* The stack a function leaves that returns or calls others.
LEMMA StackType ==
  ASSUME TypeOK, stack # << >>
  PROVE  /\ Tail(stack) \in Seq(Frames) /\ Head(stack) \in Frames
         /\ \A fs \in Seq(Frames) : fs \o Tail(stack) \in Seq(Frames)
         /\ \A f \in Frames : <<f>> \in Seq(Frames)
BY TopFacts, ConcatProperties DEF TypeOK

\* Dispatched completions keep the types.
LEMMA DispatchTypes ==
  ASSUME TypeOK, NEW s \in Sessions,
         \/ EnterRoom(s) \/ LeaveRoom(s) \/ SendDone(s) \/ SendDoneLoses(s)
         \/ Receive(s) \/ DispatchNothing
  PROVE  TypeOK'
<1> USE DEF access, objects, ai, TypeOK
<1>1. turn' = "update"
  BY DEF EnterRoom, LeaveRoom, SendDone, SendDoneLoses, Receive, DispatchNothing, Dispatched
<1>2. CASE EnterRoom(s)
  <2>1. [op |-> "listen", id |-> s] \in Frames /\ s \in Ids /\ pos[s] \in Cells
    BY RoomFacts, IdFacts DEF Frames, SessionFrames
  <2>2. stack' \in Seq(Frames)
    <3>1. Broadcast(Add(s, pos[s])) \in Seq(Frames)
      BY <2>1, MessageTypes, BroadcastType
    <3> QED BY <1>2, <2>1, <3>1 DEF EnterRoom
  <2>3. /\ connected' \in [Sessions -> BOOLEAN]
        /\ sending' \subseteq {t \in Sessions : connected'[t]}
        /\ view' \in [Sessions -> [Ids -> Shown]]
        /\ failed' \subseteq Sessions \X {"greeting", "reset", "loss", "deaf"}
    <3>1. ObjectList(s) \in [Ids -> Shown]
      BY RoomFacts DEF ObjectList
    <3>2. /\ connected \in [Sessions -> BOOLEAN]
          /\ sending \subseteq {t \in Sessions : connected[t]}
          /\ view \in [Sessions -> [Ids -> Shown]]
      BY DEF TypeOK, Shown
    <3>3. CASE /\ connected' = [connected EXCEPT ![s] = TRUE]
               /\ sending' = sending \cup {s}
               /\ view' = [view EXCEPT ![s] = ObjectList(s)]
               /\ UNCHANGED failed
      <4>1. connected' \in [Sessions -> BOOLEAN] /\ view' \in [Sessions -> [Ids -> Shown]]
        BY <3>1, <3>2, <3>3
      <4>2. sending' \subseteq {t \in Sessions : connected'[t]}
        BY <3>2, <3>3
      <4> QED BY <3>3, <4>1, <4>2
    <3>4. CASE Fails(s, "greeting") /\ UNCHANGED <<connected, sending, view>>
      BY <3>2, <3>4, FailsType
    <3>5. CASE /\ Fails(s, "loss")
               /\ connected' = [connected EXCEPT ![s] = TRUE]
               /\ sending' \in {sending, sending \cup {s}}
               /\ UNCHANGED view
      <4>1. connected' \in [Sessions -> BOOLEAN]
        BY <3>2, <3>5
      <4>2. sending' \subseteq {t \in Sessions : connected'[t]}
        BY <3>2, <3>5
      <4> QED BY <3>2, <3>5, <4>1, <4>2, FailsType
    <3> QED BY <1>2, <3>3, <3>4, <3>5 DEF EnterRoom
  <2>4. opened' \in 0..MaxSessions /\ players' \subseteq 1..opened'
    BY <1>2, BoundsAssumption DEF EnterRoom, TypeOK, Sessions
  <2> QED
    BY <1>1, <1>2, <2>2, <2>3, <2>4 DEF EnterRoom, TypeOK, Shown
<1>3. CASE LeaveRoom(s)
  <2>1. stack' \in Seq(Frames)
    BY <1>3, IdFacts, RemoveObjectIs DEF LeaveRoom
  <2> QED
    BY <1>1, <1>3, <2>1, DisconnectType DEF LeaveRoom, TypeOK, Shown
<1>4. CASE SendDone(s)
  BY <1>1, <1>4 DEF SendDone, TypeOK
<1>7. CASE SendDoneLoses(s)
  <2>1. Nothing \in [Ids -> Shown]
    BY DEF Nothing, Shown
  <2>2. view' \in [Sessions -> [Ids -> Shown]] /\ sending' \subseteq sending
    BY <1>7, <2>1 DEF SendDoneLoses
  <2>3. failed' \subseteq Sessions \X {"greeting", "reset", "loss", "deaf"}
    BY <1>7, FailsType DEF SendDoneLoses
  <2> QED BY <1>1, <1>7, <2>2, <2>3 DEF SendDoneLoses
<1>5. CASE Receive(s)
  <2>1. [op |-> "parse", id |-> s] \in Frames
    BY DEF Frames, SessionFrames
  <2>2. stack' \in Seq(Frames)
    BY <1>5, <2>1 DEF Receive
  <2> QED BY <1>1, <1>5, <2>2 DEF Receive, TypeOK
<1>6. CASE DispatchNothing
  BY <1>1, <1>6 DEF DispatchNothing, TypeOK
<1> QED BY <1>2, <1>3, <1>4, <1>5, <1>6, <1>7

\* GameRoom::Update keeps the types.
LEMMA UpdateTypes == ASSUME TypeOK, Update PROVE TypeOK'
<1> USE DEF access, objects, ai, TypeOK
<1>1. turn' = "dispatch"
  BY DEF Update, UpdateNothing, UpdateIdle, UpdateMove, UpdateSkill, Updating
<1>2. CASE UpdateNothing
  BY <1>1, <1>2 DEF UpdateNothing, TypeOK
<1>3. CASE UpdateIdle
  <2>1. pos[Monster] \in Cells /\ players \subseteq Sessions
    BY RoomFacts, IdFacts
  <2>2. target' \in Sessions \cup {NoOne}
    <3>1. players # {} => ClosestPlayer(pos[Monster]) \in players
      BY <2>1, ClosestExists
    <3>2. players = {} => ClosestPlayer(pos[Monster]) = NoOne
      BY DEF ClosestPlayer
    <3> QED BY <1>3, <2>1, <3>1, <3>2 DEF UpdateIdle
  <2>3. \A c \in Cells : Broadcast(Move(Monster, c)) \in Seq(Frames)
    BY MessageTypes, BroadcastType, IdFacts
  <2>4. \A c \in FirstSteps(pos[Monster], pos[target]) : c \in Cells
    BY DEF FirstSteps, CanGo
  <2>5. stack' \in Seq(Frames) /\ pos' \in [Ids -> Cells]
    BY <1>3, <2>1, <2>3, <2>4, IdFacts DEF UpdateIdle, TypeOK
  <2>6. /\ mstate' \in {"IDLE", "MOVE", "SKILL"}
        /\ waitMove' \in 0..Delay /\ waitAttack' \in 0..Delay
    BY <1>3, BoundsAssumption DEF UpdateIdle, TypeOK
  <2>7. UNCHANGED <<opened, connected, failed, sending, players, monsters, hp, view, fate>>
    BY <1>3 DEF UpdateIdle
  <2> HIDE DEF access, objects, ai
  <2> QED
    BY <1>1, <2>2, <2>5, <2>6, <2>7 DEF TypeOK
<1>4. CASE UpdateMove
  BY <1>1, <1>4 DEF UpdateMove, TypeOK
<1>5. CASE UpdateSkill
  <2>1. ASSUME target \in players PROVE stack' \in Seq(Frames)
    <3>1. target \in Sessions /\ target \in Ids /\ Monster \in Ids
      BY <2>1, RoomFacts, IdFacts
    <3>2. Broadcast(Attack(target, Monster)) \in Seq(Frames)
      BY <3>1, AttackType, BroadcastType
    <3>3. [op |-> "hit", id |-> target] \in Frames
      BY <3>1 DEF Frames, SessionFrames
    <3> DEFINE b == Broadcast(Attack(target, Monster))
               hit == [op |-> "hit", id |-> target]
    <3>4. stack' = stack \/ stack' = b \o <<hit>>
      BY <1>5 DEF UpdateSkill
    <3> HIDE DEF b, hit
    <3>5. b \o <<hit>> \in Seq(Frames)
      BY <3>2, <3>3, ConcatProperties DEF b, hit
    <3> QED BY <3>4, <3>5 DEF TypeOK
  <2>2. stack' \in Seq(Frames)
    BY <1>5, <2>1 DEF UpdateSkill
  <2>3. hp' \in [Ids -> Int]
    BY <1>5, RoomFacts, HpAssumption DEF UpdateSkill, TypeOK
  <2> QED BY <1>1, <1>5, <2>2, <2>3 DEF UpdateSkill, TypeOK
<1> QED BY <1>2, <1>3, <1>4, <1>5 DEF Update
\* The frames of a packet, of a receive and of an attack.
LEMMA FrameTypes ==
  /\ \A s \in Sessions :
       /\ [op |-> "listen", id |-> s] \in Frames
       /\ [op |-> "parse", id |-> s] \in Frames
       /\ [op |-> "hit", id |-> s] \in Frames
       /\ \A f \in Int \X Int : [op |-> "attack", id |-> s, front |-> f] \in Frames
       /\ [op |-> "attacked", id |-> s, prey |-> Monster] \in Frames
  /\ [op |-> "calm"] \in Frames
BY DEF Frames, SessionFrames, AttackFrames, AttackedFrames, CalmFrames

\* What Handle_C_Move calls, and what it then leaves of the receive.
LEMMA HandleCMoveCalls ==
  ASSUME TypeOK, NEW s \in Sessions, NEW c \in Cells, NEW skill \in BOOLEAN,
         NEW front \in InFront(c), HandleCMove(s, c, skill, front)
  PROVE  LET parse == [op |-> "parse", id |-> s]
             attack == [op |-> "attack", id |-> s, front |-> front]
             fs == IF skill THEN <<Start(Move(s, c)), attack, parse>>
                            ELSE <<Start(Move(s, c)), parse>>
         IN  /\ stack # << >> /\ Head(stack) = parse /\ parse \in Frames
             /\ attack \in Frames /\ Start(Move(s, c)) \in Frames
             /\ fs \in Seq(Frames) /\ stack' = fs \o Tail(stack)
<1> DEFINE parse == [op |-> "parse", id |-> s]
           attack == [op |-> "attack", id |-> s, front |-> front]
           start == Start(Move(s, c))
<1>1. stack # << >> /\ Head(stack) \in SessionFrames
  BY TopFacts, FrameByOp DEF HandleCMove, Top, TypeOK
<1>2. Head(stack) = parse
  BY <1>1 DEF HandleCMove, Top, SessionFrames
<1>3. front \in Int \X Int
  BY CellsAssumption DEF InFront
<1>4. parse \in Frames /\ attack \in Frames
  BY <1>3, FrameTypes
<1>5. start \in Frames /\ Broadcast(Move(s, c)) = <<start>>
  BY MessageTypes, BroadcastType, IdFacts
<1> HIDE DEF start, parse
<1>6. CASE skill
  <2>1. stack' = ((<<start>> \o <<attack>>) \o <<parse>>) \o Tail(stack)
    BY <1>2, <1>5, <1>6 DEF HandleCMove, Calls
  <2> HIDE DEF attack
  <2>2. (<<start>> \o <<attack>>) \o <<parse>> = <<start, attack, parse>>
    BY <1>4, <1>5, ConcatTwo, ConcatThree
  <2>3. <<start, attack, parse>> \in Seq(Frames)
    BY <1>4, <1>5
  <2> QED BY <1>1, <1>2, <1>4, <1>5, <1>6, <2>1, <2>2, <2>3 DEF start, parse, attack
<1>7. CASE ~skill
  <2>1. stack' = ((<<start>> \o << >>) \o <<parse>>) \o Tail(stack)
    BY <1>2, <1>5, <1>7 DEF HandleCMove, Calls
  <2> HIDE DEF attack
  <2>2. (<<start>> \o << >>) \o <<parse>> = <<start, parse>>
    <3>1. <<start>> \in Seq(Frames)
      BY <1>5
    <3>2. <<start>> \o << >> = <<start>>
      BY <3>1, ConcatEmptySeq
    <3> QED BY <1>4, <1>5, <3>2, ConcatTwo
  <2>3. <<start, parse>> \in Seq(Frames)
    BY <1>4, <1>5
  <2> QED BY <1>1, <1>2, <1>4, <1>5, <1>7, <2>1, <2>2, <2>3 DEF start, parse, attack
<1> QED BY <1>6, <1>7

\* The innermost call and the set its frame belongs to.
LEMMA TopFrame ==
  ASSUME TypeOK, NEW op, Top(op)
  PROVE  /\ stack # << >> /\ Head(stack) = stack[1] /\ Head(stack) \in Frames
         /\ Head(stack).op = op
         /\ Tail(stack) \in Seq(Frames) /\ << >> \o Tail(stack) = Tail(stack)
BY TopFacts, ConcatEmptySeq DEF Top, TypeOK

\* The loop of Broadcast standing on its next player.
LEMMA BroadcastMoves ==
  ASSUME TypeOK, Top("broadcast"), NEW p \in Sessions
  PROVE  LET next == [Head(stack) EXCEPT !.on = p]
         IN  /\ Head(stack) \in BroadcastFrames /\ next \in BroadcastFrames
             /\ next \in Frames /\ <<next>> \in Seq(Frames)
             /\ next.on = p /\ next.op = "broadcast" /\ next.msg = Head(stack).msg
<1>1. Head(stack) \in BroadcastFrames
  BY TopFrame, FrameByOp
<1>2. [Head(stack) EXCEPT !.on = p] \in BroadcastFrames
  BY <1>1 DEF BroadcastFrames
<1>3. [Head(stack) EXCEPT !.on = p] \in Frames
  BY <1>2 DEF Frames
<1>4. /\ [Head(stack) EXCEPT !.on = p].on = p
      /\ [Head(stack) EXCEPT !.on = p].op = "broadcast"
      /\ [Head(stack) EXCEPT !.on = p].msg = Head(stack).msg
  BY <1>1 DEF BroadcastFrames
<1> QED BY <1>1, <1>2, <1>3, <1>4

\* RemoveObject of an object in the room, and a call beneath.
LEMMA RemoveAnd ==
  ASSUME NEW o \in Ids, o \in ObjectsIn, NEW f \in Frames
  PROVE  /\ RemoveObject(o) \o <<f>> = <<Start(Remove(o)), EraseFrame(o), f>>
         /\ <<Start(Remove(o)), EraseFrame(o), f>> \in Seq(Frames)
<1> DEFINE b == Start(Remove(o))
           e == EraseFrame(o)
<1>1. b \in Frames /\ e \in Frames /\ RemoveObject(o) = <<b, e>>
  BY RemoveObjectIs
<1> HIDE DEF b, e
<1>2. <<b, e>> \o <<f>> = <<b, e, f>> /\ <<b, e, f>> \in Seq(Frames)
  BY <1>1, ConcatThree
<1>3. RemoveObject(o) \o <<f>> = <<b, e, f>>
  BY <1>1, <1>2
<1> QED BY <1>2, <1>3 DEF b, e

\* A broadcast, and a call beneath.
LEMMA BroadcastAnd ==
  ASSUME NEW m \in Messages, NEW f \in Frames
  PROVE  /\ Broadcast(m) \o <<f>> = <<Start(m), f>>
         /\ <<Start(m), f>> \in Seq(Frames)
<1> DEFINE b == Start(m)
<1>1. b \in Frames /\ Broadcast(m) = <<b>>
  BY BroadcastType
<1> HIDE DEF b
<1>2. <<b>> \o <<f>> = <<b, f>> /\ <<b, f>> \in Seq(Frames)
  BY <1>1, ConcatTwo
<1>3. Broadcast(m) \o <<f>> = <<b, f>>
  BY <1>1, <1>2
<1> QED BY <1>2, <1>3 DEF b

\* A send that fails removes the player above the interrupted loop.
LEMMA SendFailsCalls ==
  ASSUME TypeOK, NEW p \in Sessions, SendFails(p)
  PROVE  LET next == [Head(stack) EXCEPT !.on = p]
             fs == <<Start(Remove(p)), EraseFrame(p), next>>
         IN  fs \in Seq(Frames) /\ stack' = fs \o Tail(stack) /\ p \in players
<1> DEFINE next == [Head(stack) EXCEPT !.on = p]
<1>1. p \in players /\ p \in ObjectsIn /\ p \in Ids
  BY IdFacts DEF SendFails, Ahead, ObjectsIn
<1>2. Top("broadcast")
  BY DEF SendFails
<1>3. next \in Frames
  BY <1>2, BroadcastMoves
<1>4. stack' = (RemoveObject(p) \o <<next>>) \o Tail(stack)
  BY DEF SendFails, Calls
<1> HIDE DEF next
<1>5. RemoveObject(p) \o <<next>> = <<Start(Remove(p)), EraseFrame(p), next>>
      /\ <<Start(Remove(p)), EraseFrame(p), next>> \in Seq(Frames)
  BY <1>1, <1>3, RemoveAnd
<1> QED BY <1>1, <1>4, <1>5 DEF next

\* Handlers that end by RemoveObject.
LEMMA ListenFailsCalls ==
  ASSUME TypeOK, ListenFails
  PROVE  /\ Head(stack).id \in Sessions
         /\ RemoveObject(Head(stack).id) \in Seq(Frames)
         /\ stack' = RemoveObject(Head(stack).id) \o Tail(stack)
<1>1. Head(stack) \in SessionFrames
  BY TopFrame, FrameByOp DEF ListenFails
<1>2. Head(stack).id \in Sessions
  BY <1>1 DEF SessionFrames
<1> QED BY <1>2, RemoveObjectIs, IdFacts DEF ListenFails, Calls

\* Player::Attack on the monster in front of the player.
LEMMA PlayerAttacksCalls ==
  ASSUME TypeOK, PlayerAttacks
  PROVE  LET p == Head(stack).id
             fs == <<Start(Attack(Monster, p)), [op |-> "attacked", id |-> p, prey |-> Monster]>>
         IN  /\ p \in Sessions /\ fs \in Seq(Frames)
             /\ \/ /\ stack' = Tail(stack)
                   /\ UNCHANGED <<hp, view, players, monsters, pos, connected, sending>>
                   /\ \/ p \notin players /\ fate' = "crashed"
                      \/ p \in players /\ fate' = fate
                \/ /\ stack' = fs \o Tail(stack)
                   /\ p \in players /\ Monster \in monsters
                   /\ hp' = [hp EXCEPT ![Monster] = @ - PlayerAttack]
                   /\ UNCHANGED <<view, players, monsters, pos, connected, sending, fate>>
<1> DEFINE p == Head(stack).id
           hit == [op |-> "attacked", id |-> p, prey |-> Monster]
<1>1. Head(stack) \in AttackFrames
  BY TopFrame, FrameByOp DEF PlayerAttacks
<1>2. p \in Sessions /\ p \in Ids /\ Monster \in Ids
  BY <1>1, IdFacts DEF AttackFrames
<1>3. hit \in Frames
  BY <1>2, FrameTypes
<1>4. Attack(Monster, p) \in Messages
  BY <1>2, AttackType DEF TypeOK
<1>5. Broadcast(Attack(Monster, p)) \o <<hit>> = <<Start(Attack(Monster, p)), hit>>
      /\ <<Start(Attack(Monster, p)), hit>> \in Seq(Frames)
  <2> HIDE DEF hit, p
  <2> QED BY <1>3, <1>4, BroadcastAnd
<1>6. \A front : \A m \in MonstersAt(front) : m = Monster /\ Monster \in monsters
  BY DEF MonstersAt, TypeOK
<1> QED
  BY <1>2, <1>5, <1>6 DEF PlayerAttacks, Crash, Return, Calls, objects, access

\* The rest of Player::Attack.
LEMMA PlayerAttackedCalls ==
  ASSUME TypeOK, PlayerAttacked
  PROVE  LET p == Head(stack).id
             dead == IF Dead(Monster) THEN RemoveObject(Monster) ELSE << >>
             fs == IF p \notin players /\ Dead(Monster) THEN << >> ELSE dead
         IN  /\ Head(stack) \in AttackedFrames /\ Head(stack).prey = Monster
             /\ p \in Sessions
             /\ fs \in Seq(Frames) /\ stack' = fs \o Tail(stack)
             /\ UNCHANGED <<access, objects, ai, view, turn>>
             /\ fate' = IF p \notin players /\ Dead(Monster) THEN "crashed" ELSE fate
<1>1. Head(stack) \in AttackedFrames
  BY TopFrame, FrameByOp DEF PlayerAttacked
<1>2. Head(stack).prey = Monster /\ Head(stack).id \in Sessions
  BY <1>1 DEF AttackedFrames
<1>3. RemoveObject(Monster) \in Seq(Frames) /\ << >> \in Seq(Frames)
  BY RemoveObjectIs, IdFacts
<1>4. << >> \o Tail(stack) = Tail(stack)
  BY TopFrame DEF PlayerAttacked
<1> QED BY <1>1, <1>2, <1>3, <1>4 DEF PlayerAttacked, Calls, Return, Crash

CalmFrame == [op |-> "calm"]

\* The rest of Monster::UpdateSkill.
LEMMA MonsterHitCalls ==
  ASSUME TypeOK, MonsterHit
  PROVE  LET t == Head(stack).id
             fs == IF Dead(t) /\ t \in ObjectsIn
                   THEN <<Start(Remove(t)), EraseFrame(t), CalmFrame>>
                   ELSE <<CalmFrame>>
         IN  t \in Sessions /\ fs \in Seq(Frames) /\ stack' = fs \o Tail(stack)
<1> DEFINE t == Head(stack).id
<1>1. Head(stack) \in SessionFrames
  BY TopFrame, FrameByOp DEF MonsterHit
<1>2. t \in Sessions /\ t \in Ids
  BY <1>1, IdFacts DEF SessionFrames
<1>3. CalmFrame \in Frames /\ <<CalmFrame>> \in Seq(Frames)
  BY FrameTypes DEF CalmFrame
<1>4. stack' = ((IF Dead(t) THEN RemoveObject(t) ELSE << >>) \o <<CalmFrame>>) \o Tail(stack)
  BY DEF MonsterHit, Calls, CalmFrame
<1> HIDE DEF t
<1>5. CASE Dead(t) /\ t \in ObjectsIn
  <2>1. RemoveObject(t) \o <<CalmFrame>> = <<Start(Remove(t)), EraseFrame(t), CalmFrame>>
        /\ <<Start(Remove(t)), EraseFrame(t), CalmFrame>> \in Seq(Frames)
    BY <1>2, <1>3, <1>5, RemoveAnd
  <2> QED BY <1>2, <1>4, <1>5, <2>1 DEF t
<1>6. CASE ~(Dead(t) /\ t \in ObjectsIn)
  <2>1. (IF Dead(t) THEN RemoveObject(t) ELSE << >>) = << >>
    BY <1>2, <1>6, RemoveObjectIs
  <2>2. << >> \o <<CalmFrame>> = <<CalmFrame>>
    BY <1>3, ConcatEmptySeq
  <2> QED BY <1>2, <1>3, <1>4, <1>6, <2>1, <2>2 DEF t
<1> QED BY <1>5, <1>6

\* Steps that only return.
LEMMA ReturnType ==
  ASSUME TypeOK, stack # << >>, Return
  PROVE  stack' \in Seq(Frames)
BY StackType DEF Return

\* Packets and the end of a receive keep the types.
LEMMA PacketTypes == ASSUME TypeOK, Packet \/ ParseEnds PROVE TypeOK'
<1> USE DEF access, objects, ai
<1>1. CASE Packet
  <2>1. PICK s \in Sessions, c \in Cells, skill \in BOOLEAN :
          \E front \in InFront(c) : HandleCMove(s, c, skill, front)
    BY <1>1 DEF Packet
  <2>2. PICK front \in InFront(c) : HandleCMove(s, c, skill, front)
    BY <2>1
  <2>3. stack' \in Seq(Frames)
    BY <2>2, HandleCMoveCalls, StackType
  <2>4. pos' \in [Ids -> Cells]
    BY <2>2 DEF HandleCMove, TypeOK
  <2> QED BY <2>2, <2>3, <2>4 DEF HandleCMove, TypeOK
<1>2. CASE ParseEnds
  <2>1. Head(stack) \in SessionFrames /\ stack # << >>
    BY <1>2, TopFrame, FrameByOp DEF ParseEnds
  <2>2. [Head(stack) EXCEPT !.op = "listen"] \in SessionFrames
    BY <2>1 DEF SessionFrames
  <2>3. [Head(stack) EXCEPT !.op = "listen"] \in Frames
    BY <2>2 DEF Frames
  <2>4. stack' \in Seq(Frames)
    BY <1>2, <2>1, <2>3, StackType DEF ParseEnds, Calls
  <2> QED BY <1>2, <2>4 DEF ParseEnds, TypeOK
<1> QED BY <1>1, <1>2

\* Returning calls keep the types.
LEMMA UnwindTypes == ASSUME TypeOK, Unwind PROVE TypeOK'
<1> USE DEF access, objects, ai
<1>1. ASSUME NEW p \in Sessions, SendTo(p) PROVE TypeOK'
  <2>1. Top("broadcast") /\ stack # << >>
    BY <1>1, TopFrame DEF SendTo
  <2>2. stack' \in Seq(Frames) /\ Head(stack).msg \in Messages
    BY <1>1, <2>1, BroadcastMoves, StackType DEF SendTo, Calls, BroadcastFrames
  <2>3. /\ sending' \subseteq {s \in Sessions : connected'[s]}
        /\ view' \in [Sessions -> [Ids -> Shown]]
    <3>1. /\ sending \subseteq {s \in Sessions : connected[s]} /\ UNCHANGED connected
          /\ view \in [Sessions -> [Ids -> Shown]]
      BY <1>1 DEF SendTo, TypeOK, Shown
    <3>2. Apply(view[p], Head(stack).msg) \in [Ids -> Shown]
      BY <2>2, <3>1, ViewType
    <3>3. CASE connected[p]
      <4>1. sending' = sending \cup {p}
            /\ \/ view' = view
               \/ view' = [view EXCEPT ![p] = Apply(@, Head(stack).msg)]
        BY <1>1, <3>3 DEF SendTo
      <4> QED BY <3>1, <3>2, <3>3, <4>1
    <3>4. CASE ~connected[p]
      BY <1>1, <3>1, <3>4 DEF SendTo
    <3> QED BY <3>3, <3>4
  <2> QED BY <1>1, <2>2, <2>3 DEF SendTo, TypeOK, Shown
<1>2. ASSUME NEW p \in Sessions, SendFails(p) PROVE TypeOK'
  <2>1. stack # << >>
    BY <1>2, TopFrame DEF SendFails
  <2>2. stack' \in Seq(Frames)
    BY <1>2, <2>1, SendFailsCalls, StackType
  <2>3. Disconnect(p) /\ failed' \subseteq Sessions \X {"greeting", "reset", "loss", "deaf"}
    BY <1>2, FailsType DEF SendFails
  <2> QED BY <1>2, <2>2, <2>3, DisconnectType DEF SendFails, TypeOK, Shown
<1>10. ASSUME NEW p \in Sessions, SendLoses(p) PROVE TypeOK'
  <2>1. stack' \in Seq(Frames)
    BY <1>10, TopFrame, BroadcastMoves, StackType DEF SendLoses, Calls
  <2>2. Nothing \in [Ids -> Shown]
    BY DEF Nothing, Shown
  <2>3. failed' \subseteq Sessions \X {"greeting", "reset", "loss", "deaf"}
    BY <1>10, FailsType DEF SendLoses
  <2> QED BY <1>10, <2>1, <2>2, <2>3 DEF SendLoses, TypeOK
<1>11. CASE ListenDeafens
  <2>1. stack' \in Seq(Frames)
    BY <1>11, TopFrame, ReturnType DEF ListenDeafens
  <2>2. Head(stack) \in SessionFrames
    BY <1>11, TopFrame, FrameByOp DEF ListenDeafens
  <2>3. Head(stack).id \in Sessions
    BY <2>2 DEF SessionFrames
  <2>4. failed' \subseteq Sessions \X {"greeting", "reset", "loss", "deaf"}
    BY <1>11, <2>3, FailsType DEF ListenDeafens
  <2> QED BY <1>11, <2>1, <2>4 DEF ListenDeafens, TypeOK
<1>3. CASE Listen \/ BroadcastEnds
  <2>1. stack' \in Seq(Frames)
    BY <1>3, TopFrame, ReturnType DEF Listen, BroadcastEnds
  <2> QED BY <1>3, <2>1 DEF Listen, BroadcastEnds, TypeOK
<1>4. CASE ListenFails
  <2>1. stack' \in Seq(Frames) /\ Head(stack).id \in Sessions
    BY <1>4, TopFrame, ListenFailsCalls, StackType DEF ListenFails
  <2>2. Disconnect(Head(stack).id)
    BY <1>4 DEF ListenFails
  <2> QED BY <1>4, <2>1, <2>2, DisconnectType DEF ListenFails, TypeOK, Shown
<1>5. CASE Erase
  <2>1. stack' \in Seq(Frames) /\ Head(stack) \in EraseFrames
    BY <1>5, TopFrame, ReturnType, FrameByOp DEF Erase
  <2>2. Head(stack).id \in Ids
    BY <2>1 DEF EraseFrames
  <2>3. pos' \in [Ids -> Cells]
    BY <1>5, <2>2, CellsAssumption DEF Erase, TypeOK
  <2>4. view' \in [Sessions -> [Ids -> Shown]]
    <3>1. Nothing \in [Ids -> Shown]
      BY DEF Nothing, Shown
    <3> QED BY <1>5, <2>2, <3>1 DEF Erase, TypeOK, Shown
  <2>5. fate' \in {"defined", "undefined", "crashed"}
    BY <1>5 DEF Erase, TypeOK
  <2>6. players' \subseteq players /\ monsters' \subseteq monsters
    BY <1>5 DEF Erase
  <2> QED BY <1>5, <2>1, <2>3, <2>4, <2>5, <2>6 DEF Erase, TypeOK, Shown
<1>6. CASE PlayerAttacks
  <2>1. stack # << >>
    BY <1>6, TopFrame DEF PlayerAttacks
  <2>2. stack' \in Seq(Frames)
    BY <1>6, <2>1, PlayerAttacksCalls, StackType
  <2>3. hp' \in [Ids -> Int] /\ fate' \in {"defined", "undefined", "crashed"}
    <3>1. hp' = hp \/ hp' = [hp EXCEPT ![Monster] = @ - PlayerAttack]
      BY <1>6, PlayerAttacksCalls
    <3>2. fate' = fate \/ fate' = "crashed"
      BY <1>6, PlayerAttacksCalls
    <3>3. hp[Monster] - PlayerAttack \in Int
      BY HpAssumption, IdFacts DEF TypeOK
    <3> QED BY <3>1, <3>2, <3>3 DEF TypeOK
  <2>4. UNCHANGED <<opened, connected, failed, sending, players, monsters, pos, mstate,
                    target, waitMove, waitAttack, view, turn>>
    BY <1>6 DEF PlayerAttacks, Crash
  <2> QED BY <2>2, <2>3, <2>4 DEF TypeOK
<1>7. CASE PlayerAttacked
  <2>1. stack' \in Seq(Frames)
    BY <1>7, PlayerAttackedCalls, TopFrame, StackType DEF PlayerAttacked
  <2> QED BY <1>7, <2>1 DEF PlayerAttacked, Crash, TypeOK
<1>8. CASE MonsterHit
  <2>1. stack' \in Seq(Frames)
    BY <1>8, MonsterHitCalls, TopFrame, StackType DEF MonsterHit
  <2>2. target' \in Sessions \cup {NoOne}
    BY <1>8 DEF MonsterHit, TypeOK
  <2> QED BY <1>8, <2>1, <2>2 DEF MonsterHit, TypeOK
<1>9. CASE MonsterCalms
  <2>1. stack' \in Seq(Frames)
    BY <1>9, TopFrame, ReturnType DEF MonsterCalms
  <2> QED BY <1>9, <2>1 DEF MonsterCalms, TypeOK
<1> QED
  BY <1>1, <1>2, <1>3, <1>4, <1>5, <1>6, <1>7, <1>8, <1>9, <1>10, <1>11 DEF Unwind

(***************************************************************************)
(* Type correctness of the room: positions stay on walkable cells, only    *)
(* connected sessions have sends outstanding, the target is a player or    *)
(* nobody, and every call on the stack has the shape of its function's.    *)
(***************************************************************************)
THEOREM TypeCorrect == SafeSpec => []TypeOK
<1>1. Init => TypeOK
  <2> SUFFICES ASSUME Init PROVE TypeOK
    OBVIOUS
  <2>1. << >> \in Seq(Frames)
    OBVIOUS
  <2>2. opened \in 0..MaxSessions /\ players \subseteq 1..opened
    BY BoundsAssumption DEF Init
  <2>3. waitMove \in 0..Delay /\ waitAttack \in 0..Delay
    BY BoundsAssumption DEF Init
  <2>4. pos \in [Ids -> Cells] /\ hp \in [Ids -> Int]
    BY CellsAssumption, HpAssumption DEF Init
  <2>5. view \in [Sessions -> [Ids -> Shown]]
    BY DEF Init, Nothing, Shown
  <2> QED BY <2>1, <2>2, <2>3, <2>4, <2>5 DEF Init, TypeOK
<1>2. TypeOK /\ [Next]_vars => TypeOK'
  <2> SUFFICES ASSUME TypeOK, [Next]_vars PROVE TypeOK'
    OBVIOUS
  <2> USE DEF access, objects, ai
  <2>1. CASE \E s \in Sessions :
               EnterRoom(s) \/ LeaveRoom(s) \/ SendDone(s) \/ SendDoneLoses(s) \/ Receive(s)
    BY <2>1, DispatchTypes
  <2>2. CASE DispatchNothing
    <3>1. turn' = "update"
      BY <2>2 DEF DispatchNothing, Dispatched
    <3> QED BY <2>2, <3>1 DEF DispatchNothing, TypeOK
  <2>3. CASE Packet \/ ParseEnds
    BY <2>3, PacketTypes
  <2>4. CASE Update
    BY <2>4, UpdateTypes
  <2>5. CASE Unwind
    BY <2>5, UnwindTypes
  <2>6. CASE Tick
    <3>1. waitMove' \in 0..Delay /\ waitAttack' \in 0..Delay
      BY <2>6, BoundsAssumption DEF Tick, TypeOK
    <3> QED BY <2>6, <3>1 DEF Tick, TypeOK
  <2>7. CASE UNCHANGED vars
    BY <2>7 DEF vars, TypeOK
  <2> QED
    BY <2>1, <2>2, <2>3, <2>4, <2>5, <2>6, <2>7 DEF Next, Dispatch
<1> QED BY <1>1, <1>2, PTL DEF SafeSpec

-----------------------------------------------------------------------------
(***************************************************************************)
(* Nobody dead.  An object without hp is in the room only as long as a     *)
(* call is under way that will remove it, or the program has crashed.      *)
(***************************************************************************)
Some(stk, S) == \E i \in DOMAIN stk : stk[i] \in S

\* The calls that end in the removal of a dead object.
Owes(o) ==
  {f \in Frames : \/ f.op \in {"hit", "erase"} /\ f.id = o
                  \/ f.op = "attacked" /\ f.prey = o}

LifeInv ==
  /\ \A s \in Sessions : s > opened => hp[s] = PlayerHp
  /\ Running => \A o \in ObjectsIn : hp[o] <= 0 => Some(stack, Owes(o))

\* Some, of a stack whose innermost call has called others.
LEMMA SomeCalls ==
  ASSUME NEW stk \in Seq(Frames), stk # << >>, NEW fs \in Seq(Frames), NEW S
  PROVE  Some(fs \o Tail(stk), S) <=> Some(fs, S) \/ Some(Tail(stk), S)
<1> DEFINE t == Tail(stk)
<1>1. /\ t \in Seq(Frames) /\ fs \o t \in Seq(Frames)
      /\ DOMAIN (fs \o t) = 1..(Len(fs) + Len(t))
      /\ DOMAIN fs = 1..Len(fs) /\ DOMAIN t = 1..Len(t)
      /\ Len(fs) \in Nat /\ Len(t) \in Nat
      /\ \A i \in 1..(Len(fs) + Len(t)) :
           (fs \o t)[i] = IF i <= Len(fs) THEN fs[i] ELSE t[i - Len(fs)]
  BY TopFacts, ConcatProperties, LenProperties
<1> HIDE DEF t
<1>2. ASSUME Some(fs \o t, S) PROVE Some(fs, S) \/ Some(t, S)
  <2>1. PICK i \in 1..(Len(fs) + Len(t)) : (fs \o t)[i] \in S
    BY <1>1, <1>2 DEF Some
  <2>2. CASE i <= Len(fs)
    BY <1>1, <2>1, <2>2 DEF Some
  <2>3. CASE i > Len(fs)
    <3>1. i - Len(fs) \in 1..Len(t) /\ t[i - Len(fs)] \in S
      BY <1>1, <2>1, <2>3
    <3> QED BY <1>1, <3>1 DEF Some
  <2> QED BY <1>1, <2>1, <2>2, <2>3
<1>3. ASSUME Some(fs, S) PROVE Some(fs \o t, S)
  BY <1>1, <1>3 DEF Some
<1>4. ASSUME Some(t, S) PROVE Some(fs \o t, S)
  <2>1. PICK i \in 1..Len(t) : t[i] \in S
    BY <1>1, <1>4 DEF Some
  <2>2. /\ Len(fs) + i \in 1..(Len(fs) + Len(t)) /\ ~(Len(fs) + i <= Len(fs))
        /\ (Len(fs) + i) - Len(fs) = i
    BY <1>1
  <2>3. (fs \o t)[Len(fs) + i] \in S
    BY <1>1, <2>1, <2>2
  <2> QED BY <1>1, <2>2, <2>3 DEF Some
<1> QED BY <1>2, <1>3, <1>4 DEF t

\* Some, of a stack by its innermost call.
LEMMA SomeHead ==
  ASSUME NEW stk \in Seq(Frames), stk # << >>, NEW S
  PROVE  Some(stk, S) <=> Head(stk) \in S \/ Some(Tail(stk), S)
<1>1. stk = <<Head(stk)>> \o Tail(stk) /\ Head(stk) \in Frames
  BY HeadTailProperties
<1>2. <<Head(stk)>> \in Seq(Frames)
  BY <1>1
<1>3. Some(<<Head(stk)>>, S) <=> Head(stk) \in S
  BY DEF Some
<1>4. Some(<<Head(stk)>> \o Tail(stk), S) <=> Some(<<Head(stk)>>, S) \/ Some(Tail(stk), S)
  BY <1>2, SomeCalls
<1> QED BY <1>1, <1>3, <1>4

\* An empty stack has no calls.
LEMMA SomeEmpty == ASSUME NEW S PROVE ~Some(<< >>, S)
BY DEF Some

\* Calls that hurt nobody pass their debt on.
LEMMA LifeFrame ==
  ASSUME TypeOK, LifeInv, Running, stack # << >>, NEW fs \in Seq(Frames),
         stack' = fs \o Tail(stack), UNCHANGED <<hp, opened>>,
         ObjectsIn' \subseteq ObjectsIn,
         \A o \in ObjectsIn' :
           Head(stack) \in Owes(o) => Some(fs, Owes(o)) \/ hp[o] > 0
  PROVE  LifeInv'
<1>1. ASSUME NEW o \in ObjectsIn', hp[o] <= 0 PROVE Some(stack', Owes(o))
  <2>1. hp[o] \in Int /\ ~(hp[o] > 0)
    BY <1>1, RoomFacts DEF TypeOK
  <2>2. Head(stack) \in Owes(o) \/ Some(Tail(stack), Owes(o))
    BY <1>1, SomeHead DEF LifeInv, TypeOK
  <2>3. Some(fs, Owes(o)) \/ Some(Tail(stack), Owes(o))
    BY <2>1, <2>2
  <2>4. Some(stack', Owes(o)) <=> Some(fs, Owes(o)) \/ Some(Tail(stack), Owes(o))
    BY SomeCalls DEF TypeOK
  <2> QED BY <2>3, <2>4
<1> QED BY <1>1 DEF LifeInv

\* A call that removes nobody owes nothing.
LEMMA OwesNothing ==
  ASSUME NEW f, f.op \notin {"hit", "erase", "attacked"}
  PROVE  \A o : f \notin Owes(o)
BY DEF Owes

\* Calls of functions that are not on their way to a removal.
LEMMA LifeCalls ==
  ASSUME TypeOK, LifeInv, Running, NEW op, Top(op), op \notin {"hit", "erase", "attacked"},
         NEW fs \in Seq(Frames), stack' = fs \o Tail(stack),
         UNCHANGED <<hp, opened, players, monsters>>
  PROVE  LifeInv'
<1>1. stack # << >> /\ Head(stack).op = op
  BY TopFrame
<1>2. \A o : Head(stack) \notin Owes(o)
  BY <1>1, OwesNothing
<1>3. ObjectsIn' \subseteq ObjectsIn
  BY DEF ObjectsIn
<1> QED BY <1>1, <1>2, <1>3, LifeFrame

\* Steps that neither call nor hurt.
LEMMA LifeUnchanged ==
  ASSUME LifeInv, Running, UNCHANGED <<hp, opened, players, monsters, stack>>
  PROVE  LifeInv'
BY DEF LifeInv, ObjectsIn

\* Between handlers everybody lives, and a handler that hurts nobody may call.
LEMMA LifeQuiet ==
  ASSUME TypeOK, LifeInv, Running, stack = << >>,
         UNCHANGED <<hp, opened, players, monsters>>
  PROVE  LifeInv' /\ \A o \in ObjectsIn : hp[o] > 0
<1>1. \A o \in ObjectsIn : hp[o] > 0
  <2> TAKE o \in ObjectsIn
  <2>1. ~(hp[o] <= 0) /\ hp[o] \in Int
    BY SomeEmpty, RoomFacts DEF LifeInv, TypeOK
  <2> QED BY <2>1
<1>2. \A o \in ObjectsIn : hp[o] \in Int
  BY RoomFacts DEF TypeOK
<1> QED BY <1>1, <1>2 DEF LifeInv, ObjectsIn

\* RemoveObject of a dead object in the room owes its removal.
LEMMA RemoveOwes ==
  ASSUME NEW o \in Ids, o \in ObjectsIn, NEW fs \in Seq(Frames), 2 \in DOMAIN fs,
         fs[2] = EraseFrame(o)
  PROVE  Some(fs, Owes(o))
<1>1. EraseFrame(o) \in Owes(o)
  BY RemoveObjectIs DEF Owes, EraseFrame
<1> QED BY <1>1 DEF Some

\* A crashed program does nothing.
LEMMA CrashedStays == [Next]_vars /\ ~Running => UNCHANGED vars
<1> SUFFICES ASSUME Next, ~Running PROVE FALSE
  OBVIOUS
<1>1. ~Dispatch /\ ~Update
  BY DEF Dispatch, Update, EnterRoom, LeaveRoom, SendDone, SendDoneLoses, Receive,
     DispatchNothing, Dispatched, UpdateNothing, UpdateIdle, UpdateMove, UpdateSkill,
     Updating, Quiet
<1>2. ~Unwind
  BY DEF Unwind, SendTo, SendFails, SendLoses, Listen, ListenFails, ListenDeafens,
     BroadcastEnds, Erase, PlayerAttacks, PlayerAttacked, MonsterHit, MonsterCalms, Top
<1>3. ~Packet /\ ~ParseEnds /\ ~Tick
  BY DEF Packet, HandleCMove, ParseEnds, Tick, Quiet, Top
<1> QED BY <1>1, <1>2, <1>3 DEF Next

\* No step leaves a dead object without a call that removes it.
LEMMA LifeStep == TypeOK /\ LifeInv /\ [Next]_vars => LifeInv'
<1>0. ASSUME LifeInv, UNCHANGED vars PROVE LifeInv'
  BY <1>0 DEF LifeInv, ObjectsIn, Running, vars
<1> SUFFICES ASSUME TypeOK, LifeInv, [Next]_vars, Running PROVE LifeInv'
  BY <1>0, CrashedStays
<1> USE DEF access, objects, ai
<1>1. ASSUME NEW s \in Sessions, EnterRoom(s) PROVE LifeInv'
  <2>1. stack = << >> /\ opened = s - 1 /\ opened' = s /\ hp' = hp
        /\ players' = players \cup {s} /\ monsters' = monsters
    BY <1>1 DEF EnterRoom, Dispatched, Quiet
  <2>2. \A o \in ObjectsIn : hp[o] \in Int /\ ~(hp[o] <= 0)
    BY <2>1, SomeEmpty, RoomFacts DEF LifeInv, TypeOK
  <2>3. s \in Nat /\ \A t \in Sessions : t \in Nat
    BY IdFacts
  <2>4. hp[s] = PlayerHp /\ ~(hp[s] <= 0)
    BY <2>1, <2>3, HpAssumption DEF LifeInv
  <2> QED BY <2>1, <2>2, <2>3, <2>4 DEF LifeInv, ObjectsIn
<1>2. ASSUME NEW s \in Sessions,
             LeaveRoom(s) \/ SendDone(s) \/ SendDoneLoses(s) \/ Receive(s)
      PROVE  LifeInv'
  <2>1. stack = << >> /\ UNCHANGED <<hp, opened, players, monsters>>
    BY <1>2 DEF LeaveRoom, SendDone, SendDoneLoses, Receive, Dispatched, Quiet
  <2> QED BY <2>1, LifeQuiet
<1>3. CASE DispatchNothing \/ UpdateNothing \/ UpdateIdle \/ UpdateMove
  <2>1. stack = << >> /\ UNCHANGED <<hp, opened, players, monsters>>
    BY <1>3 DEF DispatchNothing, UpdateNothing, UpdateIdle, UpdateMove, Dispatched,
       Updating, Quiet
  <2> QED BY <2>1, LifeQuiet
<1>4. CASE UpdateSkill
  <2>1. stack = << >> /\ UNCHANGED <<opened, players, monsters>>
    BY <1>4 DEF UpdateSkill, Updating, Quiet
  <2>2. CASE UNCHANGED hp
    BY <2>1, <2>2, LifeQuiet
  <2>3. CASE /\ target \in players
             /\ hp' = [hp EXCEPT ![target] = @ - MonsterAttack]
             /\ stack' = Broadcast(Attack(target, Monster))
                           \o <<[op |-> "hit", id |-> target]>>
    <3>1. target \in Sessions /\ target \in Ids /\ Monster \in Ids
          /\ target \in Nat /\ opened \in Nat /\ target <= opened
      BY <2>3, RoomFacts, IdFacts DEF TypeOK
    <3> DEFINE hit == [op |-> "hit", id |-> target]
               fs == <<Start(Attack(target, Monster)), hit>>
    <3>2. hit \in Frames /\ hit \in Owes(target)
      BY <3>1, FrameTypes DEF Owes
    <3>3. Attack(target, Monster) \in Messages
      BY <3>1, AttackType DEF TypeOK
    <3>4. stack' = fs /\ fs \in Seq(Frames)
      <4> HIDE DEF hit
      <4> QED BY <2>3, <3>2, <3>3, BroadcastAnd DEF hit
    <3>5. Some(stack', Owes(target))
      <4>1. 2 \in DOMAIN fs /\ fs[2] = hit
        OBVIOUS
      <4> QED BY <3>2, <3>4, <4>1 DEF Some
    <3>6. \A o \in ObjectsIn : hp[o] \in Int /\ ~(hp[o] <= 0)
      BY <2>1, SomeEmpty, RoomFacts DEF LifeInv, TypeOK
    <3>7. \A o \in Ids : o # target => hp'[o] = hp[o]
      BY <2>3 DEF TypeOK
    <3>8. \A s \in Sessions : s > opened => hp'[s] = PlayerHp
      BY <3>1, <3>7, IdFacts DEF LifeInv
    <3>9. \A o \in ObjectsIn : hp'[o] <= 0 => Some(stack', Owes(o))
      BY <3>5, <3>6, <3>7, RoomFacts DEF TypeOK
    <3> QED BY <2>1, <3>8, <3>9 DEF LifeInv, ObjectsIn
  <2> QED BY <1>4, <2>2, <2>3 DEF UpdateSkill
<1>5. ASSUME Packet PROVE LifeInv'
  <2>1. PICK s \in Sessions, c \in Cells, skill \in BOOLEAN :
          \E front \in InFront(c) : HandleCMove(s, c, skill, front)
    BY <1>5 DEF Packet
  <2>2. PICK front \in InFront(c) : HandleCMove(s, c, skill, front)
    BY <2>1
  <2>3. PICK fs \in Seq(Frames) : stack' = fs \o Tail(stack)
    BY <2>2, HandleCMoveCalls
  <2>4. UNCHANGED <<hp, opened, players, monsters>> /\ Top("parse")
    BY <2>2 DEF HandleCMove
  <2> QED BY <2>3, <2>4, LifeCalls
<1>6. CASE ParseEnds
  <2>1. Head(stack) \in SessionFrames /\ Top("parse") /\ stack # << >>
    BY <1>6, TopFrame, FrameByOp DEF ParseEnds
  <2>2. [Head(stack) EXCEPT !.op = "listen"] \in SessionFrames
    BY <2>1 DEF SessionFrames
  <2>3. <<[Head(stack) EXCEPT !.op = "listen"]>> \in Seq(Frames)
    BY <2>2 DEF Frames
  <2>4. UNCHANGED <<hp, opened, players, monsters>>
    BY <1>6 DEF ParseEnds
  <2> QED BY <1>6, <2>1, <2>3, <2>4, LifeCalls DEF ParseEnds, Calls
<1>7. ASSUME NEW p \in Sessions, SendTo(p) \/ SendLoses(p) PROVE LifeInv'
  <2>1. Top("broadcast") /\ UNCHANGED <<hp, opened, players, monsters>>
    BY <1>7 DEF SendTo, SendLoses
  <2> QED BY <1>7, <2>1, BroadcastMoves, LifeCalls DEF SendTo, SendLoses, Calls
<1>8. ASSUME NEW p \in Sessions, SendFails(p) PROVE LifeInv'
  <2>1. Top("broadcast") /\ UNCHANGED <<hp, opened, players, monsters>>
    BY <1>8 DEF SendFails
  <2>2. PICK fs \in Seq(Frames) : stack' = fs \o Tail(stack)
    BY <1>8, SendFailsCalls
  <2> QED BY <2>1, <2>2, LifeCalls
<1>9. ASSUME NEW op, Top(op), op \notin {"hit", "erase", "attacked"}, Return,
             UNCHANGED <<hp, opened, players, monsters>>
      PROVE  LifeInv'
  <2>1. << >> \in Seq(Frames)
    OBVIOUS
  <2> QED BY <1>9, <2>1, TopFrame, LifeCalls DEF Return
<1>10. CASE Listen \/ ListenDeafens \/ BroadcastEnds \/ MonsterCalms
  BY <1>9, <1>10 DEF Listen, ListenDeafens, BroadcastEnds, MonsterCalms
<1>11. CASE ListenFails
  <2>1. Top("listen") /\ UNCHANGED <<hp, opened, players, monsters>>
    BY <1>11 DEF ListenFails
  <2> QED BY <1>11, <2>1, ListenFailsCalls, LifeCalls
<1>12. CASE Erase
  <2>1. << >> \in Seq(Frames) /\ Top("erase")
    BY <1>12 DEF Erase
  <2>2. Head(stack) \in EraseFrames
    BY <2>1, TopFrame, FrameByOp
  <2>3. \A o : Head(stack) \in Owes(o) => o = Head(stack).id
    BY <2>2 DEF Owes, EraseFrames
  <2>4. ObjectsIn' \subseteq ObjectsIn \ {Head(stack).id}
    BY <1>12 DEF Erase, ObjectsIn
  <2>5. stack' = << >> \o Tail(stack) /\ UNCHANGED <<hp, opened>>
    BY <1>12, <2>1, TopFrame DEF Erase, Return
  <2>6. \A o \in ObjectsIn' : Head(stack) \notin Owes(o)
    BY <2>3, <2>4
  <2>7. stack # << >> /\ ObjectsIn' \subseteq ObjectsIn
    BY <2>1, <2>4, TopFrame
  <2> QED BY <2>1, <2>5, <2>6, <2>7, LifeFrame
<1>13. CASE PlayerAttacks
  <2>1. Top("attack") /\ UNCHANGED opened
    BY <1>13 DEF PlayerAttacks, Crash
  <2>2. Head(stack).op = "attack" /\ stack # << >> /\ stack \in Seq(Frames)
    BY <2>1, TopFrame DEF TypeOK
  <2>3. CASE stack' = Tail(stack) /\ UNCHANGED <<hp, players, monsters>>
    BY <1>9, <2>1, <2>3 DEF Return
  <2>4. ASSUME NEW fs \in Seq(Frames), stack' = fs \o Tail(stack),
               2 \in DOMAIN fs, fs[2] \in Owes(Monster),
               hp' = [hp EXCEPT ![Monster] = @ - PlayerAttack],
               UNCHANGED <<players, monsters>>
        PROVE  LifeInv'
    <3>1. \A o : Some(stack, Owes(o)) => Some(stack', Owes(o))
      BY <2>2, <2>4, SomeHead, SomeCalls, OwesNothing
    <3>2. Some(stack', Owes(Monster))
      BY <2>2, <2>4, SomeCalls DEF Some
    <3>3. \A o \in Ids : o # Monster => hp'[o] = hp[o]
      BY <2>4 DEF TypeOK
    <3> QED BY <2>1, <2>4, <3>1, <3>2, <3>3, RoomFacts, IdFacts DEF LifeInv, ObjectsIn, TypeOK
  <2> DEFINE p == Head(stack).id
             hit == [op |-> "attacked", id |-> p, prey |-> Monster]
             gs == <<Start(Attack(Monster, p)), hit>>
  <2>5. p \in Sessions /\ hit \in Owes(Monster)
    BY <1>13, PlayerAttacksCalls, FrameTypes DEF Owes
  <2>6. 2 \in DOMAIN gs /\ gs[2] = hit
    OBVIOUS
  <2>7. \/ stack' = Tail(stack) /\ UNCHANGED <<hp, players, monsters>>
        \/ /\ gs \in Seq(Frames) /\ stack' = gs \o Tail(stack)
           /\ hp' = [hp EXCEPT ![Monster] = @ - PlayerAttack]
           /\ UNCHANGED <<players, monsters>>
    BY <1>13, PlayerAttacksCalls
  <2> HIDE DEF gs, hit
  <2> QED BY <2>3, <2>4, <2>5, <2>6, <2>7
<1>14. CASE PlayerAttacked
  <2> DEFINE fs == IF Dead(Monster) THEN RemoveObject(Monster) ELSE << >>
  <2>0. CASE Head(stack).id \notin players /\ Dead(Monster)
    BY <1>14, <2>0, PlayerAttackedCalls DEF LifeInv, Running
  <2> SUFFICES ASSUME ~(Head(stack).id \notin players /\ Dead(Monster)) PROVE LifeInv'
    BY <2>0
  <2>1. Top("attacked") /\ UNCHANGED <<hp, opened, players, monsters>>
    BY <1>14, PlayerAttackedCalls DEF PlayerAttacked
  <2>2. fs \in Seq(Frames) /\ stack' = fs \o Tail(stack) /\ Head(stack) \in AttackedFrames
    BY <1>14, PlayerAttackedCalls
  <2>3. \A o : Head(stack) \in Owes(o) => o = Monster
    BY <2>2 DEF AttackedFrames, Owes
  <2>4. Monster \in ObjectsIn => Some(fs, Owes(Monster)) \/ hp[Monster] > 0
    <3>1. CASE Dead(Monster)
      <4>1. ASSUME Monster \in ObjectsIn PROVE Some(fs, Owes(Monster))
        <5>1. fs = <<Start(Remove(Monster)), EraseFrame(Monster)>>
          BY <3>1, <4>1, RemoveObjectIs, IdFacts
        <5>2. 2 \in DOMAIN <<Start(Remove(Monster)), EraseFrame(Monster)>>
              /\ <<Start(Remove(Monster)), EraseFrame(Monster)>>[2] = EraseFrame(Monster)
          OBVIOUS
        <5> QED BY <2>2, <4>1, <5>1, <5>2, RemoveOwes, IdFacts
      <4> QED BY <4>1
    <3>2. CASE ~Dead(Monster)
      BY <3>2, IdFacts DEF Dead, TypeOK
    <3> QED BY <3>1, <3>2
  <2> HIDE DEF fs
  <2>5. stack # << >> /\ ObjectsIn' = ObjectsIn
    BY <2>1, TopFrame DEF ObjectsIn
  <2>6. \A o \in ObjectsIn' : Head(stack) \in Owes(o) => Some(fs, Owes(o)) \/ hp[o] > 0
    BY <2>3, <2>4, <2>5
  <2> QED BY <2>1, <2>2, <2>5, <2>6, LifeFrame
<1>15. CASE MonsterHit
  <2> DEFINE t == Head(stack).id
             fs == IF Dead(t) /\ t \in ObjectsIn
                   THEN <<Start(Remove(t)), EraseFrame(t), CalmFrame>>
                   ELSE <<CalmFrame>>
  <2>1. Top("hit") /\ UNCHANGED <<hp, opened, players, monsters>>
    BY <1>15 DEF MonsterHit
  <2>2. fs \in Seq(Frames) /\ stack' = fs \o Tail(stack) /\ t \in Sessions
    BY <1>15, MonsterHitCalls
  <2>3. \A o : Head(stack) \in Owes(o) => o = t
    BY <2>1, TopFrame DEF Owes
  <2>4. t \in ObjectsIn => Some(fs, Owes(t)) \/ hp[t] > 0
    <3>1. t \in Ids /\ hp[t] \in Int
      BY <2>2, IdFacts DEF TypeOK
    <3>2. CASE Dead(t) /\ t \in ObjectsIn
      <4>1. fs = <<Start(Remove(t)), EraseFrame(t), CalmFrame>>
        BY <3>2
      <4>2. 2 \in DOMAIN <<Start(Remove(t)), EraseFrame(t), CalmFrame>>
            /\ <<Start(Remove(t)), EraseFrame(t), CalmFrame>>[2] = EraseFrame(t)
        OBVIOUS
      <4> HIDE DEF fs, t
      <4> QED BY <2>2, <3>1, <3>2, <4>1, <4>2, RemoveOwes
    <3>3. CASE ~Dead(t)
      BY <3>1, <3>3 DEF Dead
    <3> QED BY <3>2, <3>3
  <2> HIDE DEF fs, t
  <2>5. stack # << >> /\ ObjectsIn' = ObjectsIn
    BY <2>1, TopFrame DEF ObjectsIn
  <2>6. \A o \in ObjectsIn' : Head(stack) \in Owes(o) => Some(fs, Owes(o)) \/ hp[o] > 0
    BY <2>3, <2>4, <2>5
  <2> QED BY <2>1, <2>2, <2>5, <2>6, LifeFrame
<1>16. CASE Tick \/ UNCHANGED vars
  BY <1>16, LifeUnchanged DEF Tick, vars
<1> QED
  BY <1>1, <1>2, <1>3, <1>4, <1>5, <1>6, <1>7, <1>8, <1>10, <1>11, <1>12, <1>13,
     <1>14, <1>15, <1>16 DEF Next, Dispatch, Update, Unwind

(***************************************************************************)
(* Whoever has lost all hp is out of the room before the next handler      *)
(* runs, whatever sends fail and whoever disconnects in between.           *)
(***************************************************************************)
THEOREM NobodyStaysDead == SafeSpec => []NobodyDead
<1>1. Init => LifeInv
  BY HpAssumption, IdFacts DEF Init, LifeInv, ObjectsIn, Ids
<1>2. TypeOK /\ LifeInv => NobodyDead
  BY LifeQuiet, SomeEmpty, RoomFacts DEF NobodyDead, Quiet, LifeInv, TypeOK
<1> QED BY <1>1, <1>2, LifeStep, TypeCorrect, PTL DEF SafeSpec

-----------------------------------------------------------------------------
(***************************************************************************)
(* Nesting.  A loop becomes interrupted by the reset of a send to a        *)
(* connected session, which is not connected afterwards.                   *)
(***************************************************************************)
NestInv ==
  /\ NestingEnds
  /\ \A i \in Interrupted : <<stack[i].on, "reset">> \in failed

\* What has failed has failed for ever.
LEMMA FailedGrows == [Next]_vars => failed \subseteq failed'
<1> SUFFICES ASSUME Next PROVE failed \subseteq failed'
  BY DEF vars
<1> USE DEF access, objects, ai, Fails
<1>1. CASE Dispatch \/ Update
  BY <1>1 DEF Dispatch, Update, EnterRoom, LeaveRoom, SendDone, SendDoneLoses, Receive,
     DispatchNothing, UpdateNothing, UpdateIdle, UpdateMove, UpdateSkill
<1>2. CASE Unwind
  BY <1>2 DEF Unwind, SendTo, SendFails, SendLoses, Listen, ListenFails, ListenDeafens,
     BroadcastEnds, Erase, PlayerAttacks, PlayerAttacked, MonsterHit, MonsterCalms, Crash
<1>3. CASE Packet \/ ParseEnds \/ Tick
  BY <1>3 DEF Packet, HandleCMove, ParseEnds, Tick
<1> QED BY <1>1, <1>2, <1>3 DEF Next

\* Where an interrupted broadcast was before the innermost call called others.
LEMMA InterruptedBefore ==
  ASSUME TypeOK, stack # << >>, NEW fs \in Seq(Frames), NEW n \in Nat, n = Len(fs),
         stack' = fs \o Tail(stack), NEW i \in Interrupted'
  PROVE  \/ i \in 2..n /\ stack'[i] = fs[i] /\ fs[i].op = "broadcast"
         \/ i > n /\ i - n + 1 \in Interrupted /\ stack'[i] = stack[i - n + 1]
<1>1. /\ Len(stack') = n + Len(stack) - 1
      /\ \A k \in 1..n : stack'[k] = fs[k]
      /\ \A k \in (n + 1)..(n + Len(stack) - 1) :
           k - n + 1 \in 2..Len(stack) /\ stack'[k] = stack[k - n + 1]
  BY CallsAt DEF TypeOK
<1>2. i \in 2..Len(stack') /\ stack'[i].op = "broadcast" /\ Len(stack) \in Nat
  BY LenProperties DEF Interrupted, TypeOK
<1>3. CASE i <= n
  BY <1>1, <1>2, <1>3
<1>4. CASE i > n
  <2>1. i \in (n + 1)..(n + Len(stack) - 1)
    BY <1>1, <1>2, <1>4
  <2> QED BY <1>1, <1>2, <1>4, <2>1 DEF Interrupted
<1> QED BY <1>2, <1>3, <1>4

\* Calls that put no broadcast beneath others interrupt none.
LEMMA NestFrame ==
  ASSUME TypeOK, NestInv, stack # << >>, NEW fs \in Seq(Frames),
         stack' = fs \o Tail(stack),
         \A i \in 2..Len(fs) : fs[i].op # "broadcast",
         \A s \in Sessions : connected'[s] => connected[s], failed \subseteq failed'
  PROVE  NestInv'
<1> DEFINE n == Len(fs)
<1>1. n \in Nat
  BY LenProperties
<1>2. \A i \in Interrupted' : /\ i > n /\ i \in Nat
                              /\ i - n + 1 \in Interrupted /\ stack'[i] = stack[i - n + 1]
  BY <1>1, InterruptedBefore DEF Interrupted
<1> HIDE DEF n
<1>3. ASSUME NEW i \in Interrupted', NEW j \in Interrupted', i # j
      PROVE  stack'[i].on # stack'[j].on
  <2>1. i - n + 1 # j - n + 1
    BY <1>1, <1>2, <1>3
  <2> QED BY <1>2, <2>1 DEF NestInv, NestingEnds
<1>4. ASSUME NEW i \in Interrupted'
      PROVE  /\ stack'[i].on \in Sessions /\ ~connected'[stack'[i].on]
             /\ <<stack'[i].on, "reset">> \in failed'
  BY <1>2 DEF NestInv, NestingEnds
<1> QED BY <1>3, <1>4 DEF NestInv, NestingEnds

\* A short stack has nothing interrupted.
LEMMA NestShort ==
  ASSUME stack' \in Seq(Frames), \A i \in 2..Len(stack') : stack'[i].op # "broadcast"
  PROVE  NestInv'
BY DEF NestInv, NestingEnds, Interrupted

\* Steps that leave the calls alone.
LEMMA NestSame ==
  ASSUME NestInv, UNCHANGED <<stack, connected>>, failed \subseteq failed'
  PROVE  NestInv'
BY DEF NestInv, NestingEnds, Interrupted

\* No broadcast begins beneath another call of the same function.
LEMMA NoneBeneath ==
  /\ \A f, g \in Frames : g.op # "broadcast" =>
       \A i \in 2..Len(<<f, g>>) : <<f, g>>[i].op # "broadcast"
  /\ \A f, g, h \in Frames : g.op # "broadcast" /\ h.op # "broadcast" =>
       \A i \in 2..Len(<<f, g, h>>) : <<f, g, h>>[i].op # "broadcast"
<1>1. ASSUME NEW f \in Frames, NEW g \in Frames, g.op # "broadcast",
             NEW i \in 2..Len(<<f, g>>)
      PROVE  <<f, g>>[i].op # "broadcast"
  <2>1. i = 2
    BY <1>1
  <2> QED BY <1>1, <2>1
<1>2. ASSUME NEW f \in Frames, NEW g \in Frames, NEW h \in Frames,
             g.op # "broadcast", h.op # "broadcast", NEW i \in 2..Len(<<f, g, h>>)
      PROVE  <<f, g, h>>[i].op # "broadcast"
  <2>1. i = 2 \/ i = 3
    BY <1>2
  <2> QED BY <1>2, <2>1
<1> QED BY <1>1, <1>2

\* RemoveObject begins its broadcast above the erase.
LEMMA RemoveNest ==
  ASSUME NEW o \in Ids
  PROVE  \A i \in 2..Len(RemoveObject(o)) : RemoveObject(o)[i].op # "broadcast"
<1>1. CASE o \in ObjectsIn
  <2>1. EraseFrame(o).op # "broadcast" /\ EraseFrame(o) \in Frames
        /\ Start(Remove(o)) \in Frames
        /\ RemoveObject(o) = <<Start(Remove(o)), EraseFrame(o)>>
    BY <1>1, RemoveObjectIs DEF EraseFrame
  <2> QED BY <2>1, NoneBeneath
<1>2. CASE o \notin ObjectsIn
  BY <1>2, RemoveObjectIs
<1> QED BY <1>1, <1>2

\* The nesting survives the failure of a send.
LEMMA NestSendFails ==
  ASSUME TypeOK, NestInv, NEW p \in Sessions, SendFails(p)
  PROVE  NestInv'
<1> DEFINE next == [Head(stack) EXCEPT !.on = p]
           fs == <<Start(Remove(p)), EraseFrame(p), next>>
<1>1. fs \in Seq(Frames) /\ stack' = fs \o Tail(stack) /\ stack # << >>
  BY SendFailsCalls, TopFrame DEF SendFails
<1>2. next.on = p
  BY BroadcastMoves DEF SendFails
<1>3. /\ connected[p] /\ ~connected'[p]
      /\ \A s \in Sessions : connected'[s] => connected[s]
      /\ failed' = failed \cup {<<p, "reset">>}
  BY DEF SendFails, Fails, Disconnect, TypeOK
<1>4. Len(fs) = 3 /\ fs[2].op = "erase" /\ fs[3] = next
  BY DEF EraseFrame
<1> HIDE DEF fs, next
<1>5. \A i \in Interrupted' :
        /\ i \in Nat
        /\ \/ i = 3 /\ stack'[i].on = p
           \/ i > 3 /\ i - 2 \in Interrupted /\ stack'[i] = stack[i - 2]
  <2> TAKE i \in Interrupted'
  <2>1. i \in 2..Len(stack')
    BY DEF Interrupted
  <2>2. \/ i \in 2..3 /\ stack'[i] = fs[i] /\ fs[i].op = "broadcast"
        \/ i > 3 /\ i - 3 + 1 \in Interrupted /\ stack'[i] = stack[i - 3 + 1]
    BY <1>1, <1>4, InterruptedBefore
  <2>3. CASE i \in 2..3 /\ stack'[i] = fs[i] /\ fs[i].op = "broadcast"
    <3>1. i = 3
      BY <1>4, <2>3
    <3> QED BY <1>2, <1>4, <2>3, <3>1
  <2>4. CASE i > 3 /\ i - 3 + 1 \in Interrupted /\ stack'[i] = stack[i - 3 + 1]
    <3>1. i - 3 + 1 = i - 2
      BY <2>1
    <3> QED BY <2>1, <2>4, <3>1
  <2> QED BY <2>2, <2>3, <2>4
<1>6. ASSUME NEW i \in Interrupted', NEW j \in Interrupted', i # j
      PROVE  stack'[i].on # stack'[j].on
  <2>1. CASE i > 3 /\ j > 3
    <3>1. i - 2 # j - 2
      BY <1>5, <1>6
    <3> QED BY <1>5, <2>1, <3>1 DEF NestInv, NestingEnds
  <2>2. CASE i = 3 \/ j = 3
    BY <1>3, <1>5, <1>6, <2>2 DEF NestInv, NestingEnds
  <2> QED BY <1>5, <2>1, <2>2
<1>7. ASSUME NEW i \in Interrupted'
      PROVE  /\ stack'[i].on \in Sessions /\ ~connected'[stack'[i].on]
             /\ <<stack'[i].on, "reset">> \in failed'
  BY <1>3, <1>5 DEF NestInv, NestingEnds
<1> QED BY <1>6, <1>7 DEF NestInv, NestingEnds

\* No step interrupts two loops on one session.
LEMMA NestStep == TypeOK /\ NestInv /\ [Next]_vars => NestInv'
<1> SUFFICES ASSUME TypeOK, NestInv, [Next]_vars PROVE NestInv'
  OBVIOUS
<1>0. failed \subseteq failed'
  BY FailedGrows
<1> USE DEF access, objects, ai
<1>1. ASSUME NEW f \in Frames, NEW g \in Frames, g.op # "broadcast", stack' = <<f, g>>
      PROVE  NestInv'
  BY <1>1, NoneBeneath, NestShort
<1>2. ASSUME NEW f \in Frames, stack' = <<f>> PROVE NestInv'
  BY <1>2, NestShort
<1>3. ASSUME stack' = << >> PROVE NestInv'
  BY <1>3, NestShort
<1>4. ASSUME NEW s \in Sessions, EnterRoom(s) PROVE NestInv'
  <2>1. Add(s, pos[s]) \in Messages /\ [op |-> "listen", id |-> s] \in Frames
        /\ [op |-> "listen", id |-> s].op # "broadcast"
    BY MessageTypes, RoomFacts, IdFacts, FrameTypes DEF TypeOK
  <2> DEFINE listen == [op |-> "listen", id |-> s]
  <2>2. stack' = Broadcast(Add(s, pos[s])) \o <<listen>>
    BY <1>4 DEF EnterRoom
  <2> HIDE DEF listen
  <2>3. stack' = <<Start(Add(s, pos[s])), listen>> /\ listen \in Frames
        /\ Start(Add(s, pos[s])) \in Frames /\ listen.op # "broadcast"
    BY <2>1, <2>2, BroadcastAnd, BroadcastType DEF listen
  <2> QED BY <1>1, <2>3
<1>5. ASSUME NEW s \in Sessions, LeaveRoom(s) PROVE NestInv'
  <2>1. stack' = RemoveObject(s) /\ s \in Ids
    BY <1>5, IdFacts DEF LeaveRoom
  <2> QED BY <2>1, RemoveNest, RemoveObjectIs, NestShort
<1>6. ASSUME NEW s \in Sessions, Receive(s) PROVE NestInv'
  BY <1>2, <1>6, FrameTypes DEF Receive
<1>7. ASSUME NEW s \in Sessions, SendDone(s) \/ SendDoneLoses(s) PROVE NestInv'
  BY <1>7, <1>0, NestSame DEF SendDone, SendDoneLoses
<1>8. CASE DispatchNothing \/ UpdateNothing \/ UpdateMove \/ Tick \/ UNCHANGED vars
  BY <1>8, <1>0, NestSame DEF DispatchNothing, UpdateNothing, UpdateMove, Tick, vars
<1>9. CASE UpdateIdle
  <2>1. \A c \in Cells : /\ Broadcast(Move(Monster, c)) = <<Start(Move(Monster, c))>>
                         /\ Start(Move(Monster, c)) \in Frames
    BY MessageTypes, BroadcastType, IdFacts
  <2>2. \/ stack' = stack /\ stack = << >>
        \/ \E c \in Cells : stack' = Broadcast(Move(Monster, c))
    BY <1>9, RoomFacts, IdFacts DEF UpdateIdle, Updating, Quiet, FirstSteps, CanGo, TypeOK
  <2> QED BY <1>2, <1>3, <2>1, <2>2
<1>10. CASE UpdateSkill
  <2>1. CASE UNCHANGED stack
    BY <1>3, <1>10, <2>1 DEF UpdateSkill, Updating, Quiet
  <2>2. CASE /\ target \in players
             /\ stack' = Broadcast(Attack(target, Monster))
                           \o <<[op |-> "hit", id |-> target]>>
    <3> DEFINE hit == [op |-> "hit", id |-> target]
    <3>1. target \in Sessions /\ Attack(target, Monster) \in Messages
      BY <2>2, RoomFacts, IdFacts, AttackType DEF TypeOK
    <3>2. hit \in Frames /\ hit.op # "broadcast" /\ Start(Attack(target, Monster)) \in Frames
      BY <3>1, FrameTypes, BroadcastType
    <3> HIDE DEF hit
    <3>3. stack' = <<Start(Attack(target, Monster)), hit>>
      BY <2>2, <3>1, <3>2, BroadcastAnd DEF hit
    <3> QED BY <1>1, <3>2, <3>3
  <2> QED BY <1>10, <2>1, <2>2 DEF UpdateSkill
<1>11. CASE Packet
  <2>1. PICK s \in Sessions, c \in Cells, skill \in BOOLEAN :
          \E front \in InFront(c) : HandleCMove(s, c, skill, front)
    BY <1>11 DEF Packet
  <2>2. PICK front \in InFront(c) : HandleCMove(s, c, skill, front)
    BY <2>1
  <2> DEFINE parse == [op |-> "parse", id |-> s]
             attack == [op |-> "attack", id |-> s, front |-> front]
             start == Start(Move(s, c))
             fs == IF skill THEN <<start, attack, parse>> ELSE <<start, parse>>
  <2>3. /\ stack # << >> /\ fs \in Seq(Frames) /\ stack' = fs \o Tail(stack)
        /\ parse \in Frames /\ attack \in Frames /\ start \in Frames
    BY <2>2, HandleCMoveCalls
  <2>4. parse.op # "broadcast" /\ attack.op # "broadcast" /\ UNCHANGED connected
    BY <2>2 DEF HandleCMove
  <2> HIDE DEF parse, attack, start
  <2>5. \A i \in 2..Len(fs) : fs[i].op # "broadcast"
    <3>1. CASE skill
      BY <2>3, <2>4, <3>1, NoneBeneath
    <3>2. CASE ~skill
      BY <2>3, <2>4, <3>2, NoneBeneath
    <3> QED BY <3>1, <3>2
  <2> HIDE DEF fs
  <2> QED BY <2>3, <2>4, <2>5, <1>0, NestFrame
<1>12. ASSUME stack # << >>, NEW f \in Frames, stack' = <<f>> \o Tail(stack), UNCHANGED connected
       PROVE  NestInv'
  <2>1. <<f>> \in Seq(Frames) /\ \A i \in 2..Len(<<f>>) : <<f>>[i].op # "broadcast"
    BY <1>12
  <2> QED BY <1>12, <2>1, <1>0, NestFrame
<1>13. ASSUME stack # << >>, stack' = Tail(stack), UNCHANGED connected PROVE NestInv'
  <2> DEFINE none == << >>
  <2>1. none \in Seq(Frames) /\ \A i \in 2..Len(none) : none[i].op # "broadcast"
    OBVIOUS
  <2>2. stack' = none \o Tail(stack)
    BY <1>13, TopFacts, ConcatEmptySeq DEF TypeOK
  <2> HIDE DEF none
  <2> QED BY <1>13, <2>1, <2>2, <1>0, NestFrame
<1>14. CASE ParseEnds
  <2>1. Head(stack) \in SessionFrames /\ stack # << >>
    BY <1>14, TopFrame, FrameByOp DEF ParseEnds
  <2>2. [Head(stack) EXCEPT !.op = "listen"] \in SessionFrames
    BY <2>1 DEF SessionFrames
  <2>3. [Head(stack) EXCEPT !.op = "listen"] \in Frames /\ UNCHANGED connected
    BY <1>14, <2>2 DEF Frames, ParseEnds
  <2> QED BY <1>12, <1>14, <2>1, <2>3 DEF ParseEnds, Calls
<1>15. ASSUME NEW p \in Sessions, SendTo(p) \/ SendLoses(p) PROVE NestInv'
  <2>1. stack # << >> /\ [Head(stack) EXCEPT !.on = p] \in Frames /\ UNCHANGED connected
    BY <1>15, BroadcastMoves, TopFrame DEF SendTo, SendLoses
  <2> QED BY <1>12, <1>15, <2>1 DEF SendTo, SendLoses, Calls
<1>16. CASE Listen \/ ListenDeafens \/ BroadcastEnds \/ MonsterCalms \/ Erase
  <2>1. stack # << >> /\ stack' = Tail(stack) /\ UNCHANGED connected
    BY <1>16, TopFrame DEF Listen, ListenDeafens, BroadcastEnds, MonsterCalms, Erase, Return
  <2> QED BY <1>13, <2>1
<1>17. CASE ListenFails
  <2>1. stack # << >>
    BY <1>17, TopFrame DEF ListenFails
  <2>2. \A s \in Sessions : connected'[s] => connected[s]
    BY <1>17 DEF ListenFails, Disconnect, TypeOK
  <2> QED BY <1>17, <2>1, <2>2, ListenFailsCalls, RemoveNest, IdFacts, <1>0, NestFrame
<1>18. CASE PlayerAttacks
  <2> DEFINE p == Head(stack).id
             hit == [op |-> "attacked", id |-> p, prey |-> Monster]
             start == Start(Attack(Monster, p))
  <2>1. /\ <<start, hit>> \in Seq(Frames) /\ UNCHANGED connected
        /\ stack' = Tail(stack) \/ stack' = <<start, hit>> \o Tail(stack)
    BY <1>18, PlayerAttacksCalls
  <2>2. hit.op # "broadcast" /\ start \in Frames /\ hit \in Frames
    <3>1. p \in Sessions
      BY <1>18, PlayerAttacksCalls
    <3> QED BY <3>1, IdFacts, AttackType, BroadcastType, FrameTypes DEF TypeOK
  <2>3. stack # << >>
    BY <1>18, TopFrame DEF PlayerAttacks
  <2> HIDE DEF hit, start
  <2>4. \A i \in 2..Len(<<start, hit>>) : <<start, hit>>[i].op # "broadcast"
    BY <2>2, NoneBeneath
  <2> QED BY <1>13, <2>1, <2>3, <2>4, <1>0, NestFrame
<1>19. CASE PlayerAttacked
  <2>1. stack # << >> /\ UNCHANGED connected
    BY <1>19, TopFrame, PlayerAttackedCalls DEF PlayerAttacked
  <2>2. stack' = RemoveObject(Monster) \o Tail(stack) \/ stack' = Tail(stack)
    BY <1>19, PlayerAttackedCalls, TopFrame DEF PlayerAttacked
  <2> QED BY <1>13, <2>1, <2>2, RemoveNest, RemoveObjectIs, IdFacts, <1>0, NestFrame
<1>20. CASE MonsterHit
  <2> DEFINE t == Head(stack).id
             start == Start(Remove(t))
             erase == EraseFrame(t)
  <2>1. /\ t \in Sessions
        /\ \/ stack' = <<start, erase, CalmFrame>> \o Tail(stack)
           \/ stack' = <<CalmFrame>> \o Tail(stack)
    BY <1>20, MonsterHitCalls
  <2>2. start \in Frames /\ erase \in Frames /\ CalmFrame \in Frames
        /\ erase.op # "broadcast" /\ CalmFrame.op # "broadcast"
    BY <2>1, RemoveObjectIs, IdFacts, FrameTypes DEF EraseFrame, CalmFrame
  <2>3. stack # << >> /\ UNCHANGED connected
    BY <1>20, TopFrame DEF MonsterHit
  <2> HIDE DEF start, erase
  <2>4. <<start, erase, CalmFrame>> \in Seq(Frames)
        /\ \A i \in 2..Len(<<start, erase, CalmFrame>>) :
             <<start, erase, CalmFrame>>[i].op # "broadcast"
    BY <2>2, NoneBeneath
  <2>5. CASE stack' = <<start, erase, CalmFrame>> \o Tail(stack)
    BY <2>3, <2>4, <2>5, <1>0, NestFrame
  <2>6. CASE stack' = <<CalmFrame>> \o Tail(stack)
    BY <1>12, <2>2, <2>3, <2>6
  <2> QED BY <2>1, <2>5, <2>6
<1> QED
  BY <1>4, <1>5, <1>6, <1>7, <1>8, <1>9, <1>10, <1>11, <1>14, <1>15, <1>16, <1>17,
     <1>18, <1>19, <1>20, NestSendFails DEF Next, Dispatch, Update, Unwind

\* Interrupted loops stand on sessions that were reset, in every behaviour.
LEMMA NestInvHolds == SafeSpec => []NestInv
<1>1. Init => NestInv
  BY DEF Init, NestInv, NestingEnds, Interrupted
<1> QED BY <1>1, NestStep, TypeCorrect, PTL DEF SafeSpec

(***************************************************************************)
(* The recursion through Broadcast, Send, Disconnect and LeaveRoom ends:   *)
(* every round of it stands on another session that has disconnected.      *)
(***************************************************************************)
THEOREM NestingAlwaysEnds == SafeSpec => []NestingEnds
BY NestInvHolds, PTL DEF NestInv

(***************************************************************************)
(* The recursion is never deeper than there are sessions: sending each     *)
(* interrupted broadcast to the session it stands on is an injection.      *)
(***************************************************************************)
THEOREM NestingBounded ==
  SafeSpec => [](NestingEnds /\ Cardinality(Interrupted) <= MaxSessions)
<1>1. ASSUME NestingEnds PROVE Cardinality(Interrupted) <= MaxSessions
  <2> DEFINE standsOn == [i \in Interrupted |-> stack[i].on]
  <2>1. standsOn \in Injection(Interrupted, Sessions)
    BY <1>1 DEF NestingEnds, Injection, IsInjective
  <2>2. IsFiniteSet(Sessions) /\ Cardinality(Sessions) = MaxSessions
    BY BoundsAssumption, FS_Interval DEF Sessions
  <2> QED BY <2>1, <2>2, FS_Injection
<1> QED BY <1>1, NestingAlwaysEnds, PTL

-----------------------------------------------------------------------------
(***************************************************************************)
(* What each call has beneath it.  A receive, its end and the rest of a    *)
(* monster's attack are outermost; a player's attack is made by a receive; *)
(* a player is erased by the outermost call or above the loop that stands  *)
(* on it; and only packets, never Update, attack or erase the monster.     *)
(***************************************************************************)
Outermost == {"parse", "listen", "hit", "calm"}
Attacks == {"attack", "attacked"}

\* Frame f has n calls beneath it, the first of which is g, in that half of the loop.
Sits(f, n, g, half) ==
  /\ f.op \in Outermost => n = 0
  /\ f.op \in Attacks => n = 1 /\ g.op = "parse"
  /\ f.op = "erase" /\ f.id \in Sessions =>
       \/ n = 0 \/ g.op = "calm"
       \/ g.op = "broadcast" /\ g.on = f.id
  /\ f.op = "parse" \/ f.op \in Attacks \/ (f.op = "erase" /\ f.id = Monster) =>
       half = "update"

StackInv == \A i \in DOMAIN stack : Sits(stack[i], Len(stack) - i, stack[i + 1], turn)

\* The innermost call leaves fs in its place, each of which sits right.
LEMMA SitsBeneath ==
  ASSUME TypeOK, StackInv, stack # << >>, NEW fs \in Seq(Frames), NEW n \in Nat, n = Len(fs),
         stack' = fs \o Tail(stack), UNCHANGED turn,
         \A i \in 1..n : i < n => Sits(fs[i], n + Len(stack) - 1 - i, fs[i + 1], turn),
         n > 0 => Sits(fs[n], Len(stack) - 1, stack[2], turn)
  PROVE  StackInv'
<1>0. stack \in Seq(Frames)
  BY DEF TypeOK
<1>size. Len(stack) \in Nat /\ Len(stack) # 0
  BY <1>0, TopFacts
<1>one. Len(stack) = 1 \/ Len(stack) > 1
  <2> DEFINE k == Len(stack)
  <2>1. k \in Nat /\ k # 0
    BY <1>size
  <2> HIDE DEF k
  <2>2. k = 1 \/ k > 1
    BY <2>1
  <2> QED BY <2>2 DEF k
<1>1. /\ Len(stack') = n + Len(stack) - 1
      /\ Len(stack) \in Nat \ {0}
      /\ stack' \in Seq(Frames)
      /\ \A i \in 1..n : stack'[i] = fs[i]
      /\ \A i \in (n + 1)..(n + Len(stack) - 1) :
           (i - n + 1 \in 2..Len(stack) /\ stack'[i] = stack[i - n + 1])
  BY <1>0, CallsAt, TopFacts
<1>2. turn' = turn
  OBVIOUS
<1>3. \A f, g, h, half : Sits(f, 0, g, half) => Sits(f, 0, h, half)
  BY DEF Sits
<1>4. ASSUME NEW i \in 1..n, i < n
      PROVE  Sits(stack'[i], Len(stack') - i, stack'[i + 1], turn)
  <2>1. i + 1 \in 1..n /\ Len(stack') - i = n + Len(stack) - 1 - i
    BY <1>1, <1>4
  <2>2. stack'[i] = fs[i] /\ stack'[i + 1] = fs[i + 1]
    BY <1>1, <2>1
  <2> QED BY <1>4, <2>1, <2>2
<1>5. ASSUME n > 0 PROVE Sits(stack'[n], Len(stack') - n, stack'[n + 1], turn)
  <2>1. stack'[n] = fs[n] /\ Len(stack') - n = Len(stack) - 1
    BY <1>1, <1>5
  <2>2. CASE Len(stack) = 1
    BY <1>3, <1>5, <2>1, <2>2
  <2>3. CASE Len(stack) > 1
    <3>1. n + 1 \in (n + 1)..(n + Len(stack) - 1) /\ (n + 1) - n + 1 = 2
      BY <1>1, <2>3
    <3>2. stack'[n + 1] = stack[2]
      BY <1>1, <3>1
    <3> QED BY <1>5, <2>1, <3>2
  <2> QED BY <1>one, <2>2, <2>3, Zenon
<1>6. ASSUME NEW i \in (n + 1)..(n + Len(stack) - 1)
      PROVE  Sits(stack'[i], Len(stack') - i, stack'[i + 1], turn)
  <2> DEFINE j == i - n + 1
  <2>1. /\ j \in 2..Len(stack) /\ stack'[i] = stack[j] /\ j \in DOMAIN stack
        /\ Len(stack') - i = Len(stack) - j
    BY <1>1 DEF TypeOK
  <2>2. Sits(stack[j], Len(stack) - j, stack[j + 1], turn)
    BY <2>1 DEF StackInv
  <2>3. CASE j = Len(stack)
    <3>1. Len(stack) - j = 0
      BY <1>1, <2>3
    <3> QED BY <1>3, <2>1, <2>2, <3>1
  <2>4. CASE j < Len(stack)
    <3>1. i + 1 \in (n + 1)..(n + Len(stack) - 1) /\ (i + 1) - n + 1 = j + 1
      BY <1>1, <2>1, <2>4
    <3>2. stack'[i + 1] = stack[j + 1]
      BY <1>1, <3>1
    <3> QED BY <2>1, <2>2, <3>2
  <2>5. j = Len(stack) \/ j < Len(stack)
    <3>1. j \in 2..Len(stack)
      BY <2>1
    <3> HIDE DEF j
    <3> QED BY <1>size, <3>1
  <2> QED BY <2>3, <2>4, <2>5, Zenon
<1>7. ASSUME NEW i \in DOMAIN stack'
      PROVE  \/ (i \in 1..n /\ i < n)
             \/ (n > 0 /\ i = n)
             \/ i \in (n + 1)..(n + Len(stack) - 1)
  BY <1>1
<1> QED BY <1>2, <1>4, <1>5, <1>6, <1>7 DEF StackInv

\* The frames that sit right on anything.
Free(f, half) ==
  f.op = "broadcast" \/ (f.op = "erase" /\ f.id = Monster /\ half = "update")

LEMMA FreeSits ==
  ASSUME NEW f, NEW n, NEW g, NEW half, Free(f, half) PROVE Sits(f, n, g, half)
BY IdFacts DEF Free, Sits, Outermost, Attacks

\* The innermost call goes on as one other, or returns.
LEMMA SitsOne ==
  ASSUME TypeOK, StackInv, stack # << >>, UNCHANGED turn,
         \/ stack' = Tail(stack)
         \/ \E f \in Frames : /\ stack' = <<f>> \o Tail(stack)
                             /\ Sits(f, Len(stack) - 1, stack[2], turn)
  PROVE  StackInv'
<1>1. CASE stack' = Tail(stack)
  <2> DEFINE none == << >>
  <2>1. none \in Seq(Frames) /\ Len(none) = 0
    OBVIOUS
  <2>2. stack' = none \o Tail(stack)
    BY <1>1, TopFacts, ConcatEmptySeq DEF TypeOK
  <2>3. \A i \in 1..0 : i < 0 => FALSE
    OBVIOUS
  <2> HIDE DEF none
  <2>4. \A i \in 1..0 : i < 0 => Sits(none[i], 0 + Len(stack) - 1 - i, none[i + 1], turn)
    BY <2>3
  <2>5. 0 \in Nat /\ (0 > 0 => Sits(none[0], Len(stack) - 1, stack[2], turn))
    OBVIOUS
  <2> QED BY <2>1, <2>2, <2>4, <2>5, SitsBeneath, Zenon
<1>2. ASSUME NEW f \in Frames, stack' = <<f>> \o Tail(stack),
             Sits(f, Len(stack) - 1, stack[2], turn)
      PROVE  StackInv'
  <2> DEFINE fs == <<f>>
  <2>1. fs \in Seq(Frames) /\ Len(fs) = 1 /\ fs[1] = f
    OBVIOUS
  <2> HIDE DEF fs
  <2>2. stack' = fs \o Tail(stack)
    BY <1>2 DEF fs
  <2>3. \A i \in 1..1 : ~(i < 1)
    OBVIOUS
  <2> QED BY <1>2, <2>1, <2>2, <2>3, SitsBeneath
<1> QED BY <1>1, <1>2

\* The innermost call calls another before it goes on.
LEMMA SitsTwo ==
  ASSUME TypeOK, StackInv, stack # << >>, UNCHANGED turn,
         NEW f \in Frames, NEW g \in Frames, stack' = <<f, g>> \o Tail(stack),
         Sits(f, Len(stack), g, turn), Sits(g, Len(stack) - 1, stack[2], turn)
  PROVE  StackInv'
<1> DEFINE fs == <<f, g>>
<1>1. fs \in Seq(Frames) /\ Len(fs) = 2 /\ fs[1] = f /\ fs[2] = g
  OBVIOUS
<1> HIDE DEF fs
<1>2. stack' = fs \o Tail(stack)
  BY DEF fs
<1>3. Len(stack) \in Nat /\ 2 + Len(stack) - 1 - 1 = Len(stack)
  BY LenProperties DEF TypeOK
<1>4. \A i \in 1..2 : i < 2 => Sits(fs[i], 2 + Len(stack) - 1 - i, fs[i + 1], turn)
  <2>1. \A i \in 1..2 : i < 2 => i = 1
    OBVIOUS
  <2> QED BY <1>1, <1>3, <2>1
<1> QED BY <1>1, <1>2, <1>4, SitsBeneath

\* The innermost call calls two others before it goes on.
LEMMA SitsThree ==
  ASSUME TypeOK, StackInv, stack # << >>, UNCHANGED turn,
         NEW f \in Frames, NEW g \in Frames, NEW h \in Frames,
         stack' = <<f, g, h>> \o Tail(stack),
         Sits(f, Len(stack) + 1, g, turn), Sits(g, Len(stack), h, turn),
         Sits(h, Len(stack) - 1, stack[2], turn)
  PROVE  StackInv'
<1> DEFINE fs == <<f, g, h>>
<1>1. fs \in Seq(Frames) /\ Len(fs) = 3 /\ fs[1] = f /\ fs[2] = g /\ fs[3] = h
  OBVIOUS
<1> HIDE DEF fs
<1>2. stack' = fs \o Tail(stack)
  BY DEF fs
<1>3. /\ Len(stack) \in Nat
      /\ 3 + Len(stack) - 1 - 1 = Len(stack) + 1 /\ 3 + Len(stack) - 1 - 2 = Len(stack)
  BY LenProperties DEF TypeOK
<1>4. \A i \in 1..3 : i < 3 => Sits(fs[i], 3 + Len(stack) - 1 - i, fs[i + 1], turn)
  <2>1. \A i \in 1..3 : i < 3 => i = 1 \/ i = 2
    OBVIOUS
  <2> QED BY <1>1, <1>3, <2>1
<1> QED BY <1>1, <1>2, <1>4, SitsBeneath

\* The stacks with which a handler begins.
LEMMA SitsFirst ==
  /\ \A f \in Frames : stack' = <<f>> /\ Sits(f, 0, f, turn') => StackInv'
  /\ \A f, g \in Frames :
       stack' = <<f, g>> /\ Sits(f, 1, g, turn') /\ Sits(g, 0, g, turn') => StackInv'
  /\ stack' = << >> => StackInv'
<1>1. ASSUME NEW f \in Frames, stack' = <<f>>, Sits(f, 0, f, turn') PROVE StackInv'
  <2>1. DOMAIN stack' = {1} /\ Len(stack') = 1 /\ stack'[1] = f
    BY <1>1
  <2>2. \A g : Sits(f, 0, g, turn')
    BY <1>1 DEF Sits
  <2> QED BY <2>1, <2>2 DEF StackInv
<1>2. ASSUME NEW f \in Frames, NEW g \in Frames, stack' = <<f, g>>,
             Sits(f, 1, g, turn'), Sits(g, 0, g, turn')
      PROVE  StackInv'
  <2>1. DOMAIN stack' = {1, 2} /\ Len(stack') = 2 /\ stack'[1] = f /\ stack'[2] = g
    BY <1>2
  <2>2. \A h : Sits(g, 0, h, turn')
    BY <1>2 DEF Sits
  <2> QED BY <1>2, <2>1, <2>2 DEF StackInv
<1>3. ASSUME stack' = << >> PROVE StackInv'
  BY <1>3 DEF StackInv
<1> QED BY <1>1, <1>2, <1>3

\* The innermost call sits right.
LEMMA TopSits ==
  ASSUME TypeOK, StackInv, NEW op, Top(op)
  PROVE  /\ Sits(Head(stack), Len(stack) - 1, stack[2], turn)
         /\ Len(stack) \in Nat \ {0}
         /\ op \in Outermost => Len(stack) = 1 /\ Tail(stack) = << >>
<1>1. /\ stack # << >> /\ Head(stack) = stack[1] /\ Head(stack).op = op
      /\ Len(stack) \in Nat \ {0} /\ 1 \in DOMAIN stack
  BY TopFrame, TopFacts, LenProperties DEF TypeOK
<1>2. Sits(Head(stack), Len(stack) - 1, stack[2], turn)
  BY <1>1 DEF StackInv
<1>3. ASSUME op \in Outermost PROVE Len(stack) = 1 /\ Tail(stack) = << >>
  <2>1. Len(stack) = 1
    BY <1>1, <1>2, <1>3 DEF Sits
  <2>2. Tail(stack) \in Seq(Frames) /\ Len(Tail(stack)) = 0
    BY <1>1, <2>1, TopFrame, HeadTailProperties DEF TypeOK
  <2> QED BY <2>1, <2>2, EmptySeq
<1> QED BY <1>1, <1>2, <1>3

\* Every step leaves every call where it belongs.
LEMMA StackStep == TypeOK /\ StackInv /\ [Next]_vars => StackInv'
<1> SUFFICES ASSUME TypeOK, StackInv, [Next]_vars PROVE StackInv'
  OBVIOUS
<1> USE DEF access, objects, ai
<1>0. ASSUME UNCHANGED <<stack, turn>> PROVE StackInv'
  BY <1>0 DEF StackInv, Sits
<1>1. ASSUME NEW m \in Messages
      PROVE  Start(m) \in Frames /\ (\A n, g, half : Sits(Start(m), n, g, half))
  <2>1. Start(m).op = "broadcast"
    BY DEF Start
  <2> QED BY <2>1, BroadcastType DEF Sits, Outermost, Attacks
<1>2. ASSUME NEW s \in Sessions, stack' = RemoveObject(s) PROVE StackInv'
  <2>1. s \in Ids /\ s # Monster /\ Remove(s) \in Messages
    BY IdFacts, MessageTypes, CellsAssumption
  <2>2. Sits(EraseFrame(s), 0, EraseFrame(s), turn')
    BY <2>1 DEF Sits, EraseFrame, Outermost, Attacks
  <2>3. CASE s \in ObjectsIn
    BY <1>1, <1>2, <2>1, <2>2, <2>3, RemoveObjectIs, SitsFirst
  <2>4. CASE s \notin ObjectsIn
    BY <1>2, <2>1, <2>4, RemoveObjectIs, SitsFirst
  <2> QED BY <2>3, <2>4
<1>3. ASSUME NEW s \in Sessions, EnterRoom(s) PROVE StackInv'
  <2> DEFINE listen == [op |-> "listen", id |-> s]
  <2>1. Add(s, pos[s]) \in Messages /\ listen \in Frames
    BY MessageTypes, RoomFacts, IdFacts, FrameTypes DEF TypeOK
  <2>2. Sits(listen, 0, listen, turn')
    BY DEF Sits, Outermost, Attacks
  <2>3. stack' = Broadcast(Add(s, pos[s])) \o <<listen>>
    BY <1>3 DEF EnterRoom
  <2> HIDE DEF listen
  <2> QED BY <1>1, <2>1, <2>2, <2>3, BroadcastAnd, SitsFirst
<1>4. ASSUME NEW s \in Sessions, LeaveRoom(s) PROVE StackInv'
  BY <1>2, <1>4 DEF LeaveRoom
<1>5. ASSUME NEW s \in Sessions, Receive(s) PROVE StackInv'
  <2> DEFINE parse == [op |-> "parse", id |-> s]
  <2>1. parse \in Frames /\ stack' = <<parse>> /\ turn' = "update"
    BY <1>5, FrameTypes DEF Receive, Dispatched
  <2>2. Sits(parse, 0, parse, turn')
    BY <2>1 DEF Sits, Outermost, Attacks
  <2> HIDE DEF parse
  <2> QED BY <2>1, <2>2, SitsFirst
<1>6. ASSUME NEW s \in Sessions, SendDone(s) \/ SendDoneLoses(s) PROVE StackInv'
  BY <1>6, SitsFirst DEF SendDone, SendDoneLoses, Dispatched, Quiet
<1>7. CASE DispatchNothing \/ UpdateNothing \/ UpdateMove
  BY <1>7, SitsFirst DEF DispatchNothing, UpdateNothing, UpdateMove, Dispatched, Updating, Quiet
<1>8. CASE UpdateIdle
  <2>1. \A c \in Cells : Move(Monster, c) \in Messages
    BY MessageTypes, IdFacts
  <2>2. \/ stack' = << >>
        \/ \E c \in Cells : stack' = Broadcast(Move(Monster, c))
    BY <1>8, RoomFacts, IdFacts DEF UpdateIdle, Updating, Quiet, FirstSteps, CanGo, TypeOK
  <2> QED BY <1>1, <2>1, <2>2, BroadcastType, SitsFirst
<1>9. CASE UpdateSkill
  <2>1. CASE UNCHANGED stack
    BY <1>9, <2>1, SitsFirst DEF UpdateSkill, Updating, Quiet
  <2>2. CASE /\ target \in players
             /\ stack' = Broadcast(Attack(target, Monster))
                           \o <<[op |-> "hit", id |-> target]>>
    <3> DEFINE hit == [op |-> "hit", id |-> target]
    <3>1. hit \in Frames /\ Attack(target, Monster) \in Messages
      BY <2>2, RoomFacts, IdFacts, AttackType, FrameTypes
    <3>2. Sits(hit, 0, hit, turn')
      BY DEF Sits, Outermost, Attacks
    <3> HIDE DEF hit
    <3> QED BY <1>1, <2>2, <3>1, <3>2, BroadcastAnd, SitsFirst DEF hit
  <2> QED BY <1>9, <2>1, <2>2 DEF UpdateSkill
<1>10. CASE Packet
  <2>1. PICK s \in Sessions, c \in Cells, skill \in BOOLEAN :
          \E front \in InFront(c) : HandleCMove(s, c, skill, front)
    BY <1>10 DEF Packet
  <2>2. PICK front \in InFront(c) : HandleCMove(s, c, skill, front)
    BY <2>1
  <2> DEFINE parse == [op |-> "parse", id |-> s]
             attack == [op |-> "attack", id |-> s, front |-> front]
             start == Start(Move(s, c))
             fs == IF skill THEN <<start, attack, parse>> ELSE <<start, parse>>
  <2>3. /\ Top("parse") /\ UNCHANGED turn
        /\ stack # << >> /\ stack' = fs \o Tail(stack) /\ Head(stack) = parse
        /\ parse \in Frames /\ attack \in Frames /\ start \in Frames
    BY <2>2, HandleCMoveCalls DEF HandleCMove
  <2>4. /\ Sits(parse, Len(stack) - 1, stack[2], turn) /\ Len(stack) = 1
        /\ \A n, g : Sits(start, n, g, turn)
    BY <1>1, <2>3, TopSits, MessageTypes, IdFacts DEF Outermost
  <2>5. Sits(attack, 1, parse, turn)
    BY <2>4 DEF Sits, Outermost, Attacks
  <2> HIDE DEF parse, attack, start
  <2>6. CASE skill
    BY <2>3, <2>4, <2>5, <2>6, SitsThree
  <2>7. CASE ~skill
    BY <2>3, <2>4, <2>7, SitsTwo
  <2> QED BY <2>6, <2>7
<1>11. CASE ParseEnds
  <2>1. Head(stack) \in SessionFrames /\ stack # << >>
    BY <1>11, TopFrame, FrameByOp DEF ParseEnds
  <2> DEFINE listen == [Head(stack) EXCEPT !.op = "listen"]
  <2>2. listen \in SessionFrames /\ listen.op = "listen"
    BY <2>1 DEF SessionFrames
  <2>3. listen \in Frames /\ stack' = <<listen>> \o Tail(stack) /\ UNCHANGED turn
    BY <1>11, <2>2 DEF Frames, ParseEnds, Calls
  <2>4. Len(stack) = 1
    BY <1>11, TopSits DEF ParseEnds, Outermost
  <2> HIDE DEF listen
  <2>5. Sits(listen, Len(stack) - 1, stack[2], turn)
    BY <2>2, <2>4 DEF Sits, Outermost, Attacks
  <2> QED BY <2>1, <2>3, <2>5, SitsOne
<1>12. ASSUME NEW p \in Sessions, SendTo(p) \/ SendLoses(p) PROVE StackInv'
  <2> DEFINE next == [Head(stack) EXCEPT !.on = p]
  <2>1. /\ stack # << >> /\ next \in Frames /\ next.op = "broadcast"
        /\ UNCHANGED turn /\ stack' = <<next>> \o Tail(stack)
    BY <1>12, BroadcastMoves, TopFrame DEF SendTo, SendLoses, Calls
  <2> HIDE DEF next
  <2> QED BY <2>1, FreeSits, SitsOne DEF Free
<1>13. ASSUME NEW p \in Sessions, SendFails(p) PROVE StackInv'
  <2> DEFINE next == [Head(stack) EXCEPT !.on = p]
  <2>1. /\ stack # << >> /\ next \in Frames /\ next.op = "broadcast" /\ next.on = p
        /\ UNCHANGED turn /\ p \in Ids /\ p # Monster
    BY <1>13, BroadcastMoves, TopFrame, IdFacts DEF SendFails
  <2>2. stack' = <<Start(Remove(p)), EraseFrame(p), next>> \o Tail(stack)
    BY <1>13, SendFailsCalls
  <2>3. Start(Remove(p)) \in Frames /\ EraseFrame(p) \in Frames
        /\ \A n, g : Sits(Start(Remove(p)), n, g, turn)
    BY <1>1, <2>1, RemoveObjectIs, MessageTypes, CellsAssumption
  <2> HIDE DEF next
  <2>4. Sits(EraseFrame(p), Len(stack), next, turn)
    BY <2>1 DEF Sits, EraseFrame, Outermost, Attacks
  <2>5. Sits(next, Len(stack) - 1, stack[2], turn)
    BY <2>1, FreeSits DEF Free
  <2> QED BY <2>1, <2>2, <2>3, <2>4, <2>5, SitsThree
<1>14. CASE Listen \/ ListenDeafens \/ BroadcastEnds \/ MonsterCalms \/ Erase
  <2>1. stack # << >> /\ stack' = Tail(stack) /\ UNCHANGED turn
    BY <1>14, TopFrame DEF Listen, ListenDeafens, BroadcastEnds, MonsterCalms, Erase, Return
  <2> QED BY <2>1, SitsOne
<1>15. CASE ListenFails
  <2>1. Tail(stack) = << >>
    BY <1>15, TopSits DEF ListenFails, Outermost
  <2>2. /\ Head(stack).id \in Sessions
        /\ stack' = RemoveObject(Head(stack).id) \o << >>
        /\ RemoveObject(Head(stack).id) \in Seq(Frames)
    BY <1>15, <2>1, ListenFailsCalls
  <2>3. stack' = RemoveObject(Head(stack).id)
    BY <2>2, ConcatEmptySeq
  <2> QED BY <1>2, <2>2, <2>3
<1>16. CASE PlayerAttacks
  <2> DEFINE p == Head(stack).id
             hit == [op |-> "attacked", id |-> p, prey |-> Monster]
             start == Start(Attack(Monster, p))
  <2>1. /\ p \in Sessions
        /\ stack' = Tail(stack) \/ stack' = <<start, hit>> \o Tail(stack)
    BY <1>16, PlayerAttacksCalls
  <2>2. /\ stack # << >> /\ UNCHANGED turn /\ Top("attack") /\ Head(stack).op = "attack"
    BY <1>16, TopFrame DEF PlayerAttacks, Crash
  <2>3. hit \in Frames /\ start \in Frames /\ \A n, g : Sits(start, n, g, turn)
    BY <1>1, <2>1, AttackType, IdFacts, FrameTypes
  <2>4. Sits(hit, Len(stack) - 1, stack[2], turn)
    BY <2>2, TopSits DEF Sits, Outermost, Attacks
  <2> HIDE DEF hit, start
  <2>5. CASE stack' = Tail(stack)
    BY <2>2, <2>5, SitsOne
  <2>6. CASE stack' = <<start, hit>> \o Tail(stack)
    BY <2>2, <2>3, <2>4, <2>6, SitsTwo
  <2> QED BY <2>1, <2>5, <2>6
<1>17. CASE PlayerAttacked
  <2>1. /\ stack # << >> /\ UNCHANGED turn /\ Top("attacked") /\ Head(stack).op = "attacked"
        /\ << >> \o Tail(stack) = Tail(stack)
    BY <1>17, TopFrame, PlayerAttackedCalls DEF PlayerAttacked
  <2>2. stack' = RemoveObject(Monster) \o Tail(stack) \/ stack' = Tail(stack)
    BY <1>17, <2>1, PlayerAttackedCalls
  <2>3. turn = "update"
    BY <2>1, TopSits DEF Sits, Attacks
  <2>4. CASE stack' = Tail(stack)
    BY <2>1, <2>4, SitsOne
  <2>5. CASE /\ Monster \in ObjectsIn
             /\ stack' = <<Start(Remove(Monster)), EraseFrame(Monster)>> \o Tail(stack)
    <3>1. Start(Remove(Monster)) \in Frames /\ EraseFrame(Monster) \in Frames
          /\ \A n, g : Sits(Start(Remove(Monster)), n, g, turn)
      BY <1>1, IdFacts, RemoveObjectIs, MessageTypes, CellsAssumption
    <3>2. Sits(EraseFrame(Monster), Len(stack) - 1, stack[2], turn)
      BY <2>3, FreeSits DEF Free, EraseFrame
    <3> QED BY <2>1, <2>5, <3>1, <3>2, SitsTwo
  <2>6. stack' = RemoveObject(Monster) \o Tail(stack) =>
          \/ stack' = Tail(stack)
          \/ /\ Monster \in ObjectsIn
             /\ stack' = <<Start(Remove(Monster)), EraseFrame(Monster)>> \o Tail(stack)
    BY <2>1, RemoveObjectIs, IdFacts
  <2> QED BY <2>2, <2>4, <2>5, <2>6
<1>18. CASE MonsterHit
  <2> DEFINE t == Head(stack).id
             start == Start(Remove(t))
             erase == EraseFrame(t)
  <2>1. /\ t \in Sessions
        /\ \/ stack' = <<start, erase, CalmFrame>> \o Tail(stack)
           \/ stack' = <<CalmFrame>> \o Tail(stack)
    BY <1>18, MonsterHitCalls
  <2>2. /\ start \in Frames /\ erase \in Frames /\ CalmFrame \in Frames
        /\ t \in Ids /\ t # Monster /\ \A n, g : Sits(start, n, g, turn)
    BY <1>1, <2>1, RemoveObjectIs, IdFacts, FrameTypes, MessageTypes, CellsAssumption
       DEF CalmFrame
  <2>3. stack # << >> /\ UNCHANGED turn /\ Len(stack) = 1
    BY <1>18, TopFrame, TopSits DEF MonsterHit, Outermost
  <2>4. /\ Sits(erase, Len(stack), CalmFrame, turn)
        /\ Sits(CalmFrame, Len(stack) - 1, stack[2], turn)
    BY <2>2, <2>3 DEF Sits, EraseFrame, CalmFrame, Outermost, Attacks
  <2> HIDE DEF start, erase
  <2>5. CASE stack' = <<start, erase, CalmFrame>> \o Tail(stack)
    BY <2>2, <2>3, <2>4, <2>5, SitsThree
  <2>6. CASE stack' = <<CalmFrame>> \o Tail(stack)
    BY <2>2, <2>3, <2>4, <2>6, SitsOne
  <2> QED BY <2>1, <2>5, <2>6
<1>19. CASE Tick \/ UNCHANGED vars
  BY <1>0, <1>19 DEF Tick, vars
<1> QED
  BY <1>3, <1>4, <1>5, <1>6, <1>7, <1>8, <1>9, <1>10, <1>11, <1>12, <1>13, <1>14, <1>15,
     <1>16, <1>17, <1>18, <1>19 DEF Next, Dispatch, Update, Unwind

-----------------------------------------------------------------------------
(***************************************************************************)
(* What may become undefined.  An erase loses an iterator only beneath a   *)
(* loop that stands on the erased player, and then a send of that loop was *)
(* reset; a null room is followed only after that.                         *)
(***************************************************************************)
AttacksOf(s) == {f \in Frames : f.op \in Attacks /\ f.id = s}

Reset == \E s \in Sessions : <<s, "reset">> \in failed

FateInv ==
  /\ fate # "defined" => Reset
  /\ fate = "defined" => \A s \in Sessions : Some(stack, AttacksOf(s)) => s \in players

RoomInv == TypeOK /\ NestInv /\ StackInv /\ FateInv

\* The innermost call makes no attack of a player who is not there.
LEMMA FateBeneath ==
  ASSUME RoomInv, stack # << >>, NEW fs \in Seq(Frames), stack' = fs \o Tail(stack),
         UNCHANGED <<fate, players>>, failed \subseteq failed',
         fate = "defined" => \A s \in Sessions : Some(fs, AttacksOf(s)) => s \in players
  PROVE  FateInv'
<1>1. ASSUME NEW s \in Sessions, Some(stack', AttacksOf(s)), fate = "defined"
      PROVE  s \in players
  <2>1. stack \in Seq(Frames)
    BY DEF RoomInv, TypeOK
  <2>2. Some(fs, AttacksOf(s)) \/ Some(Tail(stack), AttacksOf(s))
    BY <1>1, <2>1, SomeCalls
  <2>3. Some(Tail(stack), AttacksOf(s)) => Some(stack, AttacksOf(s))
    BY <2>1, SomeHead
  <2> QED BY <1>1, <2>2, <2>3 DEF RoomInv, FateInv
<1>2. Reset => Reset'
  BY DEF Reset
<1> QED BY <1>1, <1>2 DEF FateInv, RoomInv

\* Broadcasts, erases and the bottoms of handlers are no attacks.
LEMMA NoAttacks ==
  /\ \A fs \in Seq(Frames) :
       (\A i \in DOMAIN fs : fs[i].op \notin Attacks) => \A s : ~Some(fs, AttacksOf(s))
  /\ \A o \in Ids : \A s : ~Some(RemoveObject(o), AttacksOf(s))
<1>1. ASSUME NEW fs \in Seq(Frames), \A i \in DOMAIN fs : fs[i].op \notin Attacks, NEW s
      PROVE  ~Some(fs, AttacksOf(s))
  BY <1>1 DEF Some, AttacksOf
<1>2. ASSUME NEW o \in Ids, NEW s PROVE ~Some(RemoveObject(o), AttacksOf(s))
  <2>1. Start(Remove(o)).op = "broadcast" /\ EraseFrame(o).op = "erase"
    BY DEF Start, EraseFrame
  <2>2. CASE o \in ObjectsIn
    BY <2>1, <2>2, RemoveObjectIs DEF Some, AttacksOf, Attacks
  <2>3. CASE o \notin ObjectsIn
    BY <2>3, RemoveObjectIs, SomeEmpty
  <2> QED BY <2>2, <2>3
<1> QED BY <1>1, <1>2

\* A loop that stands on an erased player was reset; no attack of that player is
\* beneath without one.
LEMMA EraseLoses ==
  ASSUME RoomInv, Erase
  PROVE  LET o == Head(stack).id
         IN  /\ IteratorLost(o) => Reset
             /\ o \in Sessions /\ Some(Tail(stack), AttacksOf(o)) => IteratorLost(o)
<1> DEFINE o == Head(stack).id
<1>1. /\ Head(stack) \in EraseFrames /\ stack # << >> /\ Head(stack) = stack[1]
      /\ Sits(Head(stack), Len(stack) - 1, stack[2], turn) /\ Len(stack) \in Nat \ {0}
      /\ stack \in Seq(Frames)
  BY TopFrame, TopSits, FrameByOp DEF Erase, RoomInv, TypeOK
<1>2. o \in Ids /\ Head(stack).op = "erase"
  BY <1>1 DEF EraseFrames
<1>3. ASSUME IteratorLost(o) PROVE Reset
  <2>1. CASE \E i \in 2..Len(stack) : stack[i].op = "broadcast" /\ stack[i].on = o
    <3>1. PICK i \in Interrupted : stack[i].on = o
      BY <2>1 DEF Interrupted
    <3> QED BY <3>1 DEF RoomInv, NestInv, NestingEnds, Reset
  <2>2. CASE o = Monster /\ turn = "dispatch"
    BY <1>1, <1>2, <2>2 DEF Sits
  <2> QED BY <1>3, <2>1, <2>2 DEF IteratorLost
<1>4. ASSUME o \in Sessions, Some(Tail(stack), AttacksOf(o)) PROVE IteratorLost(o)
  <2>1. PICK i \in DOMAIN Tail(stack) : Tail(stack)[i] \in AttacksOf(o)
    BY <1>4 DEF Some
  <2>2. /\ i \in 1..(Len(stack) - 1) /\ Tail(stack)[i] = stack[i + 1]
        /\ i + 1 \in DOMAIN stack /\ i + 1 \in 2..Len(stack)
    BY <1>1, <2>1, HeadTailProperties
  <2>3. stack[i + 1].op \in Attacks /\ stack[i + 1].op \notin Outermost
    BY <2>1, <2>2 DEF AttacksOf, Attacks, Outermost
  <2>4. Sits(stack[i + 1], Len(stack) - (i + 1), stack[(i + 1) + 1], turn)
    BY <2>2 DEF RoomInv, StackInv
  <2>5. \/ Len(stack) - 1 = 0 \/ stack[2].op = "calm"
        \/ stack[2].op = "broadcast" /\ stack[2].on = o
    BY <1>1, <1>2, <1>4 DEF Sits
  <2>6. CASE stack[2].op = "calm"
    <3>0. 2 \in DOMAIN stack
      BY <1>1, <2>2
    <3>1. Sits(stack[2], Len(stack) - 2, stack[2 + 1], turn)
      BY <3>0 DEF RoomInv, StackInv
    <3>2. Len(stack) = 2
      BY <1>1, <2>6, <3>0, <3>1 DEF Sits, Outermost
    <3>3. i + 1 = 2
      BY <2>2, <3>2
    <3> QED BY <2>3, <2>6, <3>3 DEF Attacks
  <2>7. CASE stack[2].op = "broadcast" /\ stack[2].on = o
    <3>1. 2 \in 2..Len(stack)
      BY <1>1, <2>2
    <3> QED BY <2>7, <3>1 DEF IteratorLost
  <2> QED BY <2>2, <2>5, <2>6, <2>7
<1> QED BY <1>3, <1>4

\* No step makes anything undefined but after a reset of a send in a broadcast.
LEMMA FateStep == RoomInv /\ [Next]_vars => FateInv'
<1> SUFFICES ASSUME RoomInv, [Next]_vars PROVE FateInv'
  OBVIOUS
<1> USE DEF access, objects, ai
<1>0. TypeOK /\ StackInv /\ failed \subseteq failed' /\ (Reset => Reset')
  BY FailedGrows DEF RoomInv, Reset
<1>1. ASSUME stack' \in Seq(Frames), \A i \in DOMAIN stack' : stack'[i].op \notin Attacks,
             UNCHANGED fate
      PROVE  FateInv'
  BY <1>0, <1>1, NoAttacks DEF RoomInv, FateInv
<1>2. ASSUME NEW s \in Sessions, stack' = RemoveObject(s), UNCHANGED fate PROVE FateInv'
  <2>1. \A t : ~Some(stack', AttacksOf(t))
    BY <1>2, NoAttacks, IdFacts
  <2> QED BY <1>0, <1>2, <2>1 DEF RoomInv, FateInv
<1>3. ASSUME NEW f \in Frames, f.op \notin Attacks, UNCHANGED fate,
             \/ stack' = <<f>>
             \/ \E m \in Messages : stack' = Broadcast(m) \o <<f>>
             \/ \E m \in Messages : stack' = Broadcast(m)
      PROVE  FateInv'
  <2>1. CASE stack' = <<f>>
    BY <1>1, <1>3, <2>1
  <2>2. ASSUME NEW m \in Messages,
               stack' = Broadcast(m) \o <<f>> \/ stack' = Broadcast(m)
        PROVE  FateInv'
    <3>1. Start(m).op \notin Attacks /\ Start(m) \in Frames
      BY BroadcastType DEF Start, Attacks
    <3>2. stack' = <<Start(m), f>> \/ stack' = <<Start(m)>>
      BY <2>2, BroadcastAnd, BroadcastType
    <3>3. CASE stack' = <<Start(m), f>>
      <4>1. <<Start(m), f>> \in Seq(Frames) /\ DOMAIN <<Start(m), f>> = {1, 2}
        BY <1>3, <3>1
      <4>2. \A i \in {1, 2} : <<Start(m), f>>[i].op \notin Attacks
        BY <1>3, <3>1
      <4> QED BY <1>1, <1>3, <3>3, <4>1, <4>2
    <3>4. CASE stack' = <<Start(m)>>
      <4>1. <<Start(m)>> \in Seq(Frames) /\ DOMAIN <<Start(m)>> = {1}
        BY <3>1
      <4>2. \A i \in {1} : <<Start(m)>>[i].op \notin Attacks
        BY <3>1
      <4> QED BY <1>1, <1>3, <3>4, <4>1, <4>2
    <3> QED BY <3>2, <3>3, <3>4
  <2> QED BY <1>3, <2>1, <2>2
<1>4. ASSUME NEW s \in Sessions, EnterRoom(s) PROVE FateInv'
  <2> DEFINE listen == [op |-> "listen", id |-> s]
  <2>1. /\ Add(s, pos[s]) \in Messages /\ listen \in Frames /\ listen.op \notin Attacks
        /\ stack' = Broadcast(Add(s, pos[s])) \o <<listen>> /\ UNCHANGED fate
    BY <1>4, <1>0, MessageTypes, RoomFacts, IdFacts, FrameTypes DEF EnterRoom, Attacks
  <2> HIDE DEF listen
  <2> QED BY <1>3, <2>1
<1>5. ASSUME NEW s \in Sessions, LeaveRoom(s) PROVE FateInv'
  BY <1>2, <1>5 DEF LeaveRoom
<1>6. ASSUME NEW s \in Sessions, Receive(s) PROVE FateInv'
  <2> DEFINE parse == [op |-> "parse", id |-> s]
  <2>1. parse \in Frames /\ stack' = <<parse>> /\ parse.op \notin Attacks /\ UNCHANGED fate
    BY <1>6, FrameTypes DEF Receive, Attacks
  <2> HIDE DEF parse
  <2> QED BY <1>3, <2>1
<1>7. ASSUME UNCHANGED fate, stack' = << >> PROVE FateInv'
  BY <1>1, <1>7
<1>8. ASSUME NEW s \in Sessions, SendDone(s) \/ SendDoneLoses(s) PROVE FateInv'
  BY <1>7, <1>8 DEF SendDone, SendDoneLoses, Dispatched, Quiet
<1>9. CASE DispatchNothing \/ UpdateNothing \/ UpdateMove
  BY <1>7, <1>9 DEF DispatchNothing, UpdateNothing, UpdateMove, Dispatched, Updating, Quiet
<1>10. CASE UpdateIdle
  <2>1. \A c \in Cells : Move(Monster, c) \in Messages
    BY MessageTypes, IdFacts
  <2>2. \/ stack' = << >>
        \/ \E c \in Cells : stack' = Broadcast(Move(Monster, c))
    BY <1>0, <1>10, RoomFacts, IdFacts
       DEF UpdateIdle, Updating, Quiet, FirstSteps, CanGo, TypeOK
  <2>3. CalmFrame \in Frames /\ CalmFrame.op \notin Attacks /\ UNCHANGED fate
    BY <1>10, FrameTypes DEF CalmFrame, Attacks, UpdateIdle
  <2> QED BY <1>3, <1>7, <2>1, <2>2, <2>3
<1>11. CASE UpdateSkill
  <2>1. CASE UNCHANGED stack
    BY <1>7, <1>11, <2>1 DEF UpdateSkill, Updating, Quiet
  <2>2. CASE /\ target \in players
             /\ stack' = Broadcast(Attack(target, Monster))
                           \o <<[op |-> "hit", id |-> target]>>
    <3> DEFINE hit == [op |-> "hit", id |-> target]
    <3>1. /\ hit \in Frames /\ Attack(target, Monster) \in Messages
          /\ hit.op \notin Attacks /\ UNCHANGED fate
      BY <1>0, <1>11, <2>2, RoomFacts, IdFacts, AttackType, FrameTypes
         DEF UpdateSkill, Attacks
    <3>2. stack' = Broadcast(Attack(target, Monster)) \o <<hit>>
      BY <2>2
    <3> HIDE DEF hit
    <3> QED BY <1>3, <3>1, <3>2
  <2> QED BY <1>11, <2>1, <2>2 DEF UpdateSkill
<1>12. CASE Packet
  <2>1. PICK s \in Sessions, c \in Cells, skill \in BOOLEAN :
          \E front \in InFront(c) : HandleCMove(s, c, skill, front)
    BY <1>12 DEF Packet
  <2>2. PICK front \in InFront(c) : HandleCMove(s, c, skill, front)
    BY <2>1
  <2> DEFINE parse == [op |-> "parse", id |-> s]
             attack == [op |-> "attack", id |-> s, front |-> front]
             start == Start(Move(s, c))
             fs == IF skill THEN <<start, attack, parse>> ELSE <<start, parse>>
  <2>3. stack # << >> /\ fs \in Seq(Frames) /\ stack' = fs \o Tail(stack)
    BY <1>0, <2>2, HandleCMoveCalls
  <2>4. s \in players /\ UNCHANGED <<fate, players>>
    BY <2>2 DEF HandleCMove
  <2>5. /\ start.op \notin Attacks /\ parse.op \notin Attacks
        /\ \A t : attack \in AttacksOf(t) => t = s
    BY DEF Start, Attacks, AttacksOf
  <2> HIDE DEF parse, attack, start
  <2>6. ASSUME NEW t \in Sessions, Some(fs, AttacksOf(t)) PROVE t = s
    <3>1. CASE skill
      BY <2>5, <2>6, <3>1 DEF Some, AttacksOf
    <3>2. CASE ~skill
      BY <2>5, <2>6, <3>2 DEF Some, AttacksOf
    <3> QED BY <3>1, <3>2
  <2> HIDE DEF fs
  <2> QED BY <1>0, <2>3, <2>4, <2>6, FateBeneath
<1>13. ASSUME NEW fs \in Seq(Frames), stack # << >>, stack' = fs \o Tail(stack),
              UNCHANGED <<fate, players>>,
              \A s \in Sessions : ~Some(fs, AttacksOf(s))
       PROVE  FateInv'
  BY <1>0, <1>13, FateBeneath
<1>14. ASSUME NEW f \in Frames, f.op \notin Attacks, stack # << >>,
              stack' = <<f>> \o Tail(stack), UNCHANGED <<fate, players>>
       PROVE  FateInv'
  <2>1. <<f>> \in Seq(Frames) /\ \A s : ~Some(<<f>>, AttacksOf(s))
    BY <1>14 DEF Some, AttacksOf
  <2> QED BY <1>13, <1>14, <2>1
<1>15. CASE ParseEnds
  <2>1. Head(stack) \in SessionFrames /\ stack # << >>
    BY <1>0, <1>15, TopFrame, FrameByOp DEF ParseEnds
  <2> DEFINE listen == [Head(stack) EXCEPT !.op = "listen"]
  <2>2. listen \in SessionFrames /\ listen.op = "listen"
    BY <2>1 DEF SessionFrames
  <2>3. listen \in Frames /\ stack' = <<listen>> \o Tail(stack)
        /\ UNCHANGED <<fate, players>> /\ listen.op \notin Attacks
    BY <1>15, <2>2 DEF Frames, ParseEnds, Calls, Attacks
  <2> HIDE DEF listen
  <2> QED BY <1>14, <2>1, <2>3
<1>16. ASSUME NEW p \in Sessions, SendTo(p) \/ SendLoses(p) PROVE FateInv'
  <2> DEFINE next == [Head(stack) EXCEPT !.on = p]
  <2>1. /\ stack # << >> /\ next \in Frames /\ next.op \notin Attacks
        /\ UNCHANGED <<fate, players>> /\ stack' = <<next>> \o Tail(stack)
    BY <1>0, <1>16, BroadcastMoves, TopFrame DEF SendTo, SendLoses, Calls, Attacks
  <2> HIDE DEF next
  <2> QED BY <1>14, <2>1
<1>17. ASSUME NEW p \in Sessions, SendFails(p) PROVE FateInv'
  <2> DEFINE next == [Head(stack) EXCEPT !.on = p]
             start == Start(Remove(p))
             erase == EraseFrame(p)
             fs == <<start, erase, next>>
  <2>1. /\ stack # << >> /\ next.op \notin Attacks /\ UNCHANGED <<fate, players>>
    BY <1>0, <1>17, BroadcastMoves, TopFrame DEF SendFails, Attacks
  <2>2. fs \in Seq(Frames) /\ stack' = fs \o Tail(stack)
    BY <1>0, <1>17, SendFailsCalls
  <2>3. start.op \notin Attacks /\ erase.op \notin Attacks
    BY DEF Start, EraseFrame, Attacks
  <2> HIDE DEF next, start, erase
  <2>4. \A s : ~Some(fs, AttacksOf(s))
    BY <2>1, <2>3 DEF Some, AttacksOf
  <2> HIDE DEF fs
  <2> QED BY <1>13, <2>1, <2>2, <2>4
<1>18. ASSUME stack # << >>, stack' = Tail(stack), UNCHANGED <<fate, players>> PROVE FateInv'
  <2> DEFINE none == << >>
  <2>1. none \in Seq(Frames) /\ \A s : ~Some(none, AttacksOf(s))
    BY SomeEmpty
  <2>2. stack' = none \o Tail(stack)
    BY <1>0, <1>18, TopFacts, ConcatEmptySeq DEF TypeOK
  <2> HIDE DEF none
  <2> QED BY <1>13, <1>18, <2>1, <2>2
<1>19. CASE Listen \/ ListenDeafens \/ BroadcastEnds \/ MonsterCalms
  <2>1. stack # << >> /\ stack' = Tail(stack) /\ UNCHANGED <<fate, players>>
    BY <1>0, <1>19, TopFrame DEF Listen, ListenDeafens, BroadcastEnds, MonsterCalms, Return
  <2> QED BY <1>18, <2>1
<1>20. CASE ListenFails
  <2>1. stack # << >> /\ UNCHANGED <<fate, players>>
    BY <1>0, <1>20, TopFrame DEF ListenFails
  <2> QED BY <1>0, <1>13, <1>20, <2>1, ListenFailsCalls, NoAttacks, IdFacts
<1>21. CASE Erase
  <2> DEFINE o == Head(stack).id
  <2>1. /\ stack # << >> /\ stack' = Tail(stack) /\ players' = players \ {o}
        /\ fate' \in IF IteratorLost(o) THEN {"undefined", "crashed"} ELSE {fate}
        /\ stack \in Seq(Frames)
    BY <1>0, <1>21, TopFrame DEF Erase, Return, TypeOK
  <2>2. /\ IteratorLost(o) => Reset
        /\ o \in Sessions /\ Some(Tail(stack), AttacksOf(o)) => IteratorLost(o)
    BY <1>21, EraseLoses
  <2> HIDE DEF o
  <2>3. CASE IteratorLost(o)
    BY <1>0, <2>1, <2>2, <2>3 DEF FateInv
  <2>4. CASE ~IteratorLost(o)
    <3>1. \A s \in Sessions : Some(stack', AttacksOf(s)) => s # o /\ Some(stack, AttacksOf(s))
      BY <2>1, <2>2, <2>4, SomeHead
    <3> QED BY <1>0, <2>1, <2>4, <3>1 DEF FateInv, RoomInv
  <2> QED BY <2>3, <2>4
<1>22. CASE PlayerAttacks
  <2> DEFINE p == Head(stack).id
             hit == [op |-> "attacked", id |-> p, prey |-> Monster]
             start == Start(Attack(Monster, p))
             fs == <<start, hit>>
  <2>1. /\ p \in Sessions /\ fs \in Seq(Frames)
        /\ \/ stack' = Tail(stack) /\ UNCHANGED players /\ p \notin players /\ fate' = "crashed"
           \/ stack' = Tail(stack) /\ UNCHANGED players /\ fate' = fate
           \/ stack' = fs \o Tail(stack) /\ UNCHANGED <<players, fate>> /\ p \in players
    BY <1>0, <1>22, PlayerAttacksCalls
  <2>2. /\ stack # << >> /\ Head(stack) \in AttacksOf(p) /\ stack \in Seq(Frames)
    BY <1>0, <1>22, TopFrame DEF PlayerAttacks, AttacksOf, Attacks, TypeOK
  <2>3. Some(stack, AttacksOf(p))
    BY <2>2, SomeHead
  <2>4. p \notin players => Reset
    BY <2>1, <2>3 DEF RoomInv, FateInv
  <2>5. start.op \notin Attacks /\ \A s : hit \in AttacksOf(s) => s = p
    BY DEF Start, Attacks, AttacksOf
  <2> HIDE DEF hit, start
  <2>6. \A s \in Sessions : Some(fs, AttacksOf(s)) => s = p
    BY <2>5 DEF Some, AttacksOf
  <2> HIDE DEF fs, p
  <2>7. CASE p \notin players /\ fate' = "crashed"
    BY <1>0, <2>4, <2>7 DEF FateInv
  <2>8. CASE stack' = Tail(stack) /\ UNCHANGED <<players, fate>>
    BY <1>18, <2>2, <2>8
  <2>9. CASE stack' = fs \o Tail(stack) /\ UNCHANGED <<players, fate>> /\ p \in players
    BY <1>0, <2>1, <2>2, <2>6, <2>9, FateBeneath
  <2> QED BY <2>1, <2>7, <2>8, <2>9
<1>23. CASE PlayerAttacked
  <2> DEFINE p == Head(stack).id
  <2>1. /\ p \in Sessions /\ stack # << >> /\ Head(stack) \in AttacksOf(p)
        /\ stack \in Seq(Frames) /\ UNCHANGED players
        /\ << >> \o Tail(stack) = Tail(stack)
    BY <1>0, <1>23, TopFrame, PlayerAttackedCalls
       DEF PlayerAttacked, AttacksOf, Attacks, TypeOK
  <2>2. CASE p \notin players /\ Dead(Monster)
    <3>1. fate' = "crashed"
      BY <1>0, <1>23, <2>2, PlayerAttackedCalls
    <3>2. Some(stack, AttacksOf(p))
      BY <2>1, SomeHead
    <3>3. Reset
      BY <2>1, <2>2, <3>2 DEF RoomInv, FateInv
    <3> QED BY <1>0, <3>1, <3>3 DEF FateInv
  <2>3. CASE ~(p \notin players /\ Dead(Monster))
    <3>1. /\ UNCHANGED fate
          /\ stack' = (IF Dead(Monster) THEN RemoveObject(Monster) ELSE << >>) \o Tail(stack)
      BY <1>0, <1>23, <2>3, PlayerAttackedCalls
    <3>2. CASE Dead(Monster)
      <4>1. RemoveObject(Monster) \in Seq(Frames)
        BY RemoveObjectIs, IdFacts
      <4> QED BY <1>13, <2>1, <3>1, <3>2, <4>1, NoAttacks, IdFacts
    <3>3. CASE ~Dead(Monster)
      BY <1>18, <2>1, <3>1, <3>3
    <3> QED BY <3>2, <3>3
  <2> QED BY <2>2, <2>3
<1>24. CASE MonsterHit
  <2> DEFINE t == Head(stack).id
             start == Start(Remove(t))
             erase == EraseFrame(t)
             fs == IF Dead(t) /\ t \in ObjectsIn
                   THEN <<start, erase, CalmFrame>> ELSE <<CalmFrame>>
  <2>1. fs \in Seq(Frames) /\ stack' = fs \o Tail(stack)
    BY <1>0, <1>24, MonsterHitCalls
  <2>2. stack # << >> /\ UNCHANGED <<fate, players>>
    BY <1>0, <1>24, TopFrame DEF MonsterHit
  <2>3. start.op \notin Attacks /\ erase.op \notin Attacks /\ CalmFrame.op \notin Attacks
    BY DEF Start, EraseFrame, CalmFrame, Attacks
  <2> HIDE DEF start, erase, t
  <2>4. \A s : ~Some(fs, AttacksOf(s))
    <3>1. CASE Dead(t) /\ t \in ObjectsIn
      BY <2>3, <3>1 DEF Some, AttacksOf
    <3>2. CASE ~(Dead(t) /\ t \in ObjectsIn)
      BY <2>3, <3>2 DEF Some, AttacksOf
    <3> QED BY <3>1, <3>2
  <2> HIDE DEF fs
  <2> QED BY <1>13, <2>1, <2>2, <2>4
<1>25. CASE Tick \/ UNCHANGED vars
  BY <1>0, <1>25 DEF Tick, vars, RoomInv, FateInv
<1> QED
  BY <1>4, <1>5, <1>6, <1>8, <1>9, <1>10, <1>11, <1>12, <1>15, <1>16, <1>17, <1>19, <1>20,
     <1>21, <1>22, <1>23, <1>24, <1>25 DEF Next, Dispatch, Update, Unwind

\* The invariant of all calls and failures.
LEMMA RoomInvHolds == SafeSpec => []RoomInv
<1>1. Init => StackInv /\ FateInv
  BY SomeEmpty DEF Init, StackInv, FateInv
<1>2. TypeOK /\ NestInv /\ StackInv /\ FateInv <=> RoomInv
  BY DEF RoomInv
<1> QED BY <1>1, <1>2, StackStep, FateStep, TypeCorrect, NestInvHolds, PTL DEF SafeSpec

(***************************************************************************)
(* Whatever else fails, loops keep their iterators and no null room is     *)
(* followed until a send of a broadcast is reset at once: packets of the   *)
(* dead, sessions that disconnect in their handlers, receives that fail    *)
(* and batches that are lost do no such harm.                              *)
(***************************************************************************)
THEOREM OnlyResetsUndefine == SafeSpec => []StaysDefined
<1>1. RoomInv => StaysDefined
  BY DEF RoomInv, FateInv, Reset, StaysDefined
<1> QED BY <1>1, RoomInvHolds, PTL

(***************************************************************************)
(* Player::Attack finds its room both times, unless a loop of Broadcast    *)
(* has lost its iterator on the attacker before.                           *)
(***************************************************************************)
THEOREM AttackerAlwaysStays == SafeSpec => []AttackerStays
<1>1. RoomInv => AttackerStays
  <2> SUFFICES ASSUME RoomInv, NEW op \in Attacks, Top(op), fate = "defined"
               PROVE  Head(stack).id \in players
    BY DEF AttackerStays, Attacks
  <2>1. /\ stack # << >> /\ stack \in Seq(Frames) /\ Head(stack) \in Frames
        /\ Head(stack).op = op
    BY TopFrame DEF RoomInv, TypeOK
  <2>2. Head(stack).id \in Sessions /\ Head(stack) \in AttacksOf(Head(stack).id)
    BY <2>1, FrameByOp DEF Attacks, AttacksOf, AttackFrames, AttackedFrames
  <2> QED BY <2>1, <2>2, SomeHead DEF RoomInv, FateInv
<1> QED BY <1>1, RoomInvHolds, PTL

-----------------------------------------------------------------------------
(***************************************************************************)
(* Leaving.  A player whose session has disconnected was not greeted, or   *)
(* the call that erases it is under way.                                   *)
(***************************************************************************)
Greeted(s) == <<s, "greeting">> \notin failed

LeaveInv ==
  \A s \in players : connected[s] \/ ~Greeted(s) \/ Some(stack, {EraseFrame(s)})

\* Calls that erase nobody yet, and take on whom they disconnect.
LEMMA LeaveBeneath ==
  ASSUME TypeOK, LeaveInv, stack # << >>, NEW fs \in Seq(Frames),
         stack' = fs \o Tail(stack), failed \subseteq failed', players' \subseteq players,
         \A s \in players' : Head(stack) # EraseFrame(s),
         \A s \in players' : connected[s] => connected'[s] \/ Some(fs, {EraseFrame(s)})
  PROVE  LeaveInv'
<1>1. ASSUME NEW s \in players', ~connected'[s], Greeted(s)'
      PROVE  Some(stack', {EraseFrame(s)})
  <2>1. Some(stack', {EraseFrame(s)}) <=>
          Some(fs, {EraseFrame(s)}) \/ Some(Tail(stack), {EraseFrame(s)})
    BY SomeCalls DEF TypeOK
  <2>2. CASE connected[s]
    BY <1>1, <2>1, <2>2
  <2>3. CASE ~connected[s]
    <3>1. Some(stack, {EraseFrame(s)})
      BY <1>1, <2>3 DEF LeaveInv, Greeted
    <3>2. Some(Tail(stack), {EraseFrame(s)})
      BY <1>1, <3>1, SomeHead DEF TypeOK
    <3> QED BY <2>1, <3>2
  <2> QED BY <2>2, <2>3
<1> QED BY <1>1 DEF LeaveInv, EraseFrame

\* Calls of functions that neither erase nor disconnect.
LEMMA StayCalls ==
  ASSUME TypeOK, LeaveInv, NEW op, Top(op), op # "erase", NEW fs \in Seq(Frames),
         stack' = fs \o Tail(stack), failed \subseteq failed',
         UNCHANGED <<connected, players>>
  PROVE  LeaveInv'
<1>1. stack # << >> /\ Head(stack).op = op
  BY TopFrame
<1>2. \A s : EraseFrame(s).op = "erase"
  BY DEF EraseFrame
<1>3. \A s \in players' : Head(stack) # EraseFrame(s)
  BY <1>1, <1>2
<1> QED BY <1>1, <1>3, LeaveBeneath

\* The removal of a player that disconnects.
LEMMA RemoveErases ==
  ASSUME NEW p \in Sessions, p \in players PROVE Some(RemoveObject(p), {EraseFrame(p)})
<1>1. RemoveObject(p) = <<Start(Remove(p)), EraseFrame(p)>>
  BY RemoveObjectIs, IdFacts DEF ObjectsIn
<1>2. /\ 2 \in DOMAIN <<Start(Remove(p)), EraseFrame(p)>>
      /\ <<Start(Remove(p)), EraseFrame(p)>>[2] = EraseFrame(p)
  OBVIOUS
<1> QED BY <1>1, <1>2 DEF Some

\* No step leaves a disconnected player in the room without a call that erases it.
LEMMA LeaveStep == TypeOK /\ LeaveInv /\ [Next]_vars => LeaveInv'
<1> SUFFICES ASSUME TypeOK, LeaveInv, [Next]_vars PROVE LeaveInv'
  OBVIOUS
<1> USE DEF access, objects, ai
<1>0. failed \subseteq failed'
  BY FailedGrows
<1>1. ASSUME stack = << >> PROVE \A s \in players : connected[s] \/ ~Greeted(s)
  BY <1>1, SomeEmpty DEF LeaveInv
<1>2. ASSUME stack = << >>, UNCHANGED <<connected, players>> PROVE LeaveInv'
  BY <1>0, <1>1, <1>2 DEF LeaveInv, Greeted
<1>3. ASSUME NEW s \in Sessions, EnterRoom(s) PROVE LeaveInv'
  <2>1. stack = << >> /\ players' = players \cup {s}
    BY <1>3 DEF EnterRoom, Dispatched, Quiet
  <2>2. \/ connected' = [connected EXCEPT ![s] = TRUE]
        \/ <<s, "greeting">> \in failed' /\ UNCHANGED connected
    BY <1>3 DEF EnterRoom, Fails
  <2>3. players \subseteq Sessions
    BY RoomFacts
  <2>4. CASE connected' = [connected EXCEPT ![s] = TRUE]
    <3>1. connected'[s] /\ \A t \in players : t # s => connected'[t] = connected[t]
      BY <2>3, <2>4 DEF TypeOK
    <3>2. \A t \in players : connected'[t] \/ ~Greeted(t)'
      BY <1>0, <1>1, <2>1, <3>1 DEF Greeted
    <3> QED BY <2>1, <3>1, <3>2 DEF LeaveInv
  <2>5. CASE <<s, "greeting">> \in failed' /\ UNCHANGED connected
    <3>1. ~Greeted(s)' /\ \A t \in players : connected'[t] \/ ~Greeted(t)'
      BY <1>0, <1>1, <2>1, <2>5 DEF Greeted
    <3> QED BY <2>1, <3>1 DEF LeaveInv
  <2> QED BY <2>2, <2>4, <2>5
<1>4. ASSUME NEW s \in Sessions, LeaveRoom(s) PROVE LeaveInv'
  <2>1. /\ stack = << >> /\ UNCHANGED players /\ stack' = RemoveObject(s)
        /\ connected' = [connected EXCEPT ![s] = FALSE]
    BY <1>4 DEF LeaveRoom, Disconnect, Dispatched, Quiet
  <2>2. \A t \in players : t # s => connected'[t] \/ ~Greeted(t)'
    BY <1>0, <1>1, <2>1 DEF Greeted, TypeOK
  <2>3. s \in players => Some(stack', {EraseFrame(s)})
    BY <2>1, RemoveErases
  <2> QED BY <2>1, <2>2, <2>3 DEF LeaveInv, EraseFrame
<1>5. ASSUME NEW s \in Sessions, SendDone(s) \/ SendDoneLoses(s) \/ Receive(s)
      PROVE  LeaveInv'
  BY <1>2, <1>5 DEF SendDone, SendDoneLoses, Receive, Dispatched, Quiet
<1>6. CASE DispatchNothing \/ Update
  BY <1>2, <1>6 DEF DispatchNothing, Update, UpdateNothing, UpdateIdle, UpdateMove,
     UpdateSkill, Dispatched, Updating, Quiet
<1>7. CASE Packet
  <2>1. PICK s \in Sessions, c \in Cells, skill \in BOOLEAN :
          \E front \in InFront(c) : HandleCMove(s, c, skill, front)
    BY <1>7 DEF Packet
  <2>2. PICK front \in InFront(c) : HandleCMove(s, c, skill, front)
    BY <2>1
  <2>3. PICK fs \in Seq(Frames) : stack' = fs \o Tail(stack)
    BY <2>2, HandleCMoveCalls
  <2>4. UNCHANGED <<connected, players>> /\ Top("parse")
    BY <2>2 DEF HandleCMove
  <2> QED BY <1>0, <2>3, <2>4, StayCalls
<1>8. CASE ParseEnds
  <2>1. Head(stack) \in SessionFrames /\ Top("parse")
    BY <1>8, TopFrame, FrameByOp DEF ParseEnds
  <2>2. [Head(stack) EXCEPT !.op = "listen"] \in SessionFrames
    BY <2>1 DEF SessionFrames
  <2>3. <<[Head(stack) EXCEPT !.op = "listen"]>> \in Seq(Frames)
    BY <2>2 DEF Frames
  <2>4. UNCHANGED <<connected, players>>
    BY <1>8 DEF ParseEnds
  <2> QED BY <1>0, <1>8, <2>1, <2>3, <2>4, StayCalls DEF ParseEnds, Calls
<1>9. ASSUME NEW p \in Sessions, SendTo(p) \/ SendLoses(p) PROVE LeaveInv'
  <2>1. Top("broadcast") /\ UNCHANGED <<connected, players>>
    BY <1>9 DEF SendTo, SendLoses
  <2> QED BY <1>0, <1>9, <2>1, BroadcastMoves, StayCalls DEF SendTo, SendLoses, Calls
<1>10. ASSUME NEW p \in Sessions, SendFails(p) PROVE LeaveInv'
  <2> DEFINE next == [Head(stack) EXCEPT !.on = p]
             fs == <<Start(Remove(p)), EraseFrame(p), next>>
  <2>1. /\ Top("broadcast") /\ UNCHANGED players
        /\ connected' = [connected EXCEPT ![p] = FALSE]
    BY <1>10 DEF SendFails, Disconnect
  <2>2. fs \in Seq(Frames) /\ stack' = fs \o Tail(stack)
    BY <1>10, SendFailsCalls
  <2>3. Some(fs, {EraseFrame(p)})
    <3>1. 2 \in DOMAIN fs /\ fs[2] = EraseFrame(p)
      OBVIOUS
    <3> HIDE DEF fs
    <3> QED BY <3>1 DEF Some
  <2> HIDE DEF fs
  <2>4. stack # << >> /\ \A s \in players' : Head(stack) # EraseFrame(s)
    BY <2>1, TopFrame DEF EraseFrame
  <2>5. \A s \in players' : connected[s] => connected'[s] \/ Some(fs, {EraseFrame(s)})
    <3>1. \A s \in players' : s # p => connected'[s] = connected[s]
      BY <2>1, RoomFacts DEF TypeOK
    <3> QED BY <2>3, <3>1
  <2> QED BY <1>0, <2>1, <2>2, <2>4, <2>5, LeaveBeneath
<1>11. CASE Listen \/ ListenDeafens \/ BroadcastEnds \/ MonsterCalms
  <2>1. PICK op \in {"listen", "broadcast", "calm"} : Top(op)
    BY <1>11 DEF Listen, ListenDeafens, BroadcastEnds, MonsterCalms
  <2>2. UNCHANGED <<connected, players>> /\ Return
    BY <1>11 DEF Listen, ListenDeafens, BroadcastEnds, MonsterCalms
  <2>3. << >> \in Seq(Frames) /\ stack' = << >> \o Tail(stack)
    BY <2>1, <2>2, TopFrame DEF Return
  <2> QED BY <1>0, <2>1, <2>2, <2>3, StayCalls
<1>12. CASE ListenFails
  <2> DEFINE p == Head(stack).id
  <2>1. /\ Top("listen") /\ UNCHANGED players
        /\ connected' = [connected EXCEPT ![p] = FALSE]
    BY <1>12 DEF ListenFails, Disconnect
  <2>2. /\ p \in Sessions /\ RemoveObject(p) \in Seq(Frames)
        /\ stack' = RemoveObject(p) \o Tail(stack)
    BY <1>12, ListenFailsCalls
  <2>3. stack # << >> /\ \A s \in players' : Head(stack) # EraseFrame(s)
    BY <2>1, TopFrame DEF EraseFrame
  <2> HIDE DEF p
  <2>4. \A s \in players' :
          connected[s] => connected'[s] \/ Some(RemoveObject(p), {EraseFrame(s)})
    <3>1. \A s \in players' : s # p => connected'[s] = connected[s]
      BY <2>1, <2>2, RoomFacts DEF TypeOK
    <3>2. p \in players' => Some(RemoveObject(p), {EraseFrame(p)})
      BY <2>1, <2>2, RemoveErases
    <3> QED BY <3>1, <3>2
  <2> QED BY <1>0, <2>1, <2>2, <2>3, <2>4, LeaveBeneath
<1>13. CASE Erase
  <2>1. << >> \in Seq(Frames) /\ Top("erase") /\ stack # << >>
    BY <1>13, TopFrame DEF Erase
  <2>2. /\ players' = players \ {Head(stack).id} /\ UNCHANGED connected
        /\ stack' = << >> \o Tail(stack)
    BY <1>13, <2>1, TopFrame DEF Erase, Return
  <2>3. \A s \in players' : Head(stack) # EraseFrame(s)
    BY <2>2 DEF EraseFrame
  <2> QED BY <1>0, <2>1, <2>2, <2>3, LeaveBeneath
<1>14. CASE PlayerAttacks
  <2>1. Top("attack") /\ UNCHANGED <<connected, players>>
    BY <1>14 DEF PlayerAttacks, Crash
  <2>2. << >> \in Seq(Frames) /\ << >> \o Tail(stack) = Tail(stack)
    BY <2>1, TopFrame
  <2>3. PICK fs \in Seq(Frames) : stack' = fs \o Tail(stack)
    BY <1>14, <2>2, PlayerAttacksCalls
  <2> QED BY <1>0, <2>1, <2>3, StayCalls
<1>15. CASE PlayerAttacked
  <2>1. Top("attacked") /\ UNCHANGED <<connected, players>>
    BY <1>15, PlayerAttackedCalls DEF PlayerAttacked
  <2>2. << >> \in Seq(Frames) /\ << >> \o Tail(stack) = Tail(stack)
        /\ RemoveObject(Monster) \in Seq(Frames)
    BY <2>1, TopFrame, RemoveObjectIs, IdFacts
  <2>3. PICK fs \in Seq(Frames) : stack' = fs \o Tail(stack)
    BY <1>15, <2>2, PlayerAttackedCalls
  <2> QED BY <1>0, <2>1, <2>3, StayCalls
<1>16. CASE MonsterHit
  <2>1. Top("hit") /\ UNCHANGED <<connected, players>>
    BY <1>16 DEF MonsterHit
  <2>2. PICK fs \in Seq(Frames) : stack' = fs \o Tail(stack)
    BY <1>16, MonsterHitCalls
  <2> QED BY <1>0, <2>1, <2>2, StayCalls
<1>17. CASE Tick \/ UNCHANGED vars
  BY <1>17 DEF Tick, vars, LeaveInv, Greeted
<1> QED
  BY <1>3, <1>4, <1>5, <1>6, <1>7, <1>8, <1>9, <1>10, <1>11, <1>12, <1>13, <1>14, <1>15,
     <1>16, <1>17 DEF Next, Dispatch, Unwind

(***************************************************************************)
(* OnDisconnected does put the player out of the game, whenever and        *)
(* wherever the session disconnects: between handlers no player in the     *)
(* room is disconnected but one that OnConnected put in after a send of    *)
(* its greetings had already been reset.                                   *)
(***************************************************************************)
THEOREM TheDisconnectedLeave ==
  SafeSpec => [](Quiet => \A s \in players : connected[s] \/ <<s, "greeting">> \in failed)
<1>1. Init => LeaveInv
  BY DEF Init, LeaveInv
<1>2. LeaveInv /\ Quiet => \A s \in players : connected[s] \/ <<s, "greeting">> \in failed
  BY SomeEmpty DEF LeaveInv, Quiet, Greeted
<1> QED BY <1>1, <1>2, LeaveStep, TypeCorrect, PTL DEF SafeSpec

=============================================================================
