-------------------------- MODULE ReplicaRoomProofs --------------------------
(***************************************************************************)
(* GameRoom implements Replicas: as long as failures are reported by       *)
(* completions only, the room and its clients are replicas of one truth,   *)
(* for any number of sessions, any map and any hp.  The invariants of      *)
(* CalmRoomProofs give the refinement: Shared is the truth, and a client   *)
(* whose copy differs from it stands ahead of the broadcast.               *)
(***************************************************************************)
EXTENDS CalmRoomProofs

-----------------------------------------------------------------------------
(* The refinement mapping, in the terms of CalmRoomProofs.                 *)

\* The frames that erase.
ErasedBy(r) == {o \in Ids : \E i \in DOMAIN r : r[i].op = "erase" /\ r[i].id = o}

\* The last call of a stack erases nobody, except the only one.
LEMMA ErasingTwo ==
  /\ ErasedBy(<< >>) = {}
  /\ \A f : ErasedBy(<<f>>) = {o \in Ids : f.op = "erase" /\ f.id = o}
  /\ \A f, g : g.op # "erase" => ErasedBy(<<f, g>>) = ErasedBy(<<f>>)
<1>1. ErasedBy(<< >>) = {}
  BY DEF ErasedBy
<1>2. ASSUME NEW f PROVE ErasedBy(<<f>>) = {o \in Ids : f.op = "erase" /\ f.id = o}
  <2>1. DOMAIN <<f>> = {1} /\ <<f>>[1] = f
    OBVIOUS
  <2> QED BY <2>1 DEF ErasedBy
<1>3. ASSUME NEW f, NEW g, g.op # "erase" PROVE ErasedBy(<<f, g>>) = ErasedBy(<<f>>)
  <2>1. DOMAIN <<f, g>> = {1, 2} /\ <<f, g>>[1] = f /\ <<f, g>>[2] = g
    OBVIOUS
  <2>2. ErasedBy(<<f, g>>) = {o \in Ids : f.op = "erase" /\ f.id = o}
    BY <1>3, <2>1 DEF ErasedBy
  <2> QED BY <1>2, <2>2
<1> QED BY <1>1, <1>2, <1>3

\* A broadcast above the calls r erases nobody either.
LEMMA ErasingBeneath ==
  ASSUME NEW f \in Frames, NEW t \in Seq(Frames), f.op # "erase"
  PROVE  ErasedBy(<<f>> \o t) = ErasedBy(t)
<1> DEFINE u == <<f>> \o t
<1>1. Len(t) \in Nat /\ DOMAIN t = 1..Len(t)
  BY LenProperties
<1>2. /\ DOMAIN u = 1..(1 + Len(t)) /\ u[1] = f
      /\ \A i \in 1..Len(t) : u[i + 1] = t[i]
  <2>1. <<f>> \in Seq(Frames) /\ Len(<<f>>) = 1 /\ <<f>>[1] = f
    OBVIOUS
  <2>2. /\ u \in Seq(Frames) /\ Len(u) = 1 + Len(t)
        /\ \A i \in 1..(1 + Len(t)) : u[i] = IF i <= 1 THEN <<f>>[i] ELSE t[i - 1]
    BY <2>1, ConcatProperties
  <2>3. DOMAIN u = 1..(1 + Len(t))
    BY <2>2, LenProperties
  <2>4. \A i \in 1..Len(t) : i + 1 \in 1..(1 + Len(t)) /\ ~(i + 1 <= 1) /\ (i + 1) - 1 = i
    BY <1>1
  <2> QED BY <1>1, <2>1, <2>2, <2>3, <2>4
<1> HIDE DEF u
<1>3. ASSUME NEW o, NEW i \in DOMAIN u, u[i].op = "erase", u[i].id = o
      PROVE  \E j \in DOMAIN t : t[j].op = "erase" /\ t[j].id = o
  <2>1. i # 1
    BY <1>2, <1>3
  <2>2. i - 1 \in 1..Len(t) /\ (i - 1) + 1 = i
    BY <1>1, <1>2, <2>1
  <2> QED BY <1>1, <1>2, <1>3, <2>2
<1>4. ASSUME NEW o, NEW j \in DOMAIN t, t[j].op = "erase", t[j].id = o
      PROVE  \E i \in DOMAIN u : u[i].op = "erase" /\ u[i].id = o
  <2>1. j + 1 \in DOMAIN u
    BY <1>1, <1>2
  <2> QED BY <1>1, <1>2, <1>4, <2>1
<1>5. ErasedBy(u) = ErasedBy(t)
  BY <1>3, <1>4 DEF ErasedBy
<1> QED BY <1>5 DEF u

\* Beneath a broadcast at most the first call erases.
LEMMA ErasingShape ==
  ASSUME NEW r, Shape(r)
  PROVE  ErasedBy(r) = LeavingOf(r)
<1>1. /\ \A s \in Sessions :
           /\ Listening(s).op # "erase" /\ Hitting(s).op # "erase" /\ Parsing(s).op # "erase"
           /\ Attacked(s).op # "erase" /\ \A front : Attacking(s, front).op # "erase"
      /\ CalmFrame.op # "erase"
      /\ \A o : EraseFrame(o).op = "erase" /\ EraseFrame(o).id = o
  BY DEF Listening, Hitting, Parsing, Attacked, Attacking, CalmFrame, EraseFrame
<1>2. ASSUME NEW f, f.op # "erase"
      PROVE  ErasedBy(<<f>>) = {} /\ LeavingOf(<<f>>) = {}
             /\ \A g : g.op # "erase" => ErasedBy(<<f, g>>) = {} /\ LeavingOf(<<f, g>>) = {}
  BY <1>2, ErasingTwo, HeadFacts DEF LeavingOf
<1>3. ASSUME NEW o \in Ids
      PROVE  /\ ErasedBy(<<EraseFrame(o)>>) = {o} /\ LeavingOf(<<EraseFrame(o)>>) = {o}
             /\ \A g : g.op # "erase" => /\ ErasedBy(<<EraseFrame(o), g>>) = {o}
                                         /\ LeavingOf(<<EraseFrame(o), g>>) = {o}
  <2>1. ErasedBy(<<EraseFrame(o)>>) = {o}
    BY <1>1, ErasingTwo
  <2>2. \A g : Head(<<EraseFrame(o), g>>) = EraseFrame(o) /\ <<EraseFrame(o), g>> # << >>
    BY HeadFacts
  <2> QED BY <1>1, <2>1, <2>2, ErasingTwo, HeadFacts DEF LeavingOf
<1>4. CASE r = << >>
  BY <1>4, ErasingTwo, Resting
<1>5. CASE r = <<CalmFrame>>
  BY <1>1, <1>2, <1>5
<1>6. ASSUME NEW s \in Sessions
      PROVE  /\ ErasedBy(<<Listening(s)>>) = LeavingOf(<<Listening(s)>>)
             /\ ErasedBy(<<Hitting(s)>>) = LeavingOf(<<Hitting(s)>>)
             /\ ErasedBy(<<Parsing(s)>>) = LeavingOf(<<Parsing(s)>>)
             /\ ErasedBy(<<Attacked(s), Parsing(s)>>) = LeavingOf(<<Attacked(s), Parsing(s)>>)
             /\ \A front :
                  LET t == <<Attacking(s, front), Parsing(s)>> IN ErasedBy(t) = LeavingOf(t)
  BY <1>1, <1>2
<1>7. ASSUME NEW s \in Sessions
      PROVE  /\ ErasedBy(<<EraseFrame(s)>>) = LeavingOf(<<EraseFrame(s)>>)
             /\ LET t == <<EraseFrame(s), CalmFrame>> IN ErasedBy(t) = LeavingOf(t)
             /\ LET t == <<EraseFrame(Monster), Parsing(s)>> IN ErasedBy(t) = LeavingOf(t)
  BY <1>1, <1>3, IdFacts
<1>8. CASE \E s \in Sessions : r \in {<<Listening(s)>>, <<Hitting(s)>>, <<EraseFrame(s)>>,
                                      <<EraseFrame(s), CalmFrame>>}
  <2>1. PICK s \in Sessions : r \in {<<Listening(s)>>, <<Hitting(s)>>, <<EraseFrame(s)>>,
                                     <<EraseFrame(s), CalmFrame>>}
    BY <1>8
  <2> QED BY <1>6, <1>7, <2>1
<1>9. CASE InReceive(r)
  <2>1. PICK s \in Sessions :
          \/ r \in {<<Parsing(s)>>, <<Attacked(s), Parsing(s)>>,
                    <<EraseFrame(Monster), Parsing(s)>>}
          \/ \E front \in Int \X Int : r = <<Attacking(s, front), Parsing(s)>>
    BY <1>9 DEF InReceive
  <2> QED BY <1>6, <1>7, <2>1
<1> QED BY <1>4, <1>5, <1>8, <1>9 DEF Shape

\* In a calm room the truth of the refinement is the shared view.
LEMMA TruthIsShared ==
  TypeOK /\ CalmInv => /\ Removing = Leaving /\ Staying = ObjectsIn \ Leaving
                        /\ Truth = Shared
<1> SUFFICES ASSUME TypeOK, CalmInv
             PROVE  Removing = Leaving
  BY DEF Staying, Truth, Shared
<1>1. Removing = ErasedBy(stack)
  BY DEF Removing, ErasedBy
<1>2. ErasedBy(stack) = ErasedBy(Rest)
  <2>1. CASE ~BroadcastOn
    BY <2>1 DEF Rest, RestOf, BroadcastOn
  <2>2. CASE BroadcastOn
    <3>1. stack # << >> /\ Head(stack).op = "broadcast" /\ Rest = Tail(stack)
      BY <2>2 DEF Rest, RestOf, BroadcastOn, IsOn
    <3>2. Head(stack) \in Frames /\ Tail(stack) \in Seq(Frames)
          /\ stack = <<Head(stack)>> \o Tail(stack)
      BY <3>1 DEF TypeOK
    <3> QED BY <3>1, <3>2, ErasingBeneath
  <2> QED BY <2>1, <2>2
<1> QED BY <1>1, <1>2, ErasingShape DEF CalmInv, Leaving

\* The objects that are there, for the abstract room and for this one.
LEMMA ThereIsStaying ==
  ASSUME TypeOK, CalmInv
  PROVE  /\ Replicated!There = Staying
         /\ Staying \cap Sessions = players \ Leaving
         /\ \A s \in Sessions : s \in Staying => connected[s]
<1>1. Truth = Shared /\ Staying = ObjectsIn \ Leaving
  BY TruthIsShared
<1>2. Replicated!There = Staying
  BY <1>1, RoomFacts DEF Replicated!There, Shared, TypeOK
<1>3. Staying \cap Sessions = players \ Leaving
  BY <1>1, RoomFacts, IdFacts DEF ObjectsIn, TypeOK
<1> QED BY <1>2, <1>3 DEF CalmInv

\* Outside a broadcast no client is behind.
LEMMA NobodyBehind ==
  ASSUME TypeOK, CalmInv, ViewInv, ~BroadcastOn
  PROVE  Replicated!Behind = {}
<1>1. ASSUME NEW s \in Sessions, s \in Staying PROVE Copies[s] = Truth
  <2>1. s \in players /\ connected[s]
    BY <1>1, ThereIsStaying
  <2> QED BY <1>1, <2>1, ViewIsShared, TruthIsShared DEF Copies
<1> QED BY <1>1, ThereIsStaying DEF Replicated!Behind

\* A step that the truth and its copies do not notice.
LEMMA Unnoticed ==
  ASSUME TypeOK, TypeOK', CalmInv, CalmInv', Leaving' = Leaving,
         UNCHANGED <<players, monsters, pos, view>>
  PROVE  UNCHANGED Replicated!rvars
<1>1. /\ Truth = Shared /\ Staying = ObjectsIn \ Leaving
      /\ (Truth = Shared /\ Staying = ObjectsIn \ Leaving)'
  BY TruthIsShared, PTL
<1>2. Truth' = Truth
  BY <1>1, SharedSame
<1>3. Copies' = Copies
  BY <1>1 DEF Copies, ObjectsIn
<1> QED BY <1>2, <1>3 DEF Replicated!rvars

\* A step to the broadcast of a move.
LEMMA Moves ==
  ASSUME TypeOK, TypeOK', CalmInv, CalmInv', ViewInv, ~BroadcastOn,
         Leaving = {}, Leaving' = {}, NEW o \in Ids, NEW c \in Cells, o \in ObjectsIn,
         pos' = [pos EXCEPT ![o] = c], UNCHANGED <<players, monsters, view>>
  PROVE  Replicated!Relocate(o)
<1>1. /\ Truth = Shared /\ Staying = ObjectsIn \ Leaving
      /\ (Truth = Shared /\ Staying = ObjectsIn \ Leaving)'
  BY TruthIsShared, PTL
<1>2. Truth' = [Truth EXCEPT ![o] = c]
  BY <1>1 DEF Shared, ObjectsIn, TypeOK
<1>3. Copies' = Copies
  BY <1>1 DEF Copies, ObjectsIn
<1>4. o \in Replicated!There /\ Replicated!Behind = {}
  BY <1>1, ThereIsStaying, NobodyBehind
<1> QED BY <1>2, <1>3, <1>4 DEF Replicated!Relocate

\* A step to the broadcast of a removal.
LEMMA Departs ==
  ASSUME TypeOK, TypeOK', CalmInv, CalmInv', ViewInv, ~BroadcastOn,
         NEW o \in Ids, Leaving = {}, Leaving' = {o}, o \in ObjectsIn,
         UNCHANGED <<players, monsters, pos>>,
         \A p \in Sessions : p # o => view'[p] = view[p]
  PROVE  Replicated!Go(o)
<1>1. /\ Truth = Shared /\ Staying = ObjectsIn \ Leaving
      /\ (Truth = Shared /\ Staying = ObjectsIn \ Leaving)'
  BY TruthIsShared, PTL
<1>2. Staying' = Staying \ {o} /\ o \in Staying
  BY <1>1 DEF ObjectsIn
<1>3. Truth' = [Truth EXCEPT ![o] = Unseen]
  BY <1>1, <1>2 DEF Shared
<1>4. Copies' = [s \in Sessions |-> IF s = o THEN Nothing ELSE Copies[s]]
  BY <1>2 DEF Copies
<1>5. o \in Replicated!There /\ Replicated!Behind = {}
  BY <1>2, ThereIsStaying, NobodyBehind
<1>6. Replicated!Blank = Nothing
  BY DEF Replicated!Blank, Nothing
<1> QED BY <1>3, <1>4, <1>5, <1>6 DEF Replicated!Go

-----------------------------------------------------------------------------
(* The steps.                                                              *)

\* EnterRoom: the new client begins with the truth, its own player included.
LEMMA EnterComes ==
  ASSUME ~EarlyFailures, TypeOK, TypeOK', CalmInv, CalmInv', ViewInv,
         NEW s \in Sessions, EnterRoom(s)
  PROVE  Replicated!Come(s)
<1>1. /\ stack = << >> /\ UNCHANGED <<monsters, pos>> /\ opened = s - 1
      /\ players' = players \cup {s} /\ view' = [view EXCEPT ![s] = ObjectList(s)]
  BY DEF EnterRoom, Fails, Dispatched, Quiet, access, objects
<1>2. Leaving = {} /\ ~BroadcastOn /\ Leaving' = {}
  BY <1>1, ViewQuiet, EnterCalls, Resting DEF Calling, Leaving
<1>3. s \in Ids /\ s \notin ObjectsIn /\ pos[s] \in Cells
  BY <1>1, IdFacts, RoomFacts DEF TypeOK, ObjectsIn
<1>4. /\ Truth = Shared /\ Staying = ObjectsIn \ Leaving
      /\ (Truth = Shared /\ Staying = ObjectsIn \ Leaving)'
  BY TruthIsShared, PTL
<1>5. Staying' = Staying \cup {s} /\ s \notin Staying
  BY <1>1, <1>2, <1>3, <1>4 DEF ObjectsIn
<1>6. Truth' = [Truth EXCEPT ![s] = pos[s]]
  BY <1>1, <1>2, <1>3, <1>4, <1>5 DEF Shared, ObjectsIn
<1>7. ObjectList(s) = Truth'
  BY <1>1, <1>2, <1>4 DEF Shared, ObjectList, ObjectsIn
<1>8. view'[s] = ObjectList(s) /\ \A p \in Sessions : p # s => view'[p] = view[p]
  BY <1>1 DEF TypeOK
<1>9. Copies' = [Copies EXCEPT ![s] = Truth']
  BY <1>5, <1>7, <1>8 DEF Copies
<1>10. s \notin Replicated!There /\ Replicated!Behind = {}
  BY <1>2, <1>5, ThereIsStaying, NobodyBehind
<1> QED BY <1>3, <1>6, <1>9, <1>10 DEF Replicated!Come

\* LeaveRoom: the client of a removed player is told nothing more.
LEMMA LeaveGoes ==
  ASSUME TypeOK, TypeOK', CalmInv, CalmInv', ViewInv, NEW s \in Sessions, LeaveRoom(s)
  PROVE  Replicated!Go(s) \/ UNCHANGED Replicated!rvars
<1>1. /\ stack = << >> /\ UNCHANGED <<players, monsters, pos>> /\ s \in Ids
      /\ view' = [view EXCEPT ![s] = Nothing]
  BY IdFacts DEF LeaveRoom, Disconnect, Dispatched, Quiet, objects
<1>2. ~BroadcastOn /\ Leaving = {} /\ \A p \in Sessions : p # s => view'[p] = view[p]
  BY <1>1, ViewQuiet DEF TypeOK
<1>3. CASE s \in ObjectsIn /\ Calling(Remove(s), <<EraseFrame(s)>>)
  <2>1. Leaving' = {s}
    BY <1>3, Resting DEF Calling, Leaving
  <2> QED BY <1>1, <1>2, <1>3, <2>1, Departs
<1>4. CASE s \notin ObjectsIn /\ GoingOn(<< >>)
  <2>1. Leaving' = Leaving
    BY <1>2, <1>4, Resting DEF GoingOn, Leaving
  <2>2. /\ Truth = Shared /\ Staying = ObjectsIn \ Leaving
        /\ (Truth = Shared /\ Staying = ObjectsIn \ Leaving)'
    BY TruthIsShared, PTL
  <2>3. Truth' = Truth
    BY <1>1, <2>1, <2>2, SharedSame
  <2>4. Copies' = Copies
    BY <1>1, <1>2, <1>4, <2>1, <2>2 DEF Copies, ObjectsIn
  <2> QED BY <2>3, <2>4 DEF Replicated!rvars
<1> QED BY <1>3, <1>4, LeaveCalls

\* A send of a broadcast: the player catches up, or had the message already.
LEMMA SendCatchesUp ==
  ASSUME TypeOK, TypeOK', CalmInv, CalmInv', ViewInv, NEW p \in Sessions, SendTo(p)
  PROVE  Replicated!CatchUp(p) \/ UNCHANGED Replicated!rvars
<1>1. BroadcastOn /\ Rest' = Rest
  BY VisitCalls
<1>2. /\ UNCHANGED <<players, monsters, pos>> /\ p \in players /\ p > Head(stack).on
      /\ view' = IF connected[p] THEN [view EXCEPT ![p] = Apply(@, Head(stack).msg)]
                 ELSE view
  BY DEF SendTo, Ahead, Lossy, CalmInv, objects
<1>3. /\ Truth = Shared /\ Staying = ObjectsIn \ Leaving
      /\ (Truth = Shared /\ Staying = ObjectsIn \ Leaving)'
  BY TruthIsShared, PTL
<1>4. Truth' = Truth /\ Staying' = Staying
  BY <1>1, <1>2, <1>3, SharedSame DEF Leaving, ObjectsIn
<1>5. \A q \in Sessions : q # p => Copies'[q] = Copies[q]
  BY <1>2, <1>4 DEF Copies, TypeOK
<1>6. CASE p \notin Staying
  <2>1. Copies' = Copies
    BY <1>4, <1>5, <1>6 DEF Copies
  <2> QED BY <1>4, <2>1 DEF Replicated!rvars
<1>7. CASE p \in Staying
  <2>1. connected[p] /\ view'[p] = Apply(view[p], Head(stack).msg)
    BY <1>2, <1>7, ThereIsStaying DEF TypeOK
  <2>2. view'[p] = Shared
    BY <1>1, <1>2, <2>1 DEF ViewInv, Heard
  <2>3. Copies'[p] = Truth
    BY <1>3, <1>4, <1>7, <2>2 DEF Copies
  <2>4. Copies' = [Copies EXCEPT ![p] = Truth]
    BY <1>5, <2>3 DEF Copies
  <2>5. CASE Copies[p] = Truth
    <3>1. Copies' = Copies
      BY <2>4, <2>5 DEF Copies
    <3> QED BY <1>4, <3>1 DEF Replicated!rvars
  <2>6. CASE Copies[p] # Truth
    <3>1. p \in Replicated!Behind
      BY <1>7, <2>6, ThereIsStaying DEF Replicated!Behind
    <3> QED BY <1>4, <2>4, <3>1 DEF Replicated!CatchUp
  <2> QED BY <2>5, <2>6
<1> QED BY <1>6, <1>7

\* The erase: who is erased has gone before.
LEMMA EraseUnnoticed ==
  ASSUME TypeOK, TypeOK', CalmInv, CalmInv', Erase
  PROVE  UNCHANGED Replicated!rvars
<1> DEFINE o == Head(stack).id
<1>1. Leaving = {o} /\ Leaving' = {}
  BY EraseCalls, Resting DEF GoingOn, Leaving
<1>2. /\ players' = players \ {o} /\ monsters' = monsters \ {o}
      /\ pos' = IF o = Monster THEN pos ELSE [pos EXCEPT ![o] = PlayerSpawn]
      /\ view' = IF o = Monster THEN view ELSE [view EXCEPT ![o] = Nothing]
  BY DEF Erase
<1> HIDE DEF o
<1>3. /\ Truth = Shared /\ Staying = ObjectsIn \ Leaving
      /\ (Truth = Shared /\ Staying = ObjectsIn \ Leaving)'
  BY TruthIsShared, PTL
<1>4. Staying' = Staying /\ o \notin Staying
  BY <1>1, <1>2, <1>3 DEF ObjectsIn
<1>5. /\ \A x \in Ids : x # o => pos'[x] = pos[x]
      /\ \A s \in Sessions : s # o => view'[s] = view[s]
  BY <1>2 DEF TypeOK
<1>6. Truth' = Truth
  BY <1>4, <1>5 DEF Truth
<1>7. Copies' = Copies
  BY <1>4, <1>5 DEF Copies
<1> QED BY <1>6, <1>7 DEF Replicated!rvars

\* Every step of a calm room is a step of the replicas, or none.
LEMMA ReplicaStep ==
  ASSUME ~EarlyFailures, TypeOK, TypeOK', CalmInv, CalmInv', AttackerStays, ViewInv,
         [Next]_vars
  PROVE  [Replicated!Next]_(Replicated!rvars)
<1> USE DEF access, objects, ai
<1>1. ASSUME NEW s \in Sessions, EnterRoom(s) PROVE Replicated!Next
  BY <1>1, EnterComes DEF Replicated!Next
<1>2. ASSUME NEW s \in Sessions, LeaveRoom(s) PROVE [Replicated!Next]_(Replicated!rvars)
  BY <1>2, LeaveGoes, IdFacts DEF Replicated!Next
<1>3. ASSUME \/ DispatchNothing \/ UpdateNothing \/ UpdateMove \/ Tick
             \/ \E s \in Sessions : SendDone(s) \/ Receive(s)
      PROVE  UNCHANGED Replicated!rvars
  <2>1. /\ stack = << >>
        /\ \/ stack' = << >>
           \/ \E s \in Sessions : stack' = <<Parsing(s)>>
        /\ UNCHANGED <<players, monsters, pos, view>>
    BY <1>3 DEF DispatchNothing, UpdateNothing, UpdateMove, Tick, SendDone, Receive,
       Dispatched, Updating, Quiet, Parsing
  <2>2. \E r : GoingOn(r) /\ LeavingOf(r) = {}
    BY <2>1, GoingOnWith, Resting
  <2>3. Leaving = {} /\ Leaving' = {}
    BY <2>1, <2>2, ViewQuiet DEF GoingOn, Leaving
  <2> QED BY <2>1, <2>3, Unnoticed
<1>4. CASE UpdateIdle
  <2>1. /\ Monster \in ObjectsIn /\ Monster \in Ids /\ stack = << >>
        /\ UNCHANGED <<players, monsters, view>>
    BY <1>4, IdleCalls, IdFacts DEF UpdateIdle, ObjectsIn
  <2>2. ~BroadcastOn /\ Leaving = {} /\ Leaving' = {}
    BY <1>4, <2>1, ViewQuiet, IdleCalls, Resting DEF GoingOn, Calling, Leaving
  <2>3. CASE pos' = pos
    BY <2>1, <2>2, <2>3, Unnoticed
  <2>4. ASSUME NEW c \in Cells, pos' = [pos EXCEPT ![Monster] = c]
        PROVE  Replicated!Next
    BY <2>1, <2>2, <2>4, Moves DEF Replicated!Next
  <2> QED BY <1>4, <2>3, <2>4, IdleCalls
<1>5. CASE UpdateSkill
  <2>1. stack = << >> /\ UNCHANGED <<players, monsters, pos, view>>
    BY <1>5, SkillCalls DEF UpdateSkill
  <2>2. Leaving' = {}
    <3>1. CASE GoingOn(<< >>)
      BY <3>1, Resting DEF GoingOn, Leaving
    <3>2. CASE target \in players /\ Calling(Attack(target, Monster), <<Hitting(target)>>)
      BY <3>2, Resting, RoomFacts DEF Calling, Leaving, TypeOK
    <3> QED BY <1>5, <3>1, <3>2, SkillCalls
  <2> QED BY <2>1, <2>2, ViewQuiet, Unnoticed
<1>6. CASE Packet
  <2>1. PICK s \in Sessions, c \in Cells, skill \in BOOLEAN :
          \E front \in InFront(c) : HandleCMove(s, c, skill, front)
    BY <1>6 DEF Packet
  <2>2. PICK front \in InFront(c) : HandleCMove(s, c, skill, front)
    BY <2>1
  <2>3. /\ UNCHANGED <<players, monsters, view>> /\ s \in ObjectsIn /\ s \in Ids
        /\ pos' = [pos EXCEPT ![s] = c]
    BY <2>2, IdFacts DEF HandleCMove, ObjectsIn
  <2>4. /\ ~BroadcastOn /\ Rest = <<Parsing(s)>> /\ front \in Int \X Int
        /\ Rest' \in {<<Parsing(s)>>, <<Attacking(s, front), Parsing(s)>>}
    BY <2>2, MoveCalls DEF Calling
  <2>5. Leaving = {} /\ Leaving' = {}
    BY <2>4, Resting DEF Leaving
  <2> QED BY <2>3, <2>4, <2>5, Moves DEF Replicated!Next
<1>7. ASSUME NEW p \in Sessions, SendTo(p) PROVE [Replicated!Next]_(Replicated!rvars)
  BY <1>7, SendCatchesUp DEF Replicated!Next
<1>8. CASE BroadcastEnds
  <2>1. Leaving' = Leaving /\ UNCHANGED <<players, monsters, pos, view>>
    BY <1>8, ReturnCalls DEF BroadcastEnds, GoingOn, Leaving
  <2> QED BY <2>1, Unnoticed
<1>9. ASSUME NEW p \in Sessions, SendFails(p) \/ SendLoses(p) \/ SendDoneLoses(p) PROVE FALSE
  BY <1>9 DEF SendFails, SendLoses, SendDoneLoses, Fails
<1>10. CASE ListenFails \/ ListenDeafens
  BY <1>10 DEF ListenFails, ListenDeafens, Fails
<1>11. CASE Erase
  BY <1>11, EraseUnnoticed
<1>12. CASE PlayerAttacks
  <2>1. Leaving = {} /\ Leaving' = {} /\ UNCHANGED <<players, monsters, pos, view>>
    BY <1>12, AttackCalls, Resting DEF GoingOn, Calling, Leaving
  <2> QED BY <2>1, Unnoticed
<1>13. CASE PlayerAttacked
  <2>1. ~BroadcastOn /\ Leaving = {} /\ UNCHANGED <<players, monsters, pos, view>>
    BY <1>13, AttackedCalls
  <2>2. PICK s \in Sessions :
          \/ GoingOn(<<Parsing(s)>>)
          \/ /\ Monster \in ObjectsIn
             /\ Calling(Remove(Monster), <<EraseFrame(Monster), Parsing(s)>>)
    BY <1>13, AttackedCalls
  <2>3. CASE GoingOn(<<Parsing(s)>>)
    <3>1. Leaving' = {}
      BY <2>3, Resting DEF GoingOn, Leaving
    <3> QED BY <2>1, <3>1, Unnoticed
  <2>4. CASE /\ Monster \in ObjectsIn
             /\ Calling(Remove(Monster), <<EraseFrame(Monster), Parsing(s)>>)
    <3>1. Leaving' = {Monster}
      BY <2>4, Resting DEF Calling, Leaving
    <3> QED BY <2>1, <2>4, <3>1, Departs, IdFacts DEF Replicated!Next
  <2> QED BY <2>2, <2>3, <2>4
<1>14. CASE MonsterHit
  <2>1. ~BroadcastOn /\ Leaving = {} /\ UNCHANGED <<players, monsters, pos, view>>
    BY <1>14, HitCalls DEF MonsterHit
  <2>2. CASE GoingOn(<<CalmFrame>>)
    <3>1. Leaving' = {}
      BY <2>2, Resting DEF GoingOn, Leaving
    <3> QED BY <2>1, <3>1, Unnoticed
  <2>3. ASSUME NEW t \in Sessions, t \in ObjectsIn,
               Calling(Remove(t), <<EraseFrame(t), CalmFrame>>)
        PROVE  Replicated!Next
    <3>1. Leaving' = {t}
      BY <2>3, Resting DEF Calling, Leaving
    <3> QED BY <2>1, <2>3, <3>1, Departs, IdFacts DEF Replicated!Next
  <2> QED BY <1>14, <2>2, <2>3, HitCalls
<1>15. CASE Listen \/ MonsterCalms \/ ParseEnds
  <2>1. Leaving = {} /\ Leaving' = {} /\ UNCHANGED <<players, monsters, pos, view>>
    BY <1>15, LastCalls, Resting DEF Listen, MonsterCalms, ParseEnds, GoingOn, Leaving
  <2> QED BY <2>1, Unnoticed
<1>16. CASE UNCHANGED vars
  <2>1. UNCHANGED <<stack, players, monsters, pos, view>>
    BY <1>16 DEF vars
  <2> QED BY <2>1, Unnoticed DEF Leaving, Rest
<1> QED
  BY <1>1, <1>2, <1>3, <1>4, <1>5, <1>6, <1>7, <1>8, <1>9, <1>10, <1>11, <1>12, <1>13,
     <1>14, <1>15, <1>16 DEF Next, Dispatch, Update, Unwind

(***************************************************************************)
(* As long as failures are reported by completions only, the room and its  *)
(* clients behave as replicas of one truth, also in the middle of a        *)
(* broadcast: no handler changes the room before every client in it has    *)
(* heard of the last change, and each hears of a change in one step.       *)
(***************************************************************************)
THEOREM RoomIsReplicated ==
  ASSUME ~EarlyFailures
  PROVE  SafeSpec => ImplementsReplicas
<1>1. Init /\ TypeOK /\ CalmInv => Replicated!Init
  <2>1. SUFFICES ASSUME Init, TypeOK, CalmInv PROVE Replicated!Init
    OBVIOUS
  <2>2. ObjectsIn = {Monster} /\ Removing = {} /\ Monster \in Ids
    <3>1. DOMAIN stack = {}
      BY <2>1 DEF Init
    <3> QED BY <2>1, <3>1, IdFacts DEF Init, ObjectsIn, Removing
  <2>3. Staying = {Monster}
    BY <2>2 DEF Staying
  <2>4. Truth \in [Ids -> Cells \cup {Unseen}]
    BY <2>1, RoomFacts DEF Truth, TypeOK
  <2>5. Replicated!There = {Monster}
    BY <2>1, <2>3, ThereIsStaying
  <2>6. Copies = [s \in Sessions |-> Replicated!Blank]
    BY <2>3, IdFacts DEF Copies, Replicated!Blank, Nothing
  <2> QED BY <2>4, <2>5, <2>6 DEF Replicated!Init
<1>2. /\ TypeOK /\ TypeOK' /\ CalmInv /\ CalmInv' /\ AttackerStays /\ ViewInv /\ [Next]_vars
      => [Replicated!Next]_(Replicated!rvars)
  BY ReplicaStep
<1> QED
  BY <1>1, <1>2, CalmInvHolds, ViewInvHolds, AttackerAlwaysStays, PTL
     DEF SafeSpec, ImplementsReplicas, Replicated!SafeSpec
=============================================================================
