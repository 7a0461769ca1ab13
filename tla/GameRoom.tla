------------------------------ MODULE GameRoom ------------------------------
(***************************************************************************)
(* The game room of GameServer: who is in it, what every client has been   *)
(* told, how a monster hunts, and how all of this re-enters itself.        *)
(*                                                                         *)
(* One thread runs everything (GameServer.cpp): a completion dispatched    *)
(* into a handler, then GameRoom::Update, for ever.  Nothing interleaves   *)
(* with a handler, but a handler interleaves with itself: Broadcast calls  *)
(* Session::Send, a send that fails at once calls Disconnect, Disconnect   *)
(* calls LeaveRoom, and that removes a player and broadcasts again while   *)
(* the outer loop still stands on the removed player.  The call stack is   *)
(* therefore a variable, and each of its frames is what a function still   *)
(* has to do after the call it is in returns.                              *)
(*                                                                         *)
(* Sessions are numbered in the order of their connecting; the player of   *)
(* session s has object id s, the monster of GameRoom::Init has Monster.   *)
(* A view is what a client knows from the messages queued for it.          *)
(***************************************************************************)
EXTENDS Integers, Sequences

CONSTANTS
  MaxSessions,     \* bound on the sessions that ever connect
  Cells,           \* walkable cells <<x, y>> of the tile map
  PlayerSpawn, MonsterSpawn,
  PlayerHp, PlayerAttack, MonsterHp, MonsterAttack,
  Delay,           \* clock ticks in 1000 ms
  MaxDepth,        \* FindPath's default maxDepth
  EarlyFailures    \* WSASend and WSARecv may fail at once, not by a completion

ASSUME BoundsAssumption ==
  /\ MaxSessions \in Nat /\ Delay \in Nat \ {0} /\ MaxDepth \in Nat
  /\ EarlyFailures \in BOOLEAN

ASSUME CellsAssumption ==
  /\ Cells \subseteq Int \X Int
  /\ PlayerSpawn \in Cells /\ MonsterSpawn \in Cells

ASSUME HpAssumption ==
  /\ PlayerHp \in Nat \ {0} /\ MonsterHp \in Nat \ {0}
  /\ PlayerAttack \in Nat /\ MonsterAttack \in Nat

Sessions == 1..MaxSessions
Monster == 0
Ids == Sessions \cup {Monster}

NoOne == -1
Unseen == << >>

VARIABLES
  opened,     \* number of sessions that have connected
  connected,  \* Session::_connected, by session
  failed,     \* what has failed at once, as pairs <<session, kind of failure>>
  sending,    \* sessions with a WSASend outstanding: Send only queues
  players,    \* keys of GameRoom::_players
  monsters,   \* keys of GameRoom::_monsters
  pos, hp,    \* info of every object, by id
  mstate,     \* the monster's info.state
  target,     \* the monster's _target
  waitMove,   \* ticks until _waitMoveUntil
  waitAttack, \* ticks until _waitAttackUntil
  view,       \* by session, where its client has been told every object is
  turn,       \* which half of the worker loop comes next
  stack,      \* calls under way, innermost first
  fate        \* "defined", "undefined" or "crashed"

access == <<opened, connected, failed, sending>>
objects == <<players, monsters, pos, hp>>
ai == <<mstate, target, waitMove, waitAttack>>
vars == <<opened, connected, failed, sending, players, monsters, pos, hp, mstate,
          target, waitMove, waitAttack, view, turn, stack, fate>>

Nothing == [o \in Ids |-> Unseen]

Init ==
  /\ opened = 0
  /\ connected = [s \in Sessions |-> FALSE]
  /\ failed = {}
  /\ sending = {}
  /\ players = {}
  /\ monsters = {Monster}
  /\ pos = [o \in Ids |-> IF o = Monster THEN MonsterSpawn ELSE PlayerSpawn]
  /\ hp = [o \in Ids |-> IF o = Monster THEN MonsterHp ELSE PlayerHp]
  /\ mstate = "IDLE"
  /\ target = NoOne
  /\ waitMove = 0
  /\ waitAttack = 0
  /\ view = [s \in Sessions |-> Nothing]
  /\ turn = "dispatch"
  /\ stack = << >>
  /\ fate = "defined"

-----------------------------------------------------------------------------
(* Geometry.                                                               *)

Abs(n) == IF n < 0 THEN -n ELSE n
Steps(a, b) == Abs(a[1] - b[1]) + Abs(a[2] - b[2])
LengthSquared(a, b) == (a[1] - b[1]) * (a[1] - b[1]) + (a[2] - b[2]) * (a[2] - b[2])
InFront(c) == {<<c[1], c[2] - 1>>, <<c[1], c[2] + 1>>,
             <<c[1] - 1, c[2]>>, <<c[1] + 1, c[2]>>}

ObjectsIn == players \cup monsters

\* GetGameObjectAt: players in the order of their ids, then monsters.
PlayersAt(c) == {p \in players : pos[p] = c}
MonstersAt(c) == {m \in monsters : pos[m] = c}

CanGo(c) == c \in Cells /\ PlayersAt(c) = {} /\ MonstersAt(c) = {}

\* FindClosestPlayer: the first in id order among those at the least distance.
Closest(c) ==
  {p \in players :
     \A q \in players \ {p} :
        \/ LengthSquared(c, pos[p]) < LengthSquared(c, pos[q])
        \/ LengthSquared(c, pos[p]) = LengthSquared(c, pos[q]) /\ p < q}

ClosestPlayer(c) == IF players = {} THEN NoOne ELSE CHOOSE p \in Closest(c) : TRUE

\* The second cell of a path FindPath may return; how it chooses is not here.
FirstSteps(src, dest) ==
  IF Steps(src, dest) < MaxDepth /\ src # dest
  THEN {c \in InFront(src) : CanGo(c)}
  ELSE {}

-----------------------------------------------------------------------------
(* Messages and frames.                                                    *)

\* at gives the cells of the objects whose info the message carries.
Add(o, c) == [kind |-> "add", at |-> [x \in {o} |-> c]]
Remove(o) == [kind |-> "remove", at |-> [x \in {o} |-> Unseen]]
Move(o, c) == [kind |-> "move", at |-> [x \in {o} |-> c]]
Attack(t, a) == [kind |-> "attack", at |-> [x \in {t, a} |-> pos[x]]]

\* The client adds and removes on demand, and moves what it knows.
Apply(v, m) ==
  [o \in Ids |->
     IF o \in DOMAIN m.at /\ (m.kind \in {"add", "remove"} \/ v[o] # Unseen)
     THEN m.at[o] ELSE v[o]]

\* Broadcast: the range-for over _players, standing on element `on`.
Broadcast(m) == <<[op |-> "broadcast", msg |-> m, on |-> NoOne]>>

\* ERROR for checking: the departure is not broadcast.
RemoveObjectSilently(o) ==
  IF o \in ObjectsIn THEN <<[op |-> "erase", id |-> o]>> ELSE << >>

\* RemoveObject after FindObject found the object: Broadcast, then erase.
RemoveObject(o) ==
  IF o \in ObjectsIn
  THEN Broadcast(Remove(o)) \o <<[op |-> "erase", id |-> o]>>
  ELSE << >>

\* ERROR for checking: hp 0 passes for alive.
BelowZero(o) == hp[o] < 0

Dead(o) == hp[o] <= 0

Running == fate # "crashed"
Quiet == stack = << >> /\ Running

Top(op) == stack # << >> /\ Running /\ Head(stack).op = op

\* The innermost call returns to its caller, or calls further.
Return == stack' = Tail(stack)
Calls(frames) == stack' = frames \o Tail(stack)

-----------------------------------------------------------------------------
(* Handlers of dispatched completions.                                     *)

Dispatched == Quiet /\ turn = "dispatch" /\ turn' = "update"

\* ERROR for checking: S_MyPlayer without the object list.
MyPlayerOnly(s) == [o \in Ids |-> IF o = s THEN pos[o] ELSE Unseen]

\* What the new client knows after S_MyPlayer and the S_AddObject of all objects.
ObjectList(s) == [o \in Ids |-> IF o \in ObjectsIn \cup {s} THEN pos[o] ELSE Unseen]

Lossy(s) == <<s, "loss">> \in failed
Deaf(s) == <<s, "deaf">> \in failed

\* A call that fails at once.  HandleError disconnects after a reset and does
\* nothing after any other error.  The kinds tell a reset among the greetings of
\* OnConnected, a reset of a send in Broadcast, a batch lost to another error, and
\* a receive lost to one, after which nothing is received any more.
Fails(s, kind) ==
  /\ EarlyFailures
  /\ failed' = failed \cup {<<s, kind>>}

\* ERROR for checking: _connected is stored FALSE but not tested.
DisconnectAgain(s) ==
  /\ connected' = [connected EXCEPT ![s] = FALSE]
  /\ sending' = sending \ {s}
  /\ view' = [view EXCEPT ![s] = Nothing]

\* Session::Disconnect up to its call of LeaveRoom.
Disconnect(s) ==
  /\ connected[s]
  /\ connected' = [connected EXCEPT ![s] = FALSE]
  /\ sending' = sending \ {s}
  /\ view' = [view EXCEPT ![s] = Nothing]

\* GameSession::OnConnected, then RegisterRecv.  A send that succeeds lets the
\* later ones queue.  Any of the three sends to the new session may be reset and
\* disconnect it before it is in the room, and AddObject puts its player in all
\* the same; or the first ones, or all, are lost to other errors.
EnterRoom(s) ==
  /\ Dispatched
  /\ opened = s - 1
  /\ opened' = s
  /\ \/ /\ connected' = [connected EXCEPT ![s] = TRUE]
        /\ sending' = sending \cup {s}
        /\ view' = [view EXCEPT ![s] = ObjectList(s)]
        /\ UNCHANGED failed
     \/ /\ Fails(s, "greeting")
        /\ UNCHANGED <<connected, sending, view>>
     \/ /\ Fails(s, "loss")
        /\ connected' = [connected EXCEPT ![s] = TRUE]
        /\ sending' \in {sending, sending \cup {s}}
        /\ UNCHANGED view
  /\ players' = players \cup {s}
  /\ stack' = Broadcast(Add(s, pos[s])) \o <<[op |-> "listen", id |-> s]>>
  /\ UNCHANGED <<monsters, pos, hp, fate>> /\ UNCHANGED ai

\* A completion says that the connection is over, or the next WSASend does that
\* ProcessSend posts.  Without a receive only a send can tell.
LeaveRoom(s) ==
  /\ Dispatched
  /\ Deaf(s) => s \in sending
  /\ Disconnect(s)
  /\ stack' = RemoveObject(s)
  /\ UNCHANGED <<opened, failed, fate>> /\ UNCHANGED objects /\ UNCHANGED ai

\* ProcessSend with nothing queued: the next Send calls WSASend again.
SendDone(s) ==
  /\ Dispatched
  /\ s \in sending
  /\ sending' = sending \ {s}
  /\ UNCHANGED <<opened, connected, failed, view, stack, fate>>
  /\ UNCHANGED objects /\ UNCHANGED ai

\* ProcessSend with messages queued, and the next WSASend fails but for a reset:
\* the batch is lost and the flag goes down.
SendDoneLoses(s) ==
  /\ Dispatched
  /\ s \in sending
  /\ sending' = sending \ {s}
  /\ Fails(s, "loss")
  /\ view' = [view EXCEPT ![s] = Nothing]
  /\ UNCHANGED <<opened, connected, stack, fate>>
  /\ UNCHANGED objects /\ UNCHANGED ai

\* ProcessRecv enters the loop of PacketSession::OnRecv.
Receive(s) ==
  /\ Dispatched
  /\ connected[s]
  /\ ~Deaf(s)
  /\ stack' = <<[op |-> "parse", id |-> s]>>
  /\ UNCHANGED <<view, fate>>
  /\ UNCHANGED access /\ UNCHANGED objects /\ UNCHANGED ai

\* Dispatch(0) times out, or the completion does not concern the room.
DispatchNothing ==
  /\ Dispatched
  /\ UNCHANGED <<view, stack, fate>>
  /\ UNCHANGED access /\ UNCHANGED objects /\ UNCHANGED ai

-----------------------------------------------------------------------------
(* GameRoom::Update.  Player::Update does nothing.                         *)

Updating == Quiet /\ turn = "update" /\ turn' = "dispatch"

UpdateNothing ==
  /\ Updating
  /\ monsters = {}
  /\ UNCHANGED <<view, stack, fate>>
  /\ UNCHANGED access /\ UNCHANGED objects /\ UNCHANGED ai

\* Monster::UpdateIdle.  The decision is about the target of the last update;
\* _target is already the closest player for the next one.
UpdateIdle ==
  /\ Updating
  /\ Monster \in monsters
  /\ mstate = "IDLE"
  /\ target' = ClosestPlayer(pos[Monster])
  /\ LET here == pos[Monster]
         known == target \in players
         near == known /\ Steps(pos[target], here) = 1
     IN  \/ \* attack
            /\ near /\ waitAttack = 0
            /\ mstate' = "SKILL"
            /\ waitAttack' = Delay
            /\ stack' = Broadcast(Move(Monster, here))
            /\ UNCHANGED <<waitMove, pos>>
         \/ \* one step of the path
            /\ known /\ ~near
            /\ \E c \in FirstSteps(here, pos[target]) :
                 /\ pos' = [pos EXCEPT ![Monster] = c]
                 /\ stack' = Broadcast(Move(Monster, c))
            /\ mstate' = "MOVE"
            /\ waitMove' = Delay
            /\ UNCHANGED waitAttack
         \/ \* no target, an attack not due, or a path that leads nowhere
            /\ near => waitAttack > 0
            /\ UNCHANGED <<mstate, waitMove, waitAttack, pos, stack>>
  /\ UNCHANGED <<players, monsters, hp, view, fate>> /\ UNCHANGED access

UpdateMove ==
  /\ Updating
  /\ Monster \in monsters
  /\ mstate = "MOVE"
  /\ mstate' = IF waitMove > 0 THEN "MOVE" ELSE "IDLE"
  /\ UNCHANGED <<target, waitMove, waitAttack, view, stack, fate>>
  /\ UNCHANGED access /\ UNCHANGED objects

\* Monster::UpdateSkill returns when the target is gone, and stays in SKILL.
UpdateSkill ==
  /\ Updating
  /\ Monster \in monsters
  /\ mstate = "SKILL"
  /\ \/ /\ target \notin players
        /\ UNCHANGED <<hp, stack>>
     \/ /\ target \in players
        /\ hp' = [hp EXCEPT ![target] = @ - MonsterAttack]
        /\ stack' = Broadcast(Attack(target, Monster))
                      \o <<[op |-> "hit", id |-> target]>>
  /\ UNCHANGED <<players, monsters, pos, view, fate>>
  /\ UNCHANGED access /\ UNCHANGED ai

-----------------------------------------------------------------------------
(* The calls under way.                                                    *)

\* ERROR for checking: the object is not looked up first.
HandleCMoveUnchecked(s, c, skill, front) ==
  /\ Top("parse")
  /\ Head(stack).id = s
  /\ pos' = [pos EXCEPT ![s] = c]
  /\ Calls((IF skill THEN <<[op |-> "attack", id |-> s, front |-> front]>>
                     ELSE << >>) \o <<Head(stack)>>)
  /\ UNCHANGED <<players, monsters, hp, view, turn, fate>>
  /\ UNCHANGED access /\ UNCHANGED ai

\* Handle_C_Move for the sender's own player, which may claim any cell.  The
\* loop goes on with the next packet even if this one disconnects the session.
HandleCMove(s, c, skill, front) ==
  /\ Top("parse")
  /\ Head(stack).id = s
  /\ s \in players
  /\ pos' = [pos EXCEPT ![s] = c]
  /\ Calls(Broadcast(Move(s, c))
             \o (IF skill THEN <<[op |-> "attack", id |-> s, front |-> front]>>
                 ELSE << >>)
             \o <<Head(stack)>>)
  /\ UNCHANGED <<players, monsters, hp, view, turn, fate>>
  /\ UNCHANGED access /\ UNCHANGED ai

\* No whole packet is left; what follows is RegisterRecv.
ParseEnds ==
  /\ Top("parse")
  /\ Calls(<<[Head(stack) EXCEPT !.op = "listen"]>>)
  /\ UNCHANGED <<view, turn, fate>>
  /\ UNCHANGED access /\ UNCHANGED objects /\ UNCHANGED ai

\* RegisterRecv posts the next WSARecv, or the session is closed already.
Listen ==
  /\ Top("listen")
  /\ Return
  /\ UNCHANGED <<view, turn, fate>>
  /\ UNCHANGED access /\ UNCHANGED objects /\ UNCHANGED ai

\* WSARecv finds the connection reset: HandleError, Disconnect, LeaveRoom.
ListenFails ==
  /\ Top("listen")
  /\ EarlyFailures
  /\ LET s == Head(stack).id
     IN  /\ Disconnect(s)
         /\ Calls(RemoveObject(s))
  /\ UNCHANGED <<opened, failed, turn, fate>>
  /\ UNCHANGED objects /\ UNCHANGED ai

\* WSARecv fails but for a reset: the session stays connected without a receive.
ListenDeafens ==
  /\ Top("listen")
  /\ LET s == Head(stack).id
     IN  connected[s] /\ Fails(s, "deaf")
  /\ Return
  /\ UNCHANGED <<opened, connected, sending, view, turn, fate>>
  /\ UNCHANGED objects /\ UNCHANGED ai

\* The range-for of Broadcast advances: the players not yet visited.
Ahead == {p \in players : p > Head(stack).on}

BroadcastEnds ==
  /\ Top("broadcast")
  /\ Ahead = {}
  /\ Return
  /\ UNCHANGED <<view, turn, fate>>
  /\ UNCHANGED access /\ UNCHANGED objects /\ UNCHANGED ai

\* ERROR for checking: Send drops the message while a WSASend is outstanding.
SendToIdle(p) ==
  /\ Top("broadcast")
  /\ p \in Ahead /\ \A q \in Ahead : p <= q
  /\ Calls(<<[Head(stack) EXCEPT !.on = p]>>)
  /\ IF connected[p] /\ p \notin sending
     THEN /\ view' = [view EXCEPT ![p] = Apply(@, Head(stack).msg)]
          /\ sending' = sending \cup {p}
     ELSE UNCHANGED <<view, sending>>
  /\ UNCHANGED <<opened, connected, failed, turn, fate>>
  /\ UNCHANGED objects /\ UNCHANGED ai

\* ERROR for checking: RegisterSend does not test IsConnected.
SendToClosed(p) ==
  /\ Top("broadcast")
  /\ p \in Ahead /\ \A q \in Ahead : p <= q
  /\ Calls(<<[Head(stack) EXCEPT !.on = p]>>)
  /\ view' = [view EXCEPT ![p] = Apply(@, Head(stack).msg)]
  /\ sending' = sending \cup {p}
  /\ UNCHANGED <<opened, connected, failed, turn, fate>>
  /\ UNCHANGED objects /\ UNCHANGED ai

\* Session::Send on the next player; a closed session ignores it.  What a client
\* knows is followed until it has lost a batch.
SendTo(p) ==
  /\ Top("broadcast")
  /\ p \in Ahead /\ \A q \in Ahead : p <= q
  /\ Calls(<<[Head(stack) EXCEPT !.on = p]>>)
  /\ IF connected[p]
     THEN /\ view' = IF Lossy(p) THEN view
                     ELSE [view EXCEPT ![p] = Apply(@, Head(stack).msg)]
          /\ sending' = sending \cup {p}
     ELSE UNCHANGED <<view, sending>>
  /\ UNCHANGED <<opened, connected, failed, turn, fate>>
  /\ UNCHANGED objects /\ UNCHANGED ai

\* WSASend is reset at once: HandleError, Disconnect, OnDisconnected, LeaveRoom.
SendFails(p) ==
  /\ Top("broadcast")
  /\ p \in Ahead /\ \A q \in Ahead : p <= q
  /\ p \notin sending
  /\ Fails(p, "reset")
  /\ Disconnect(p)
  /\ Calls(RemoveObject(p) \o <<[Head(stack) EXCEPT !.on = p]>>)
  /\ UNCHANGED <<opened, turn, fate>>
  /\ UNCHANGED objects /\ UNCHANGED ai

\* WSASend fails but for a reset: the message is lost, the session stays, and the
\* flag is down again for the next Send.
SendLoses(p) ==
  /\ Top("broadcast")
  /\ p \in Ahead /\ \A q \in Ahead : p <= q
  /\ connected[p]
  /\ p \notin sending
  /\ Fails(p, "loss")
  /\ view' = [view EXCEPT ![p] = Nothing]
  /\ Calls(<<[Head(stack) EXCEPT !.on = p]>>)
  /\ UNCHANGED <<opened, connected, sending, turn, fate>>
  /\ UNCHANGED objects /\ UNCHANGED ai

\* ERROR for checking: Broadcast loops over a copy of _players, and so loses no
\* iterator; nothing else is changed.
LostOfUpdate(o) == o = Monster /\ turn = "dispatch"

\* A range-for that stands on the erased element has lost its iterator: a loop of
\* Broadcast over _players, or Update's over _monsters.
IteratorLost(o) ==
  \/ \E i \in 2..Len(stack) : stack[i].op = "broadcast" /\ stack[i].on = o
  \/ o = Monster /\ turn = "dispatch"

\* _players.erase or _monsters.erase, and room = nullptr.  What follows a lost
\* iterator is undefined: the loop finds the successor in freed memory, or the
\* program dies.  The cell of a gone player and the view of its client no longer
\* matter.
Erase ==
  /\ Top("erase")
  /\ LET o == Head(stack).id
     IN  /\ players' = players \ {o}
         /\ monsters' = monsters \ {o}
         /\ pos' = IF o = Monster THEN pos ELSE [pos EXCEPT ![o] = PlayerSpawn]
         /\ view' = IF o = Monster THEN view ELSE [view EXCEPT ![o] = Nothing]
         /\ fate' \in IF IteratorLost(o) THEN {"undefined", "crashed"} ELSE {fate}
  /\ Return
  /\ UNCHANGED <<hp, turn>> /\ UNCHANGED access /\ UNCHANGED ai

\* A null room is followed.
Crash ==
  /\ fate' = "crashed"
  /\ Return
  /\ UNCHANGED <<view, turn>>
  /\ UNCHANGED access /\ UNCHANGED objects /\ UNCHANGED ai

\* Player::Attack on the monster in front, unless a player stands there.  The
\* player's room is null when its own send has failed in the Broadcast before.
PlayerAttacks ==
  /\ Top("attack")
  /\ LET p == Head(stack).id
         front == Head(stack).front
     IN  \/ /\ p \notin players
            /\ Crash
         \/ /\ p \in players
            /\ PlayersAt(front) # {} \/ MonstersAt(front) = {}
            /\ Return
            /\ UNCHANGED <<view, turn, fate>>
            /\ UNCHANGED access /\ UNCHANGED objects /\ UNCHANGED ai
         \/ /\ p \in players
            /\ PlayersAt(front) = {}
            /\ \E m \in MonstersAt(front) :
                 /\ hp' = [hp EXCEPT ![m] = @ - PlayerAttack]
                 /\ Calls(Broadcast(Attack(m, p))
                            \o <<[op |-> "attacked", id |-> p, prey |-> m]>>)
            /\ UNCHANGED <<players, monsters, pos, view, turn, fate>>
            /\ UNCHANGED access /\ UNCHANGED ai

\* The rest of Player::Attack: room->RemoveObject of a monster without hp, where
\* the broadcast of the attack may have set the player's room to null.
PlayerAttacked ==
  /\ Top("attacked")
  /\ LET m == Head(stack).prey
     IN  IF Head(stack).id \notin players /\ Dead(m)
         THEN Crash
         ELSE /\ Calls(IF Dead(m) THEN RemoveObject(m) ELSE << >>)
              /\ UNCHANGED <<view, turn, fate>>
              /\ UNCHANGED access /\ UNCHANGED objects /\ UNCHANGED ai

\* The rest of Monster::UpdateSkill after BroadcastAttack.
MonsterHit ==
  /\ Top("hit")
  /\ LET t == Head(stack).id
     IN  /\ target' = IF Dead(t) THEN NoOne ELSE target
         /\ Calls((IF Dead(t) THEN RemoveObject(t) ELSE << >>)
                    \o <<[op |-> "calm"]>>)
  /\ UNCHANGED <<mstate, waitMove, waitAttack, view, turn, fate>>
  /\ UNCHANGED access /\ UNCHANGED objects

\* ERROR for checking: UpdateSkill ends without SetState(IDLE).
MonsterRages ==
  /\ Top("calm")
  /\ Return
  /\ UNCHANGED <<view, turn, fate>>
  /\ UNCHANGED access /\ UNCHANGED objects /\ UNCHANGED ai

\* SetState(IDLE), which is not broadcast.
MonsterCalms ==
  /\ Top("calm")
  /\ mstate' = "IDLE"
  /\ Return
  /\ UNCHANGED <<target, waitMove, waitAttack, view, turn, fate>>
  /\ UNCHANGED access /\ UNCHANGED objects

-----------------------------------------------------------------------------
(* The world outside.                                                      *)

\* GetTickCount64 advances.
Tick ==
  /\ Quiet
  /\ waitMove > 0 \/ waitAttack > 0
  /\ waitMove' = IF waitMove > 0 THEN waitMove - 1 ELSE 0
  /\ waitAttack' = IF waitAttack > 0 THEN waitAttack - 1 ELSE 0
  /\ UNCHANGED <<mstate, target, view, turn, stack, fate>>
  /\ UNCHANGED access /\ UNCHANGED objects

-----------------------------------------------------------------------------
Dispatch ==
  \/ \E s \in Sessions :
       EnterRoom(s) \/ LeaveRoom(s) \/ SendDone(s) \/ SendDoneLoses(s) \/ Receive(s)
  \/ DispatchNothing

Packet ==
  \E s \in Sessions, c \in Cells, skill \in BOOLEAN :
    \E front \in InFront(c) : HandleCMove(s, c, skill, front)

Update == UpdateNothing \/ UpdateIdle \/ UpdateMove \/ UpdateSkill

Unwind ==
  \/ \E p \in Sessions : SendTo(p) \/ SendFails(p) \/ SendLoses(p)
  \/ Listen \/ ListenFails \/ ListenDeafens \/ BroadcastEnds \/ Erase
  \/ PlayerAttacks \/ PlayerAttacked \/ MonsterHit \/ MonsterCalms

Next == Dispatch \/ Packet \/ ParseEnds \/ Update \/ Unwind \/ Tick

\* The worker loop never stops.  Neither does the clock, whatever the handlers
\* do; its ticks are seen between handlers, hence the strong fairness.  One
\* receive holds finitely many packets, so its loop ends however they interrupt
\* it.
Fairness ==
  /\ WF_vars(Dispatch)
  /\ WF_vars(Update)
  /\ WF_vars(Unwind)
  /\ SF_vars(ParseEnds)
  /\ SF_vars(Tick)

SafeSpec == Init /\ [][Next]_vars

Spec == SafeSpec /\ Fairness
-----------------------------------------------------------------------------
(* Safety.                                                                 *)

Kinds == {"add", "remove", "move", "attack"}
Shown == Cells \cup {Unseen}
Messages == [kind : Kinds, at : UNION {[D -> Shown] : D \in SUBSET Ids}]

\* The calls, by function.
BroadcastFrames == [op : {"broadcast"}, msg : Messages, on : Sessions \cup {NoOne}]
SessionFrames == [op : {"parse", "listen", "hit"}, id : Sessions]
EraseFrames == [op : {"erase"}, id : Ids]
AttackFrames == [op : {"attack"}, id : Sessions, front : Int \X Int]
AttackedFrames == [op : {"attacked"}, id : Sessions, prey : {Monster}]
CalmFrames == [op : {"calm"}]

Frames == BroadcastFrames \cup SessionFrames \cup EraseFrames \cup AttackFrames
            \cup AttackedFrames \cup CalmFrames

\* Every variable has its type, every call on the stack the shape of its
\* function's, and a WSASend is outstanding only of a session that is connected.
TypeOK ==
  /\ opened \in 0..MaxSessions
  /\ connected \in [Sessions -> BOOLEAN]
  /\ failed \subseteq Sessions \X {"greeting", "reset", "loss", "deaf"}
  /\ sending \subseteq {s \in Sessions : connected[s]}
  /\ players \subseteq 1..opened
  /\ monsters \subseteq {Monster}
  /\ pos \in [Ids -> Cells]
  /\ hp \in [Ids -> Int]
  /\ mstate \in {"IDLE", "MOVE", "SKILL"}
  /\ target \in Sessions \cup {NoOne}
  /\ waitMove \in 0..Delay
  /\ waitAttack \in 0..Delay
  /\ view \in [Sessions -> [Ids -> Shown]]
  /\ turn \in {"dispatch", "update"}
  /\ stack \in Seq(Frames)
  /\ fate \in {"defined", "undefined", "crashed"}

\* Between handlers every client in the room has been told of exactly the
\* objects in the room, each where it is: the object list of EnterRoom, the
\* broadcasts of AddObject, RemoveObject and the moves add up.
ViewsAgree ==
  stack = << >> /\ fate = "defined" =>
    \A s \in players :
      connected[s] =>
        view[s] = [o \in Ids |-> IF o \in ObjectsIn THEN pos[o] ELSE Unseen]

\* No client hears of a move or an attack of an object before its S_AddObject
\* or after its S_RemoveObject, as long as no iterator has been lost.
Told(p) ==
  /\ Top("broadcast")
  /\ Len(stack') = Len(stack) /\ Head(stack').on = p
  /\ connected'[p]

MovesAreOfKnownObjects ==
  [][\A p \in Sessions :
       /\ Told(p) /\ fate = "defined"
       /\ Head(stack).msg.kind \in {"move", "attack"}
       => \A o \in DOMAIN Head(stack).msg.at : view[p][o] # Unseen]_vars

\* Whoever has lost all hp is gone before the next handler runs, whatever
\* disconnects happened inside the handler that dealt the blow.
NobodyDead == Quiet => \A o \in ObjectsIn : hp[o] > 0

\* Player::Attack uses its room twice and tests it never.  The attacker is there
\* both times unless a loop of Broadcast has lost its iterator before: only the
\* attacker's own send can take it out of the room between, and the loop that made
\* that send stands on it.  A null room is never the first thing that goes wrong.
AttackerStays ==
  (Top("attack") \/ Top("attacked")) /\ fate = "defined" => Head(stack).id \in players

\* Broadcast, Send, Disconnect, LeaveRoom, RemoveObject and Broadcast recurse.
\* Every broadcast that is interrupted stands on a session that has disconnected
\* in it, and no two stand on the same: _connected, exchanged in Disconnect, ends
\* the recursion after as many rounds as there are sessions.
Interrupted == {i \in 2..Len(stack) : stack[i].op = "broadcast"}

NestingEnds ==
  \A i, j \in Interrupted :
    /\ stack[i].on \in Sessions /\ ~connected[stack[i].on]
    /\ i # j => stack[i].on # stack[j].on

\* No iterator is lost and no null room is used but by a send of a broadcast that
\* is reset at once: completions that report an end, receives reset at once, resets
\* among the greetings and every other error leave all loops and rooms intact.
StaysDefined == fate # "defined" => \E s \in Sessions : <<s, "reset">> \in failed

\* The room and its clients are replicas of one truth, in the middle of every
\* broadcast as well: an object is where the room has it until its removal begins,
\* no handler changes the room again before every client has heard of the last
\* change, each hears of it in one step, and a client that has begun to leave is
\* not one of them any more.
Removing == {o \in Ids : \E i \in DOMAIN stack : stack[i].op = "erase" /\ stack[i].id = o}
Staying == ObjectsIn \ Removing

Truth == [o \in Ids |-> IF o \in Staying THEN pos[o] ELSE Unseen]
Copies == [s \in Sessions |-> IF s \in Staying THEN view[s] ELSE Nothing]

Replicated ==
  INSTANCE Replicas WITH
    Objects <- Ids, Clients <- Sessions, Resident <- {Monster},
    Places <- Cells, Nowhere <- Unseen,
    truth <- Truth, copies <- Copies

ImplementsReplicas == Replicated!SafeSpec

\* A session that has disconnected is out of the game (GameSession::
\* OnDisconnected: "leave the game").
DisconnectedHasLeft == Quiet => \A s \in players : connected[s]

-----------------------------------------------------------------------------
(* Liveness.                                                               *)

\* An attack ends, whether its target survives it or is killed and removed, as
\* long as the target does not disconnect.
AttackEnds ==
  \A p \in Sessions :
    mstate = "SKILL" /\ target = p
      ~> mstate = "IDLE" \/ ~connected[p] \/ monsters = {}

\* A monster goes on hunting (Monster::UpdateIdle: "keep moving toward the
\* closest enemy"): it does not stay in one attack for ever beside a player.
HuntGoesOn == []<>(mstate # "SKILL" \/ players = {})
=============================================================================
