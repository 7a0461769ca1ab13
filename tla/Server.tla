------------------------------- MODULE Server -------------------------------
(***************************************************************************)
(* The server as a whole: main and ServerService::Start, the Listener's    *)
(* pool of accepts, the life of every Session from CreateSession to its    *)
(* destructor, and the four places that register sessions: Service,        *)
(* GameSessionManager, GameRoom and the events of outstanding operations.  *)
(*                                                                         *)
(* Sessions live by reference counting.  A session is its socket's number, *)
(* which the system gives again once the session is destroyed, and exists  *)
(* while something refers to it.  As in GameRoom, one thread runs every    *)
(* handler and the calls under way are a stack; held is the set of         *)
(* sessions a frame's locals and by-value parameters refer to.             *)
(***************************************************************************)
EXTENDS Integers, Sequences, FiniteSets

CONSTANTS
  Sockets,     \* the sockets the system has for sessions
  NoSession,   \* nullptr
  AcceptCount, \* the service's _maxSessionCount: how many accepts are posted
  AssertsRun   \* FALSE in a build with NDEBUG (GameServer.vcxproj, Release)

ASSUME ServerAssumption ==
  /\ IsFiniteSet(Sockets) /\ NoSession \notin Sockets
  /\ AcceptCount \in Nat \ {0}
  /\ AssertsRun \in BOOLEAN

Events == 1..AcceptCount       \* _acceptEvents
Ops == {"recv", "send", "disc"}

VARIABLES
  proc,          \* "starting", "running", "undefined", "crashed" or "aborted"
  listening,     \* the listener's socket listens
  armed,         \* accept events whose AcceptEx is outstanding
  acceptSession, \* the session of each accept event
  life,          \* by session: "fresh", "open" (_connected) or "closed"
  gone,          \* sessions whose peer has closed or reset the connection
  owns,          \* <<session, operation>> whose event has an owner
  registered,    \* _sendResitered, by session
  waiting,       \* sessions whose _sendQueue is not empty
  deaf,          \* sessions whose WSARecv failed, and which stay connected without it
  sessions,      \* Service::_sessions
  sessionCount,  \* Service::_sessionCount
  manager,       \* GameSessionManager::_sessions
  players,       \* the sessions of the players in GameRoom::_players
  stack          \* calls under way, innermost first

pool == <<armed, acceptSession>>
link == <<gone, owns, registered, waiting, deaf>>
registries == <<sessions, sessionCount, manager, players>>
vars == <<proc, listening, armed, acceptSession, life, gone, owns, registered,
          waiting, deaf, sessions, sessionCount, manager, players, stack>>

Init ==
  /\ proc = "starting"
  /\ listening = FALSE
  /\ armed = {}
  /\ acceptSession = [e \in Events |-> NoSession]
  /\ life = [s \in Sockets |-> "closed"]
  /\ gone = {} /\ owns = {} /\ registered = {} /\ waiting = {} /\ deaf = {}
  /\ sessions = {} /\ sessionCount = 0 /\ manager = {} /\ players = {}
  /\ stack = << >>

-----------------------------------------------------------------------------
(* References.                                                             *)

Refers(s, ops) ==
  \/ \E e \in Events : acceptSession[e] = s
  \/ s \in sessions \cup manager \cup players
  \/ \E i \in DOMAIN stack : s \in stack[i].held
  \/ \E op \in ops : <<s, op>> \in owns

Exists(s) == Refers(s, Ops)
Open == {s \in Sockets : life[s] = "open"}

-----------------------------------------------------------------------------
(* Frames.                                                                 *)

Frame(op, id, held) == [op |-> op, id |-> id, held |-> held, left |-> {}]

Accept(e, held) == Frame("accept", e, held)
Send(s) == Frame("send", s, {})
RegisterSend(s) == Frame("post", s, {})
EnterRoom(s) == Frame("enter", s, {s})
RegisterRecv(s) == Frame("listen", s, {})
RemoveObject(s) == Frame("remove", s, {s})
Broadcast(ps) == [Frame("broadcast", NoSession, {}) EXCEPT !.left = ps]
\* IocpCore::Dispatch refers to the owner until the handler returns.
IocpObject(s) == Frame("return", s, {s})

Running == proc \in {"running", "undefined"}
Quiet == Running /\ stack = << >>
Top(op) == Running /\ stack # << >> /\ Head(stack).op = op
Here == Head(stack).id
Calls(frames) == stack' = frames \o Tail(stack)
Return == Calls(<< >>)

-----------------------------------------------------------------------------
(* main, ServerService::Start and the accept pool.                         *)

\* ERROR for checking: <= for < in the loop that posts the accepts.
StartOneTooMany ==
  /\ proc = "starting"
  /\ proc' = "running"
  /\ listening' = TRUE
  /\ stack' = [e \in 1..AcceptCount + 1 |-> Accept(e, {})]
  /\ UNCHANGED life /\ UNCHANGED pool /\ UNCHANGED link /\ UNCHANGED registries

\* The worker starts after assert(service->Start()): without asserts, nothing has
\* been started.  A step of StartAccept may fail before it posts the accepts.
Start ==
  /\ proc = "starting"
  /\ \/ /\ ~AssertsRun
        /\ proc' = "running"
        /\ UNCHANGED <<listening, stack>>
     \/ /\ AssertsRun
        /\ proc' = "aborted"
        /\ UNCHANGED <<listening, stack>>
     \/ /\ AssertsRun
        /\ proc' = "running"
        /\ listening' = TRUE
        /\ stack' = [e \in Events |-> Accept(e, {})]
  /\ UNCHANGED life /\ UNCHANGED pool /\ UNCHANGED link /\ UNCHANGED registries

\* CreateSession: a new session on a free socket.
CreateSession(s) ==
  /\ ~Exists(s)
  /\ life' = [life EXCEPT ![s] = "fresh"]
  /\ gone' = gone \ {s}
  /\ registered' = registered \ {s}
  /\ waiting' = waiting \ {s}
  /\ deaf' = deaf \ {s}

\* Listener::RegisterAccept.  If AcceptEx fails at once it calls itself, and the
\* session of this call lives until the inner call returns.
RegisterAccept(s) ==
  /\ Top("accept")
  /\ CreateSession(s)
  /\ acceptSession' = [acceptSession EXCEPT ![Here] = s]
  /\ \/ /\ armed' = armed \cup {Here}
        /\ Return
     \/ /\ Calls(<<Accept(Here, Head(stack).held \cup {s})>>)
        /\ UNCHANGED armed
  /\ UNCHANGED <<proc, listening, owns>> /\ UNCHANGED registries

\* Without a socket CreateSession returns nullptr, which RegisterAccept follows.
NoSocketLeft ==
  /\ Top("accept")
  /\ \A s \in Sockets : Exists(s)
  /\ proc' = "crashed"
  /\ UNCHANGED <<listening, life, stack>>
  /\ UNCHANGED pool /\ UNCHANGED link /\ UNCHANGED registries

\* ERROR for checking: ProcessAccept returns without posting the next accept.
RefuseForGood(e) ==
  /\ Quiet
  /\ e \in armed
  /\ armed' = armed \ {e}
  /\ UNCHANGED <<proc, listening, acceptSession, life, stack>>
  /\ UNCHANGED link /\ UNCHANGED registries

\* ProcessAccept when setsockopt or getpeername fails: the client has left already.
Refuse(e) ==
  /\ Quiet
  /\ e \in armed
  /\ armed' = armed \ {e}
  /\ stack' = <<Accept(e, {acceptSession[e]})>>
  /\ UNCHANGED <<proc, listening, acceptSession, life>>
  /\ UNCHANGED link /\ UNCHANGED registries

\* ProcessAccept and ProcessConnect, up to the first Send of OnConnected: S_EnterGame,
\* and EnterRoom's S_MyPlayer and S_AddObject, before it adds the player.
ProcessAccept(e) ==
  /\ Quiet
  /\ e \in armed
  /\ armed' = armed \ {e}
  /\ LET s == acceptSession[e]
     IN  /\ life' = [life EXCEPT ![s] = "open"]
         /\ sessions' = sessions \cup {s}
         /\ sessionCount' = sessionCount + 1
         /\ manager' = manager \cup {s}
         /\ stack' = <<Send(s), Send(s), Send(s), EnterRoom(s), RegisterRecv(s),
                       Accept(e, {s})>>
  /\ UNCHANGED <<proc, listening, acceptSession, players>> /\ UNCHANGED link

\* AddObject: the player enters, also when a send has closed its session.
Enter ==
  /\ Top("enter")
  /\ players' = players \cup {Here}
  /\ Calls(<<Broadcast(players')>>)
  /\ UNCHANGED <<proc, listening, life, sessions, sessionCount, manager>>
  /\ UNCHANGED pool /\ UNCHANGED link

-----------------------------------------------------------------------------
(* Session::Disconnect.                                                    *)

\* ERROR for checking: the exchange of _connected is not tested.
DisconnectTwice(s, rest) ==
  /\ life' = [life EXCEPT ![s] = "closed"]
  /\ manager' = manager \ {s}
  /\ stack' = <<RemoveObject(s), Frame("release", s, {})>> \o rest

\* ERROR for checking: GameSession::OnDisconnected does not leave the manager.
DisconnectManaged(s, rest) ==
  IF s \in Open
  THEN /\ life' = [life EXCEPT ![s] = "closed"]
       /\ stack' = <<RemoveObject(s), Frame("release", s, {})>> \o rest
       /\ UNCHANGED manager
  ELSE /\ stack' = rest
       /\ UNCHANGED <<life, manager>>

\* Disconnect and OnDisconnected, up to LeaveRoom; rest is what follows the call.
Disconnect(s, rest) ==
  IF s \in Open
  THEN /\ life' = [life EXCEPT ![s] = "closed"]
       /\ manager' = manager \ {s}
       /\ stack' = <<RemoveObject(s), Frame("release", s, {})>> \o rest
  ELSE /\ stack' = rest
       /\ UNCHANGED <<life, manager>>

\* LeaveRoom and RemoveObject, up to the erasure; nothing if the player is gone.
Remove ==
  /\ Top("remove")
  /\ Calls(IF Here \in players
           THEN <<Broadcast(players), Frame("erase", Here, {Here})>> ELSE << >>)
  /\ UNCHANGED <<proc, listening, life>>
  /\ UNCHANGED pool /\ UNCHANGED link /\ UNCHANGED registries

\* _players.erase.  A range-for that stands on the player has lost its iterator:
\* the program dies, or the loop happens to go on.
Erase ==
  /\ Top("erase")
  /\ players' = players \ {Here}
  /\ LET lost == \E i \in 2..Len(stack) : stack[i].op = "broadcast" /\ stack[i].id = Here
     IN  proc' \in IF lost THEN {"undefined", "crashed"} ELSE {proc}
  /\ Return
  /\ UNCHANGED <<listening, life, sessions, sessionCount, manager>>
  /\ UNCHANGED pool /\ UNCHANGED link

\* ERROR for checking: the operand is not evaluated, as in a build with NDEBUG.
ReleaseCountOnly ==
  /\ Top("release")
  /\ sessionCount' = sessionCount - 1
  /\ Calls(<<Frame("hangUp", Here, {})>>)
  /\ UNCHANGED <<proc, listening, life, sessions, manager, players>>
  /\ UNCHANGED pool /\ UNCHANGED link

\* Service::ReleaseSession.  The session is erased by the operand of an assert.
ReleaseSession ==
  /\ Top("release")
  /\ sessions' = IF AssertsRun THEN sessions \ {Here} ELSE sessions
  /\ sessionCount' = sessionCount - 1
  /\ proc' = IF AssertsRun /\ Here \notin sessions THEN "aborted" ELSE proc
  /\ Calls(<<Frame("hangUp", Here, {})>>)
  /\ UNCHANGED <<listening, life, manager, players>>
  /\ UNCHANGED pool /\ UNCHANGED link

\* RegisterDisconnect; DisconnectEx may fail at once, which drops the owner again.
RegisterDisconnect ==
  /\ Top("hangUp")
  /\ owns' \in {owns \cup {<<Here, "disc">>}, owns}
  /\ Return
  /\ UNCHANGED <<proc, listening, life, gone, registered, waiting, deaf>>
  /\ UNCHANGED pool /\ UNCHANGED registries

-----------------------------------------------------------------------------
(* Sending and receiving.                                                  *)

\* Session::Send: push, exchange the flag, and register if it was down.
SendCalled ==
  /\ Top("send")
  /\ waiting' = waiting \cup {Here}
  /\ registered' = registered \cup {Here}
  /\ Calls(IF Here \in registered THEN << >> ELSE <<RegisterSend(Here)>>)
  /\ UNCHANGED <<proc, listening, life, gone, owns, deaf>>
  /\ UNCHANGED pool /\ UNCHANGED registries

\* RegisterSend: nothing for a closed session, whose flag stays up.
PostSend ==
  /\ Top("post")
  /\ IF Here \in Open
     THEN /\ waiting' = waiting \ {Here}
          /\ owns' = owns \cup {<<Here, "send">>}
     ELSE UNCHANGED <<waiting, owns>>
  /\ Return
  /\ UNCHANGED <<proc, listening, life, gone, registered, deaf>>
  /\ UNCHANGED pool /\ UNCHANGED registries

\* WSASend fails with another error, which HandleError only logs: the batch is lost,
\* the flag goes down and the session stays connected.
PostSendLoses ==
  /\ Top("post")
  /\ Here \in Open
  /\ waiting' = waiting \ {Here}
  /\ registered' = registered \ {Here}
  /\ Return
  /\ UNCHANGED <<proc, listening, life, gone, owns, deaf>>
  /\ UNCHANGED pool /\ UNCHANGED registries

\* WSASend fails with a reset: HandleError disconnects while the event has its owner.
PostSendFails ==
  /\ Top("post")
  /\ Here \in Open \cap gone
  /\ waiting' = waiting \ {Here}
  /\ owns' = owns \cup {<<Here, "send">>}
  /\ Disconnect(Here, <<Frame("sendFailed", Here, {})>> \o Tail(stack))
  /\ UNCHANGED <<proc, listening, gone, registered, deaf, sessions, sessionCount, players>>
  /\ UNCHANGED pool

\* The rest of RegisterSend: the owner is dropped, then members are used.  If it was
\* the last reference the session has been destroyed, and anything may happen.
SendFailed ==
  /\ Top("sendFailed")
  /\ owns' = owns \ {<<Here, "send">>}
  /\ registered' = registered \ {Here}
  /\ proc' \in IF Refers(Here, Ops \ {"send"}) THEN {proc} ELSE {"undefined", "crashed"}
  /\ Return
  /\ UNCHANGED <<listening, life, gone, waiting, deaf>>
  /\ UNCHANGED pool /\ UNCHANGED registries

\* ERROR for checking: the event of a receive gets no owner.
ListenUnowned ==
  /\ Top("listen")
  /\ Return
  /\ UNCHANGED <<proc, listening, life>>
  /\ UNCHANGED pool /\ UNCHANGED link /\ UNCHANGED registries

\* RegisterRecv.
Listen ==
  /\ Top("listen")
  /\ owns' = IF Here \in Open THEN owns \cup {<<Here, "recv">>} ELSE owns
  /\ Return
  /\ UNCHANGED <<proc, listening, life, gone, registered, waiting, deaf>>
  /\ UNCHANGED pool /\ UNCHANGED registries

\* WSARecv fails with an error that HandleError only logs: the owner is dropped, and
\* the session stays connected without a receive.
ListenDeafens ==
  /\ Top("listen")
  /\ Here \in Open
  /\ deaf' = deaf \cup {Here}
  /\ Return
  /\ UNCHANGED <<proc, listening, life, gone, owns, registered, waiting>>
  /\ UNCHANGED pool /\ UNCHANGED registries

\* WSARecv fails with a reset.
ListenFails ==
  /\ Top("listen")
  /\ Here \in Open \cap gone
  /\ owns' = owns \cup {<<Here, "recv">>}
  /\ Disconnect(Here, <<Frame("listenFailed", Here, {})>> \o Tail(stack))
  /\ UNCHANGED <<proc, listening, gone, registered, waiting, deaf, sessions, sessionCount,
                 players>>
  /\ UNCHANGED pool

\* The rest of RegisterRecv.
ListenFailed ==
  /\ Top("listenFailed")
  /\ owns' = owns \ {<<Here, "recv">>}
  /\ Return
  /\ UNCHANGED <<proc, listening, life, gone, registered, waiting, deaf>>
  /\ UNCHANGED pool /\ UNCHANGED registries

\* IocpCore::Dispatch returns, and with it the reference it held.
DispatchReturns ==
  /\ Top("return")
  /\ Return
  /\ UNCHANGED <<proc, listening, life>>
  /\ UNCHANGED pool /\ UNCHANGED link /\ UNCHANGED registries

\* GameRoom::Broadcast calls Send of one player after another.
BroadcastNext(p) ==
  /\ Top("broadcast")
  /\ p \in Head(stack).left \cap players
  /\ Calls(<<Send(p), [Head(stack) EXCEPT !.id = p, !.left = @ \ {p}]>>)
  /\ UNCHANGED <<proc, listening, life>>
  /\ UNCHANGED pool /\ UNCHANGED link /\ UNCHANGED registries

BroadcastEnds ==
  /\ Top("broadcast")
  /\ Head(stack).left \cap players = {}
  /\ Return
  /\ UNCHANGED <<proc, listening, life>>
  /\ UNCHANGED pool /\ UNCHANGED link /\ UNCHANGED registries

-----------------------------------------------------------------------------
(* Completions of a session's operations.                                  *)

Completes(s, op) ==
  /\ Quiet
  /\ <<s, op>> \in owns
  /\ owns' = owns \ {<<s, op>>}

\* ProcessRecv of a packet: C_Move is broadcast if its player is in the room.
ProcessRecv(s) ==
  /\ Completes(s, "recv")
  /\ stack' = (IF s \in players THEN <<Broadcast(players)>> ELSE << >>)
                \o <<RegisterRecv(s), IocpObject(s)>>
  /\ UNCHANGED <<proc, listening, life, gone, registered, waiting, deaf>>
  /\ UNCHANGED pool /\ UNCHANGED registries

\* ProcessSend of a batch: the next is registered, or the flag goes down.
ProcessSend(s) ==
  /\ Completes(s, "send")
  /\ IF s \in waiting
     THEN /\ stack' = <<RegisterSend(s), IocpObject(s)>>
          /\ UNCHANGED registered
     ELSE /\ registered' = registered \ {s}
          /\ UNCHANGED stack
  /\ UNCHANGED <<proc, listening, life, gone, waiting, deaf>>
  /\ UNCHANGED pool /\ UNCHANGED registries

\* An operation ends with the connection, without a byte.
CompletesEmpty(s, op) ==
  /\ s \in gone \/ s \notin Open
  /\ Completes(s, op)
  /\ Disconnect(s, <<IocpObject(s)>>)
  /\ UNCHANGED <<proc, listening, gone, registered, waiting, deaf, sessions, sessionCount,
                 players>>
  /\ UNCHANGED pool

\* ERROR for checking: the owner of the event is not dropped.
DisconnectLeaks(s) ==
  /\ Quiet
  /\ <<s, "disc">> \in owns
  /\ UNCHANGED vars

\* The event of DisconnectEx drops its owner, often the last reference.
ProcessDisconnect(s) ==
  /\ Completes(s, "disc")
  /\ UNCHANGED <<proc, listening, life, gone, registered, waiting, deaf, stack>>
  /\ UNCHANGED pool /\ UNCHANGED registries

-----------------------------------------------------------------------------
\* GameRoom::Update: the monster moves, or strikes a player, who may die of it.
Update ==
  /\ Quiet
  /\ players # {}
  /\ \/ stack' = <<Broadcast(players)>>
     \/ \E s \in players : stack' = <<Broadcast(players), RemoveObject(s)>>
  /\ UNCHANGED <<proc, listening, life>>
  /\ UNCHANGED pool /\ UNCHANGED link /\ UNCHANGED registries

PeerLeaves(s) ==
  /\ Running
  /\ s \in Open \ gone
  /\ gone' = gone \cup {s}
  /\ UNCHANGED <<proc, listening, life, owns, registered, waiting, deaf, stack>>
  /\ UNCHANGED pool /\ UNCHANGED registries

Unwind ==
  \/ \E s \in Sockets : RegisterAccept(s) \/ BroadcastNext(s)
  \/ NoSocketLeft \/ Enter \/ Remove \/ Erase
  \/ ReleaseSession \/ RegisterDisconnect
  \/ SendCalled \/ PostSend \/ PostSendLoses \/ PostSendFails \/ SendFailed
  \/ Listen \/ ListenDeafens \/ ListenFails \/ ListenFailed
  \/ DispatchReturns \/ BroadcastEnds

Dispatch ==
  \/ \E e \in Events : ProcessAccept(e) \/ Refuse(e)
  \/ \E s \in Sockets : ProcessRecv(s) \/ ProcessSend(s) \/ ProcessDisconnect(s)
  \/ \E s \in Sockets, op \in {"recv", "send"} : CompletesEmpty(s, op)

Next == Start \/ Unwind \/ Dispatch \/ Update \/ \E s \in Sockets : PeerLeaves(s)

\* What a closed or broken connection has outstanding ends.
Ends(s) == CompletesEmpty(s, "recv") \/ CompletesEmpty(s, "send") \/ ProcessDisconnect(s)

\* Handlers run to their end.  The system ends what is outstanding on a closed or
\* broken connection, and the port's queue is first in, first out: no completion
\* is overtaken for ever by others.
Fairness ==
  /\ WF_vars(Start)
  /\ WF_vars(Unwind)
  /\ \A s \in Sockets : SF_vars(Ends(s))

SafeSpec == Init /\ [][Next]_vars

Spec == SafeSpec /\ Fairness
-----------------------------------------------------------------------------
(* Safety.                                                                 *)

FrameOps == {"accept", "send", "post", "enter", "listen", "remove", "release", "hangUp", "erase",
             "broadcast", "return", "sendFailed", "listenFailed"}

Frames ==
  {f \in [op : FrameOps, id : Events \cup Sockets \cup {NoSession},
          held : SUBSET Sockets, left : SUBSET Sockets] :
     f.id \in CASE f.op = "accept" -> Events
               [] f.op = "broadcast" -> Sockets \cup {NoSession}
               [] OTHER -> Sockets}

TypeOK ==
  /\ proc \in {"starting", "running", "undefined", "crashed", "aborted"}
  /\ listening \in BOOLEAN
  /\ armed \subseteq Events
  /\ acceptSession \in [Events -> Sockets \cup {NoSession}]
  /\ life \in [Sockets -> {"fresh", "open", "closed"}]
  /\ owns \subseteq Sockets \X Ops
  /\ \A S \in {gone, registered, waiting, deaf, sessions, manager, players} : S \subseteq Sockets
  /\ sessionCount \in Nat
  /\ stack \in Seq(Frames)

\* No member function runs on, or returns into, a session that has been destroyed:
\* RegisterSend and RegisterRecv use members after they drop the event's owner, and
\* Disconnect after the service, the manager and the room have all let go.  The one
\* exception is RegisterSend of a session that has lost its receive to an error.
UsedIsAlive ==
  \A i \in DOMAIN stack :
    LET f == stack[i]
    IN  /\ f.op \in {"send", "post", "listen", "release", "hangUp"} => Exists(f.id)
        /\ f.op = "sendFailed" => Refers(f.id, Ops \ {"send"}) \/ f.id \in deaf
        /\ f.op = "listenFailed" => Refers(f.id, Ops \ {"recv"})

\* Between handlers the service, its counter and the manager agree on who is
\* connected, whatever disconnected inside OnConnected or a broadcast.
RegistriesAgree ==
  Quiet => sessions = Open /\ manager = Open /\ sessionCount = Cardinality(Open)

\* Between handlers every accept of the pool is posted again, each with a session
\* of its own that nothing has used yet.
PoolArmed ==
  Quiet /\ listening =>
    /\ armed = Events
    /\ \A e \in Events : life[acceptSession[e]] = "fresh"
    /\ \A d, e \in Events : acceptSession[d] = acceptSession[e] => d = e

\* Between handlers only an outstanding operation keeps a closed session alive, or
\* the room, if the session was closed before its player entered.
NothingLeaks ==
  Quiet =>
    \A s \in Sockets \ players :
      life[s] = "closed" /\ Exists(s) => \E op \in Ops : <<s, op>> \in owns

\* Only a start that fails aborts the program: ReleaseSession's assert, that the
\* session is still registered (Service.cpp:46), holds on every path to it.
ReleaseAssertHolds == proc = "aborted" => ~listening

\* A server that runs has been started: "assert(service->Start())", GameServer.cpp:29.
StartedWhenRunning == proc = "running" => listening

-----------------------------------------------------------------------------
(* Liveness.                                                               *)

\* A closed session is destroyed and its socket free again, unless its player
\* stays in the room or the program dies.
Closed(s) == life[s] = "closed" /\ Exists(s)

ClosedIsDestroyed ==
  \A s \in Sockets : Closed(s) ~> ~Closed(s) \/ s \in players \/ ~Running
=============================================================================
