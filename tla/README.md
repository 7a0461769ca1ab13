# Verification of ZeldaRoguelikeServer

TLA+ models of the game server in `src/GameServer`: the network core
(`ServerCore`), the game (`GameServer`) and its load client (`DummyClient`).
TLC checks the models on small instances; TLAPS proves the session's safety for
every number of threads and sends, the receive stream's for every size of packet
and buffer, the protobuf encoding's for every width of the integers and every
content, path finding on every map, the room's for every number of players and the
server's for every number of clients and accepts.

## 1. The system

The program is about 3300 lines of C++ on the Windows completion port; everything
else in the repository, some 530000 lines, is vendored or generated (protobuf, its
tests and its compiler). Sources are in code page 949; the comments quoted here are translated.

| Part | State | Operations | Talks to |
|---|---|---|---|
| `Session` (`ServerCore/Session.*`) | `_connected`, `_sendQueue`, `_sendResitered`, four reusable `IocpEvent`s, `RecvBuffer` | `Send`, `Connect`, `Disconnect`, `Register*` (post an overlapped operation), `Process*` (its completion) | WinSock; `Service`; the derived class through `OnConnected`, `OnRecv`, `OnSend`, `OnDisconnected` |
| `PacketSession`, `RecvBuffer` | two cursors in ten buffers' worth of bytes | `OnRecv` (framing), `OnWrite`, `OnRead`, `Clean` | `Session::ProcessRecv`, `OnRecvPacket` |
| `IocpCore` | the port | `Register`, `Dispatch` | calls `Dispatch` of the event's owner |
| `Service`, `Listener` | `_sessions`, `_sessionCount`; a pool of accept events | `Start`, `CreateSession`, `AddSession`, `ReleaseSession`; `RegisterAccept`, `ProcessAccept` | `Session::ProcessConnect` |
| `GameSession`, `GameSessionManager` | weak pointers to room and player; set of sessions | `OnConnected`, `OnDisconnected`, `OnRecvPacket` | `GameRoom` |
| `GameRoom` | `_players`, `_monsters`, the tile map | `EnterRoom`, `LeaveRoom`, `Handle_C_Move`, `AddObject`, `RemoveObject`, `Broadcast`, `Update`, `FindPath`, `FindClosestPlayer` | `Session::Send` of every player; `Player`, `Monster` |
| `Player`, `Monster` (`Creature`, `GameObject`) | `info` (position, hp, state), two deadlines, `_target` | `Attack`; `UpdateIdle`, `UpdateMove`, `UpdateSkill` | `GameRoom` |
| `ServerPacketHandler` | none | `HandlePacket`, `Make_S_*` | `GameRoom`, protobuf |
| main loop (`GameServer.cpp`) | none | one thread: `Dispatch(0)`, then `GRoom->Update()`, for ever | `IocpCore`, `GameRoom` |
| `DummyClient` | none | five sessions, five threads in `Dispatch` | `ServerCore` |

What is hard here:

* **Threads against completions.** `Send` may be called by any thread while
  completions of the same session are handled by others. One atomic flag,
  `_sendResitered`, decides who may use the send event.
* **Teardown.** A zero-byte receive, a zero-byte send and a failing call all
  call `Disconnect`; each outstanding operation keeps a reference to the session.
* **Re-entrance.** The game is single-threaded but not atomic: `Broadcast` calls
  `Send`, a send that fails at once calls `Disconnect`, which calls `LeaveRoom`,
  which removes a player and broadcasts again, inside the loop that broadcasts.
* **Lifetime.** Sessions are counted references in four registries, four events and
  the locals of every handler; functions go on using a session after the registries
  and the event have let it go.
* **Registries.** `Service`, its counter, `GameSessionManager` and `GameRoom` list the
  same sessions and are changed at different points of handlers that may fail halfway.
* **Stale state.** The monster acts on a target chosen an update earlier.
* **Boundaries.** Cursors in the receive buffer; sizes in packet headers; the pool of
  accepts, and the sockets it takes sessions from.

`PROJECT.json` lists every such hazard at its line with the properties about it.

## 2. Modules

| Module | Models | Abstract specification |
|---|---|---|
| `SendChannel` | what `Session::Send` promises: a batched FIFO channel | |
| `Session` | one session, its events, the completion port, a set of threads | implements `SendChannel` |
| `SessionProofs` | theorems about `Session` | |
| `Replicas` | what the room promises its clients: replicas of it that lag behind | |
| `GameRoom` | the room, its sessions, players, monster, and the worker loop | implements `Replicas` |
| `GameRoomProofs` | theorems about `GameRoom` that hold whatever fails | |
| `CalmRoomProofs` | theorems about a `GameRoom` whose calls fail by completion only | |
| `ReplicaRoomProofs` | that such a `GameRoom` implements `Replicas` | |
| `Server` | `main`, `Service`, `Listener`, `GameSessionManager`, and the life of every session through them, the room and its events | |
| `ServerProofs` | theorems about `Server` | |
| `PacketChannel` | what `PacketSession` promises: whole packets, once each, in order | |
| `RecvStream` | `RecvBuffer`, `ProcessRecv`, the loop of `PacketSession::OnRecv` | implements `PacketChannel` |
| `RecvStreamProofs` | theorems about `RecvStream` | |
| `Packets` | `MakeSendBuffer`, the generated classes' size, writer and reader, and the varints beneath | what was written is read |
| `PacketStream` | the stream of `RecvStream` with the packets of `Packets` in it | |
| `PacketProofs` | theorems about `Packets` and `PacketStream` | |
| `FindPath` | one call of `GameRoom::FindPath` | |
| `FindPathProofs` | theorems about `FindPath` and `Hunt` | |
| `Hunt` | `Monster::UpdateIdle` calling `FindPath` again and again (extends `FindPath`) | |
| `MCSession`, `MCGameRoom`, `MCServer`, `MCHunt`, `MCRecvStream` | instances for TLC | |

### 2.1 Session

A variable per member of `Session` that matters across steps (`connected`,
`sendQueue`, `sendRegistered`, the batch in `_sendEvent`, whether each event holds
its `owner`, whether the session is in its service), three program counters per
thread (`base`, `send`, `disc`: the handler, a `RegisterSend` it called, a
`Disconnect` one of them called), and the operating system's view of the
outstanding operations.

A block under `WRITE_LOCK` is one action, because it makes no call; every other
action touches at most one shared atomic. So `Send` is one step (push and
exchange under the lock) while `RegisterSend` is four: the test of `_connected`,
the drain under the lock, `WSASend`, and the clean-up after a failure.

Buffers are numbered in the order `Send` pushed them. `delivered` records the
batches whose `WSASend` completed.

Restrictions, each from the code:

* `Send` starts after `ProcessConnect` has published the session: no pointer to it
  exists elsewhere before.
* A session is not used again after its teardown. `Connect` on it would fail in
  `BindAnyAddress`, its socket being bound already.
* Failed completions reach `Process*` with zero bytes (`IocpCore::Dispatch`, the
  error branch).
* `SoftErrors` says whether `WSASend`/`WSARecv` may fail with an error that
  `HandleError` only prints. After such an error the code keeps the connection:
  the batch is lost, and with several threads a buffer may stay queued until the
  next `Send`; after such a receive the session is deaf. `session_live`
  excludes these errors, `session_client` includes them.

### 2.2 GameRoom

One thread runs everything, so handlers do not interleave; but a handler re-enters
itself. The module keeps the call stack in a variable: each frame is what a
function still has to do when the call it is in returns (`broadcast` the rest of
the loop over `_players`; `erase` the second half of `RemoveObject`; `attack`,
`attacked`, `hit`, `calm` the rests of `Player::Attack` and
`Monster::UpdateSkill`; `parse` and `listen` the loop of `OnRecv` and
`RegisterRecv`). Every other variable is the code's state, except `view`, which is
what each client knows from the messages queued for it.

A send fails at once only if it calls `WSASend`, that is if none is outstanding
(`sending`). It fails in one of the two ways that `HandleError` tells apart: a reset
disconnects (`SendFails`, `ListenFails`, the second alternative of `EnterRoom`); after
any other error the batch is lost, the flag goes down and the session stays connected,
so that its next `Send` calls `WSASend` again (`SendLoses`, `SendDoneLoses`), or the
session stays connected without a receive (`ListenDeafens`). `failed` records who has
met which: a client that lost a batch has no view worth comparing, a deaf session sends
no packets, and a player who was reset among the greetings of `OnConnected` is put into
the room all the same. `EarlyFailures` says whether calls fail at once at all, or only
by a completion. When a nested `RemoveObject` erases the player an outer loop stands
on, the iterator is lost and C++ says nothing of what follows; `fate` becomes
`undefined` (the loop happens to go on) or `crashed`. Properties that speak of a defined
program say so.

Abstractions:

* `FindPath` is any free neighbour of the monster, or nothing: how it chooses is
  not the room's concern. Module `FindPath` says how, and `PathWalkable` there says
  that the second cell of a path is a free neighbour.
* Time is a countdown of `Delay` ticks for 1000 ms.
* `C_Move` names the sender's own player and a walkable cell. The code checks
  neither ("TODO : Validation", `GameRoom.cpp:107`).
* Walkable cells are a constant; the tile file is not in the repository.

`Replicas` is the room as its clients may rely on it, without handlers, calls or
failures: one truth, where every object is, and a copy of it with each client. One
object at a time comes, moves or goes, only when all copies agree with the truth, and
each copy catches up in one step. `GameRoom` implements it with `truth` mapped to the
positions of all but those whose removal has begun, and `copies` to what was sent to
the clients, as long as calls fail by completion only.

### 2.3 RecvStream

One session's receives, one after the other: `RecvExclusive` of module `Session`
says that two never overlap, so a handler's statements need no interleaving with
another handler's. `phase` follows a receive from `RegisterRecv` (`posted`) through
the completion (`completed`), `OnWrite` (`parsing`) and the turns of `OnRecv`'s loop
to `OnRead` and `Clean` (`idle`). What interleaves is the peer, which goes on
sending, and the network, which completes a receive with any part of what is under
way.

A byte is its number in the stream, and `cell[i]` is the byte in `_buffer[i]`. A
header is therefore not a field of the model: the loop reads the size of the packet
that begins with the byte in its cell, and any `uint16` if no packet begins there. A
loop that lost its place would read garbage, as the program would.

`memcpy` on overlapping ranges is undefined, so `Copies` offers an outcome with
lost bytes; `CopyNeverOverlaps` says it is not reached. The failure branches of
`ProcessRecv` ("OnWrite Overflow", "OnRead Overflow") are kept in the actions;
`NeverOverflows` says they are dead.

The peer submits packets of any size up to `MaxPacket` (`Submit`), and its headers tell
their true sizes. `PacketStream` replaces this by the packets themselves: a size is
submitted because `MakeSendBuffer` has given it for a packet.

### 2.4 FindPath and Hunt

One action per turn of each of the function's three loops: `Visit` (or `Arrive`,
`Exhaust`) for `while (pq.empty() == false)`, `Consider` for the loop over `best`,
`Walk` for the way back along `parent`. The four directions of a turn touch four
different cells and are one step. The heap is the set of its nodes, and `top()`
gives any of those of least cost, which covers every tie of the binary heap. The
keys of `best` are a function's domain; a missing key reads as 0, as in the code.

Both ends are occupied, by the monster and by its target, so `CanGo` refuses them:
the search is exhaustive unless both stand on one cell, and it is the choice among
the cells reached that decides.

`Hunt` adds what `UpdateIdle` does with the path, and starts over. The player stands
still, and nobody else moves.

### 2.5 Server

`Session` is one session among threads, `GameRoom` the players among themselves.
`Server` is what neither sees: many sessions coming and going, and who refers to them.
A session is named by its socket, which the system gives again when the session's
destructor has closed it; `Exists(s)` says that something still refers to it: an accept
event (`acceptSession`), a registry (`sessions`, `manager`, the room's `players`), the
event of an outstanding operation (`owns`), or a local of a call under way.

As in `GameRoom` one thread runs everything and the calls under way are a stack of
frames. Besides the rest of its function, a frame has `held`: the sessions that its
locals and by-value parameters refer to (the `shared_ptr` of `ProcessAccept`, the
owner that `IocpCore::Dispatch` moves out of the event, the `player` of
`RemoveObject`). Functions called by plain `this` hold nothing: that is the hazard
`UsedIsAlive` is about. `left` is the part of a range-for still to come.

`RegisterAccept` is modelled with its recursion: when `AcceptEx` fails at once it calls
itself, and each of these calls keeps a session, hence a socket, until the innermost
returns. `CreateSession` without a socket returns `nullptr`, which `RegisterAccept`
follows: `NoSocketLeft` is the program's death there.

`AssertsRun` tells the Debug build from the Release build, which defines `NDEBUG`.
`ReleaseSession` erases, and `main` starts the service, inside the operand of an
assert: with asserts either step may abort the program, without them neither happens.

`WSASend` and `WSARecv` may fail with a reset, which disconnects within the call
(`PostSendFails`, `ListenFails`), or with another error, which `HandleError` only logs
(`PostSendLoses`, `ListenDeafens`). The other errors leave the registries alone, but
not the session's life: a `WSARecv` that fails so drops the event's owner
(`Session.cpp:157`), and the session stays connected, in the registries, without the
reference of a receive (`deaf`). If a later `WSASend` of it is reset and `DisconnectEx`
fails at once as well, the registries have let go when `Disconnect` returns, the owner
of the send event is the last reference, `Session.cpp:206` destroys the session and
`:207` and `:208` use its members: `SendFailed` makes `proc` `undefined` or `crashed`
there. `UsedIsAlive` excepts exactly this, a `sendFailed` frame of a deaf session; for
every other call and every other session it holds.

Abstractions: the room is its set of players, the monster's update is a broadcast that
may be followed by a death; `waiting` says whether a send queue is empty. What an erased
iterator does is as in `GameRoom`: `proc` becomes `undefined` or `crashed`.

### 2.6 Packets

`RecvStream` carries bytes by their number. `Packets` says what they are: operators for
`ByteSizeLong`, the generated `_InternalSerialize` and `_InternalParse` and the
library's varint functions, and for `MakeSendBuffer` with its `uint16` arithmetic. Bytes
are bytes and tags are the real tags of `Struct.proto` and `Protocol.proto`. Integers
are narrower than the code's so that TLC can have them whole: 24 bits for `uint64`, 12
for `int32` (so a sign-extended negative number takes 4 bytes instead of 10, and the
largest positive one 2 instead of 5), 6 for the sizes in the header. Unknown fields are
left out: both ends are generated from the same files.

The generated parser checks that a string is UTF-8 and stops at the first that is not
(`Struct.pb.cc:488`), while the serializer only logs; so what is written need not be read.
Which byte strings are no UTF-8 is the constant `Malformed`. `Parse` says whether it
accepts; the handlers ignore the answer and go on with the fields read so far. `Survives`
says of one packet what its header and the other side's parser make of it: one that fits
the header tells its length and is accepted exactly if its strings are UTF-8, and is then
what was submitted; one of the sizes just below 65536, where `dataSize +
sizeof(PacketHeader)` wraps although `dataSize` does not, is not noticed and says a size
less than a header's; a longer one makes the assert of `MakeSendBuffer` fail. The module
takes asserts to run: the operand of this one writes the payload, so a Release build sends
none. `server_release` is about such asserts.

`PacketStream` combines the two modules: the peer submits packets, `MakeSendBuffer`
gives the sizes and the bytes of the stream, and `HandlePacket` parses the bytes that
`OnRecvPacket` is handed. `PacketsArrive` says, of every cut of the stream and every move
by `Clean`, that the k-th packet handled is the k-th submitted, or that the k-th
submitted has a string that is no UTF-8 and the parser has refused it.

The generated code of a message is a table of its fields' kinds here, and one operator
reads, writes or measures any table. Writing goes by records (`Records`: a tag and what
follows it), since that is what the reader's loop takes off the front, one per turn
(`Cut`, `Put`). An object in a message is first bytes (`Embed`), then a record's
content, as in `InternalWriteMessage`; `ParseMessage` undoes this. The two levels are
all there are in `Protocol.proto`, so nothing is recursive but functions on naturals and
sequences, and the module can be proved about. The code counts the length of an object
or a list in 32 bits, the model in 64: from 2^31 bytes on they differ, far beyond the
payload that the assert of `MakeSendBuffer` lets pass.

## 3. Runs

| Run | Instance | Shows |
|---|---|---|
| `session_client` | 5 threads, symmetric, 4 sends, all failures | `TypeOK`, `SendExclusive`, `SendBatchReady`, `SendFifo`, `RecvExclusive`, `TeardownOnce`, `PendingBatchStable`; `ImplementsChannel`: refinement of the lossy channel |
| `session_live` | 2 threads, 2 sends, resets only, fair | `NoStranding`, `PeerLossNoticed`, `ImplementsLiveChannel` |
| `room_calm` | 2 clients, 3 cells, failures by completion only, fair | `TypeOK`, `ViewsAgree`, `MovesAreOfKnownObjects`, `AttackEnds`; `ImplementsReplicas`: refinement of the replicated room |
| `room_storm` | 2 clients, 2 cells, any send or receive may fail at once, with a reset or another error | `NobodyDead`, `AttackerStays`, `StaysDefined`, `NestingEnds` |
| `recv_stream` | packets of 2, 4 and 7 bytes (the last with a name that is no UTF-8), 3 buffers of 7, 17 bytes, fair | `TypeOK`, `RoomToReceive`, `NeverOverflows`, `BufferHoldsStream`, `StandsOnHeader`, `PacketsArrive`, `CopyNeverOverlaps`, `ImplementsPackets` (liveness included); beforehand, `Survives` of 906 packets |
| `hunt` | all maps of 3 x 3 and of 6 x 1 cells, an open field of 5 x 2, depth 5 | `TypeOK`, `PathWalkable`, `NearestReached`, `TurnsRunOut`, `HuntArrives` |
| `server` | 4 sockets, symmetric, a pool of 2 accepts, resets, other errors and refusals anywhere | `TypeOK`, `UsedIsAlive`, `RegistriesAgree`, `PoolArmed`, `NothingLeaks`, `ReleaseAssertHolds` |
| `server_live` | 3 sockets, a pool of 2, fair | `ClosedIsDestroyed` |
| `hunt_detour` | one map of 9 x 3 cells, depth 10 | counterexample to `HuntArrives` |
| `room_ghost` | 1 client | counterexample to `DisconnectedHasLeft` |
| `room_frozen` | 2 clients, fair | counterexample to `HuntGoesOn` |
| `server_release` | 2 sockets, a pool of 1, asserts compiled out | counterexample to `StartedWhenRunning` |

Bounds. `session_client` has the five threads that `DummyClient` launches, enough for
one in each role of a race (sender, completion, disconnect) and two more; the roles are
symmetric, and the theorems cover every number. Four sends make a batch of two and a
queue behind it while another batch fails; `session_live` has the least number of each
that can strand a buffer. In `room_storm` two sessions nest three broadcasts: a move
fails at the first client, the broadcast of its departure at the second, whose departure
is broadcast in turn; the theorems cover every number. The corridor has every distance
the monster distinguishes (0, 1, more). Hit points allow one, two or three blows. In
`recv_stream` the sizes keep the code's order (header < packet <= buffer: 4 < 65535 <
65536) with the fewest buffers for which the copy is safe, three for the code's ten.
From fifteen bytes on less than a buffer is free behind the write cursor: with
seventeen, `Clean` moves a partial packet, and the stream goes on behind it. The packets
of the assumption `AllSurvive` have integers on both sides of every border of a varint,
of the sign and of the width, strings that are UTF-8 and one that is not, rooms of up to
three objects, and payloads on both sides of the header's limit, those that wrap among
them. `hunt` has every obstacle and every detour of a 3 x 3 square, where the depth cuts
nothing off, and corridors and an open field whose ends are out of the depth's reach; a
depth that cuts a detour is `hunt_detour`. In `server` four sockets are a pool of two
and two open sessions: one can fail inside a broadcast that the other's enter, move or
disconnect has begun, and a refused or failed accept finds a socket or none; in
`server_live` three do, so that a client waits for another's socket.

Deadlock is not checked: a session ends, and a room whose program has crashed
stops.

Fairness. `Session`: threads keep running; some thread serves the port (both
mains loop for ever on `Dispatch`); the operating system completes what it
accepted. A receive may stay pending, so only its end is fair. Neither callers of
`Send` nor the peer owe a step. `GameRoom`: the worker loop goes on, a receive
carries finitely many packets, the clock advances. `AttackEnds` is about a player who
stays: a disconnect releases the promise. `RecvStream`: the handler runs to its end and
the network delivers what it carries while the peer stays. `Hunt`: the function runs
on, and `Update` calls it again. `Server`: `main` starts and handlers run to their end
(weak fairness); the system ends what is outstanding on a closed or broken connection,
and since the port's queue is first in, first out, other completions and updates cannot
overtake it for ever: strong fairness, because every handler disables it for a while.

### Findings

* `room_ghost`. `GameSession.cpp:21` says of `OnDisconnected` "leave the game". If
  the first send of `OnConnected` fails with a reset, `LeaveRoom` runs before
  `EnterRoom` has added the player, and `EnterRoom` adds it then (`GameRoom.cpp:70`).
  The player stays in the room for ever and is hunted by the monster.
* `room_frozen`. `Monster.cpp:46` says "keep moving toward the closest enemy". If
  the target is gone when `UpdateSkill` runs it returns without `SetState(IDLE)`
  (`Monster.cpp:103`), and nothing else ever leaves `SKILL`.

* `hunt_detour`. The same comment, `Monster.cpp:46`. `FindPath` counts its depth
  from the monster's present cell (`GameRoom.cpp:273`). On

  ```
  . . . . . . . . .
  P # # # # # # # .
  # M . . . . . . .
  ```

  the monster walks right to (7,2), from where the cell above the player is nine
  steps off and in reach; its next step, to (8,2), puts that cell out of reach, and
  of the two nearest that are left it prefers (1,2), behind it (`GameRoom.cpp:303`).
  It steps between (7,2) and (8,2) for ever.

* `server_release`. "assert(service->Start());" (`GameServer.cpp:29`). The Release
  configurations define `NDEBUG` (`GameServer.vcxproj:95`, `:132`), so `Start` is not
  called: the worker serves a port with which nothing is registered. The load client
  (`DummyClient.cpp:53`) and `SocketUtils::Init` start in the same way, and two more
  asserts have an effect: `ReleaseSession` erases the session (`Service.cpp:46`) and
  `MakeSendBuffer` writes the packet (`ServerPacketHandler.h:51`).

Three more things go wrong of which the repository promises nothing; they are hazards,
not findings. A send of `Broadcast` that is reset at once takes the iterator from the
range-for (`GameRoom.cpp:189`); `StaysDefined` says that nothing else does so, and that
no null room is followed (`Player.cpp:24`) before. With calls that fail at once
`ViewsAgree` is false, since a client may lose a batch and stay. And `RegisterSend`
may run on in a destroyed session (2.5).

## 4. Proofs

`SessionProofs` proves, for every non-empty set of threads and every bound on
sends, with every failure allowed:

| Theorem | Property |
|---|---|
| `TypeCorrect` | `TypeOK` |
| `SendExclusion` | `SendExclusive` |
| `SendNeverEmpty` | `SendBatchReady` |
| `PendingBatchIsStable` | `PendingBatchStable` |
| `SendOrder` | `SendFifo` |
| `RecvExclusion` | `RecvExclusive` |
| `OneTeardown` | `TeardownOnce` |
| `ImplementsSendChannel` | the safety part: `ImplementsChannel` |
| `NothingStranded` | `NoStranding`, if only resets fail |

`SendExclusive` is not inductive: a completed `WSASend` has left the batch in the
event, a thread between its drain and its `WSASend` has emptied the queue, and a
thread that is about to register after a disconnect must not be handed a second
token. `SendInv` strengthens it with what each program counter knows: the flag is
raised while anybody holds the token, the queue or the drained batch is non-empty
where a send is about to be posted, and the event holds its owner and its batch
from the post to the completion. `SendOrder` needs `FifoInv` besides: the buffers
delivered, in the event and in the queue, in this order, are increasing and none
is numbered beyond `accepted`. Each step appends the next number, moves a batch
from one of the three sequences to the next, or drops one; `UptoAppend` and
`UptoDrop` are the two facts about sequences this takes.

`RecvExclusion` and `OneTeardown` rest on `BeforeConnect`, that until the connection
completes nothing else can move, and on a relay each: the receive passes from a handler
that has tied the event to the session to `WSARecv` and back (`RecvInv`); the teardown
passes from the thread whose exchange of `_connected` succeeded to `DisconnectEx`
(`TeardownInv`), and a `RegisterSend` that fails inside a `Disconnect` cannot start
another one, because it finds the session disconnected and returns early.
`ImplementsSendChannel` maps `delivered`, the batch in the event and the queue to the
channel's; `BatchInv` adds to `SendInv` what the batch is while a send is being
registered, so that each of the 23 actions is a step of the channel or a stutter.
`NothingStranded` needs `StrandInv`: on a live connection a raised flag has a holder
who has still to look at the queue, which a soft error would break; the theorem says
`~SoftErrors`.

`RecvStreamProofs` proves, for all sizes with header <= packet <= buffer and at
least three buffers, and a stream of any length:

| Theorem | Property |
|---|---|
| `TypeCorrect` | `TypeOK` |
| `ReceiveHasRoom` | `RoomToReceive` |
| `OnlyPeerEnds` | `NeverOverflows` |
| `CopySafe` | `CopyNeverOverlaps` |
| `BufferFaithful` | `BufferHoldsStream` |
| `HeaderAligned` | `StandsOnHeader` |
| `DeliversPackets` | the safety part of `ImplementsPackets` |

The invariant is `TypeOK /\ StreamInv /\ CursorInv /\ ContentInv`. None of the
parts is inductive alone. `RoomToReceive` needs to know that what a handler leaves
unread is less than a packet, which holds because the loop only stops there
(`LeftoverSmall`); hence, when less than a buffer is free, more than a buffer lies
before the read cursor and the copy is disjoint (`CopyDisjoint`). The loop stops
there because it reads a true size, which is so because it stands on a header
(`StandsOnHeader`) in a buffer that holds the stream (`BufferHoldsStream`), and both
survive only if `Clean` copied intact. `StreamInv` says that the packets' ends
increase, so that one byte begins one packet (`HeaderTrue`).

`FindPathProofs` proves, for every set of maps and every depth:

| Theorem | Property |
|---|---|
| `TypeCorrect` | `TypeOK` |
| `PathCanBeWalked` | `PathWalkable` |
| `EndsNearest` | `NearestReached` |
| `ParentsStay` | `ReservedOnce` |
| `EveryCallOfTheHunt` | `TypeOK`, `PathWalkable`, `NearestReached`, of all calls on a monster's way |
| `TurnsAlwaysRunOut` | `TurnsRunOut`: each turn of each call lowers `Left`, a natural number |

`Reach` is the intersection of all sets that hold the monster's cell and are closed
under eligible steps, so no induction is needed: the keys of `best` are in every
such set (`KeysInv`), and when the heap is empty they are one (`FrontierInv`: a key
not in the heap has only keys for eligible neighbours). That a path visits no cell
twice rests on `ParentsInv`: no non-empty set of keys without the monster's cell
contains all its members' parents. New keys hang on old ones, which keeps it true.

`Left` is what ends a call: the loops still to come, each worth more than all
cells within the depth, and of the loop under way the cells it has not come to: not yet
taken off the heap, not yet looked at, not yet on the path. The cells within the depth
lie in a square around the monster, so they are finitely many even on an endless map
(`WithinFinite`). Reserving once is what the search needs for it, the order of parents
what the walk back needs. `HuntInv` is the invariant of many calls: between two of them
only the types hold of what the last one has left over in `best`, `parent` and the heap,
and every call makes the whole invariant hold again (`CallStarts`).

`GameRoomProofs` proves, for every number of sessions, every map and all hit points,
whatever call fails at once and however:

| Theorem | Property |
|---|---|
| `TypeCorrect` | `TypeOK`, every field of every call on the stack included |
| `NobodyStaysDead` | `NobodyDead` |
| `NestingAlwaysEnds` | `NestingEnds` |
| `NestingBounded` | `NestingEnds`, with at most one interrupted broadcast per session |
| `OnlyResetsUndefine` | `StaysDefined` |
| `AttackerAlwaysStays` | `AttackerStays` |
| `TheDisconnectedLeave` | what is left of `DisconnectedHasLeft`: between handlers a player in the room is connected, or was reset among the greetings of `OnConnected` |

The stack is unbounded here, so an invariant about it speaks of one frame, of two that
are neighbours, or of whether some frame exists, and a step's lemma says what happens to
the frames beneath the innermost (`LifeFrame`, `NestFrame`, `FateBeneath`,
`LeaveBeneath`). `LifeInv`: an object without hit points has a call under way that ends
in its removal. `NestingEnds` is inductive: a broadcast becomes an interrupted one only by
the disconnect of the session it stands on, and `_connected` makes that happen once.
`LeaveInv` is the like of `LifeInv` for the disconnected.

`OnlyResetsUndefine` and `AttackerAlwaysStays` rest on where calls may lie in the stack
(`StackInv`): the frame of a receive is the outermost, the rest of an attack lies directly
upon it, and an erase of a player is the outermost but for the monster's attack, or lies
directly upon the loop that stands on this player.
`FateInv` says that while the program is defined whoever attacks is in the room, and that
it becomes undefined by a reset of a send in a broadcast. Such a send is the only thing
that takes the attacker out of the room while its attack lies further down, and then the
loop that made it stands on the attacker, so that the erase loses its iterator first.
That the attacker's send of the move is outstanding when it attacks would not do: after
an error that is no reset the flag is down again, and the next send of the same handler
may be reset.

`CalmRoomProofs` assumes `~EarlyFailures`, that failures are reported by completions
only, as what clients have been told is the room only if nothing told is lost. It proves
for every number of sessions, every map and all hit points:

| Theorem | Property |
|---|---|
| `ViewsAlwaysAgree` | `ViewsAgree` |
| `OnlyKnownObjectsMove` | `MovesAreOfKnownObjects` |

Broadcasts do not nest then, and the stack beneath a broadcast (`Rest`) has one of ten
shapes. `CalmInv` says so, and who is leaving. `ViewInv` is about the middle of a
broadcast: what each client knows, once it has heard the message still on its way to it
(`Heard`), is the room without who is leaving (`Shared`). `ViewsAgree` is this invariant
where no broadcast is under way; its form between handlers alone is not inductive.

`ReplicaRoomProofs` proves `RoomIsReplicated`, under the same assumption: every step of
the room is a step of `Replicas` or a stutter (`ImplementsReplicas`). The truth changes
where a broadcast begins, and each of its sends is a `CatchUp`; a player goes when its
`RemoveObject` begins, while the code still lists it and still sends to it. The truth is
`Shared` of `ViewInv`, which also says that a copy that differs from it belongs to a
client the broadcast has still to visit, so that a change begins only when there is
none. `ViewInv` and `CalmInv` carry the proof, one lemma per kind of step.

`PacketProofs` proves, for every width of the integers that keeps the code's order
(`WidthAssumption`) and whatever objects and lists are sent:

| Theorem | Shows |
|---|---|
| `ByteSizeIs` | `ByteSizeLong` is the number of bytes that are written |
| `ParseSurvives` | what is written is accepted exactly if its strings are UTF-8, and then read as it was, objects in messages included |
| `PacketSurvives` | `Survives` for every well-typed packet of every message type of at most 15 fields, of any size |
| `EveryPacketSurvives` | `AllSurvive`: the same of every packet the game sends |
| `PacketsAlwaysArrive` | `PacketsArrive`, for every buffer, every cut of the stream and every packet that fits the header |

The library's induction theorems take operators, so the module first proves its own in
terms of sets (`MeasureInduction`, `SeqInduction`: a set that is closed under one step
holds everything) and from them that a function defined by recursion exists and has its
type (`RecursionExists`, `RecursionTyped`); every recursive function of `Packets` is an
instance. The argument itself has three parts. A record is `Delimited`: whatever
follows, its front tells its length, because a varint ends at its first byte below 128
(`VarintDelimited`), so that what is written record by record is cut into the same
records (`CutFlatten`), and putting them one after another gives the fields back
(`FieldRead`, `MessageSurvives`). The sizes: `VarintSize64` computes
`(log * 9 + 73) / 64`, which is the number of groups of seven bits for every logarithm
up to 63 and not beyond (`MagicSize`). The sign: a negative `int32` takes the length of
the largest `uint64`, because all numbers from `Wide - Word` up have one logarithm, and
its low bits are itself again, because the width of a `uint64` is a whole number of
`int32`s (`SignedSurvives`). A string that is no UTF-8 is refused where its record is
read (`FieldRefused`), in an object as in a message, and a message is accepted exactly if
none of its records is refused (`MessageAccepted`). `PacketSurvives` is where the
header's `% SizeLimit` comes in.

`PacketsAlwaysArrive` joins the two developments. The invariant of `RecvStreamProofs`
holds of the stream of packets as well, since a packet submitted is a size submitted
(`StreamSteps`); `SubmitStep` keeps that the ends of the stream are those of the packets'
send buffers, `ArriveStep` that the k-th range handed to the parser is the k-th packet's.
As the ends increase, a byte belongs to one packet (`SenderOf`), so the bytes handed over
are that packet's payload (`PayloadArrives`), of which `PacketSurvives` speaks.

`ServerProofs` proves, for every finite set of sockets and every size of the pool:

| Theorem | Property |
|---|---|
| `TypeCorrect` | `TypeOK` |
| `RegistriesAlwaysAgree` | `RegistriesAgree` |
| `PoolAlwaysArmed` | `PoolArmed` |
| `OnlyOperationsKeep` | `NothingLeaks` |
| `ReleaseFindsSession` | `ReleaseAssertHolds` |
| `UsedIsAlwaysAlive` | `UsedIsAlive` |

Inside a handler the registries disagree and an accept is missing, so the invariant says
what the stack owes: a session in `_sessions` is open or has its `release` frame
(`RegInv`), at most once (`Once`), and an accept event that is not posted has its
`accept` frame (`PoolInv`). `RegInv` needs asserts or no session at all: without them
the server is never started (`StartInv`). `UsedIsAlive` needs `LiveInv`, that an open
session has a receive outstanding, which keeps it, or is the session of the handler
under way, which the outermost call holds, or is deaf; a nested disconnect closes a
session but takes neither of the two away. A deaf session is kept by its registries
while it is open, and by the event of the send under way while it is disconnected, so
what is left is the exception that `UsedIsAlive` states.

Assumptions. The theorems rest on the `ASSUME`s of the modules and on nothing else:
numbers are natural numbers, sets of threads and sockets are what they are, the sizes
of the receive buffer are in order. `WidthAssumption` holds of 2^64, 2^32 and 2^16:
the logarithm of 2^64 - 1 is 63, as is that of 2^64 - 2^32. `ContentAssumption` says that
objects and ids have their types and that no packet is as long as 2^64 bytes, which is
what `size_t` counts. `StreamAssumption` says that a header has one size in both modules
and that the packets of the stream are packets of the game that fit it. TLC evaluates
them in every run. `Malformed` is any set of byte strings.

Only model-checked: every liveness property (`PeerLossNoticed`, `AttackEnds`,
`HuntArrives`, `ClosedIsDestroyed`) and the fairness part of the refinements
(`ImplementsLiveChannel`, the liveness of `ImplementsPackets`), which TLAPS cannot
reason about. Every invariant and every action property of a passing run is proved.

## 5. Not modelled

* Third-party code and what protobuf generates beyond the classes the game sends
  (reflection, arenas, merging, `S_TEST`, `BuffData`).
  `SelectAndWSAEventSelect.cpp` is commented out.
* Code without a caller: `CloseService` (empty), `GameSessionManager::Broadcast`,
  `GetRandomEmptyCellPos`, `Make_S_TEST`.
* Wrappers without state of their own: `SocketUtils`, `NetAddress`, `BufferReader`,
  `BufferWriter`. What WinSock may answer through them is in their callers' actions.
* `ClientService::Start` and a `RegisterConnect` that fails: the load client ends there.
* `TileMap::LoadFile` reads a file that is not in the repository; the map is a constant.
* What the receiver makes of a packet of the sizes that wrap: `Survives` says what its
  send buffer is (2.6), but the stream is not given one. Nothing in the repository
  says what should happen.
* What makes a byte string UTF-8 (`Malformed` is a constant).

## 6. Plan

Done: `Session` with its abstract channel and its refinement as a theorem; `GameRoom`
with its re-entrance, theorems for both kinds of failure, and its refinement of
`Replicas` as a theorem; `RecvStream` with its abstract channel, `Packets` in it, and
theorems about both; `FindPath` with its theorems, and the hunt; `Server` with its
theorems.

Left: that the `FindPath` which `GameRoom` abstracts and the one of module `FindPath`
take the same steps, as a theorem; that a step of the hunt keeps its distance in reach
unless a detour is cut; a monster and a player on the move at once in `Hunt`.
