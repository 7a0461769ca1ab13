------------------------------- MODULE Session -------------------------------
(***************************************************************************)
(* ServerCore's Session: one TCP connection whose overlapped operations    *)
(* complete on an I/O completion port served by a set of worker threads.   *)
(*                                                                         *)
(* GameServer runs the port on one thread, DummyClient on five, and any    *)
(* thread that holds the session may call Send; the set Threads covers     *)
(* both.  A thread executes at most three nested calls on the session, one *)
(* per program counter:                                                    *)
(*                                                                         *)
(*   base[t]  the handler the thread was dispatched into;                  *)
(*   send[t]  RegisterSend, called by Send or by ProcessSend;              *)
(*   disc[t]  Disconnect, called by a handler or by a failing RegisterX.   *)
(*                                                                         *)
(* The blocks under WRITE_LOCK make no calls, so each of them is one step; *)
(* every other step touches at most one shared atomic.                     *)
(*                                                                         *)
(* Contents code (OnConnected, OnRecv, OnDisconnected of the derived       *)
(* class) is represented by what it may do to the session: call Send.      *)
(* Buffers are numbered in the order Send pushed them.                     *)
(***************************************************************************)
EXTENDS Naturals, Sequences, FiniteSets

CONSTANTS
  Threads,        \* threads that serve the completion port or call Send
  MaxSends,       \* bound on the calls of Send
  SoftErrors      \* WSASend / WSARecv may fail with an error HandleError only logs

ASSUME ThreadsAssumption == Threads # {}
ASSUME MaxSendsAssumption == MaxSends \in Nat
ASSUME SoftErrorsAssumption == SoftErrors \in BOOLEAN

VARIABLES
  \* ---- members of Session
  connected,      \* _connected
  sendQueue,      \* _sendQueue
  sendRegistered, \* _sendResitered
  sendOwner,      \* _sendEvent.owner # nullptr
  sendBuffers,    \* _sendEvent.sendBuffers
  recvOwner,      \* _recvEvent.owner # nullptr
  discOwner,      \* _disconnectEvent.owner # nullptr
  inService,      \* the session is in Service::_sessions
  \* ---- control of the threads
  base, send, disc,
  \* ---- the operating system's side
  connectIo,      \* "done": connect/accept completion queued, "handled": dispatched
  sendIo,         \* outstanding WSASend: none, pending, ok, zero
  recvIo,         \* outstanding WSARecv: none, pending, ok, zero
  discIo,         \* outstanding DisconnectEx: none, pending, ok
  closing,        \* DisconnectEx was accepted: outstanding operations are aborted
  peerGone,       \* the peer closed or reset the connection
  \* ---- history
  accepted,       \* number of buffers pushed by Send
  delivered       \* buffers whose WSASend completed, in order

members == <<connected, sendQueue, sendRegistered, sendOwner, sendBuffers,
             recvOwner, discOwner, inService>>
control == <<base, send, disc>>
kernel == <<connectIo, sendIo, recvIo, discIo, closing, peerGone>>
history == <<accepted, delivered>>
vars == <<connected, sendQueue, sendRegistered, sendOwner, sendBuffers,
          recvOwner, discOwner, inService, base, send, disc, connectIo, sendIo,
          recvIo, discIo, closing, peerGone, accepted, delivered>>

BasePCs == {"idle", "onConnected", "onRecv", "registerRecv", "postRecv",
            "recvFailed", "sent"}
SendPCs == {"none", "check", "drain", "post", "failed"}
DiscPCs == {"none", "exchange", "onDisconnected", "release", "registerDisconnect"}
IoStates == {"none", "pending", "ok", "zero"}

Buffer == Nat \ {0}      \* a SendBufferRef, by its place in the order of sending

TypeOK ==
  /\ connected \in BOOLEAN
  /\ sendQueue \in Seq(Buffer)
  /\ sendRegistered \in BOOLEAN
  /\ sendOwner \in BOOLEAN
  /\ sendBuffers \in Seq(Buffer)
  /\ recvOwner \in BOOLEAN
  /\ discOwner \in BOOLEAN
  /\ inService \in BOOLEAN
  /\ base \in [Threads -> BasePCs]
  /\ send \in [Threads -> SendPCs]
  /\ disc \in [Threads -> DiscPCs]
  /\ connectIo \in {"done", "handled"}
  /\ sendIo \in IoStates
  /\ recvIo \in IoStates
  /\ discIo \in {"none", "pending", "ok"}
  /\ closing \in BOOLEAN
  /\ peerGone \in BOOLEAN
  /\ accepted \in Nat
  /\ delivered \in Seq(Buffer)

Init ==
  /\ connected = FALSE
  /\ sendQueue = << >>
  /\ sendRegistered = FALSE
  /\ sendOwner = FALSE
  /\ sendBuffers = << >>
  /\ recvOwner = FALSE
  /\ discOwner = FALSE
  /\ inService = FALSE
  /\ base = [t \in Threads |-> "idle"]
  /\ send = [t \in Threads |-> "none"]
  /\ disc = [t \in Threads |-> "none"]
  /\ connectIo = "done"
  /\ sendIo = "none"
  /\ recvIo = "none"
  /\ discIo = "none"
  /\ closing = FALSE
  /\ peerGone = FALSE
  /\ accepted = 0
  /\ delivered = << >>

-----------------------------------------------------------------------------
(* Which call is on top of a thread's stack.                               *)

\* The thread is not inside any call on this session.
Idle(t) == base[t] = "idle" /\ send[t] = "none" /\ disc[t] = "none"

\* The thread's handler is running, not a RegisterSend or Disconnect it called.
InHandler(t, pc) == base[t] = pc /\ send[t] = "none" /\ disc[t] = "none"

\* Disconnect is on top: nothing above it, whatever called it below.
InDisconnect(t, pc) == disc[t] = pc /\ send[t] \in {"none", "failed"}

\* The thread runs contents code that holds the session, so it may call Send.
InContents(t) ==
  \/ InDisconnect(t, "onDisconnected")
  \/ InHandler(t, "onConnected")
  \/ InHandler(t, "onRecv")
  \/ Idle(t) /\ connectIo = "handled"

-----------------------------------------------------------------------------
(* Sending.                                                                *)

\* ERROR for checking: the flag is not consulted, every caller registers.
AlwaysTakesToken == TRUE

\* _sendResitered.exchange(true) == false, under the lock.
TakesToken == ~sendRegistered

\* Push under the lock; the caller that flips the flag must register.
Send(t) ==
  /\ InContents(t)
  /\ accepted < MaxSends
  /\ accepted' = accepted + 1
  /\ sendQueue' = Append(sendQueue, accepted + 1)
  /\ sendRegistered' = TRUE
  /\ send' = IF TakesToken THEN [send EXCEPT ![t] = "check"] ELSE send
  /\ UNCHANGED <<connected, sendOwner, sendBuffers, recvOwner, discOwner,
                 inService, base, disc, delivered>>
  /\ UNCHANGED kernel

\* RegisterSend returns early when disconnected and leaves the flag raised.
RegisterSend(t) ==
  /\ send[t] = "check"
  /\ \/ /\ ~connected
        /\ send' = [send EXCEPT ![t] = "none"]
        /\ UNCHANGED <<sendOwner, sendBuffers>>
     \/ /\ connected
        /\ send' = [send EXCEPT ![t] = "drain"]
        /\ sendOwner' = TRUE
        /\ sendBuffers' = << >>
  /\ UNCHANGED <<connected, sendQueue, sendRegistered, recvOwner, discOwner,
                 inService, base, disc>>
  /\ UNCHANGED kernel /\ UNCHANGED history

\* ERROR for checking: pop() before front(), the last read is past the end.
DrainQueueShifted(t) ==
  /\ send[t] = "drain"
  /\ send' = [send EXCEPT ![t] = "post"]
  /\ sendBuffers' = Append(sendBuffers \o Tail(sendQueue), 0)
  /\ sendQueue' = << >>
  /\ UNCHANGED <<connected, sendRegistered, sendOwner, recvOwner, discOwner,
                 inService, base, disc>>
  /\ UNCHANGED kernel /\ UNCHANGED history

\* Under the lock, the whole queue moves into the event.
DrainQueue(t) ==
  /\ send[t] = "drain"
  /\ send' = [send EXCEPT ![t] = "post"]
  /\ sendBuffers' = sendBuffers \o sendQueue
  /\ sendQueue' = << >>
  /\ UNCHANGED <<connected, sendRegistered, sendOwner, recvOwner, discOwner,
                 inService, base, disc>>
  /\ UNCHANGED kernel /\ UNCHANGED history

\* WSASend accepts the batch, fails with a reset (HandleError disconnects) or
\* fails with another error (HandleError logs).
PostSend(t) ==
  /\ send[t] = "post"
  /\ \/ /\ send' = [send EXCEPT ![t] = "none"]
        /\ sendIo' = "pending"
        /\ UNCHANGED disc
     \/ /\ peerGone
        /\ send' = [send EXCEPT ![t] = "failed"]
        /\ disc' = [disc EXCEPT ![t] = "exchange"]
        /\ UNCHANGED sendIo
     \/ /\ SoftErrors \/ ~connected
        /\ send' = [send EXCEPT ![t] = "failed"]
        /\ UNCHANGED <<disc, sendIo>>
  /\ UNCHANGED <<base, connectIo, recvIo, discIo, closing, peerGone>>
  /\ UNCHANGED members /\ UNCHANGED history

\* ERROR for checking: a failed batch goes back into the queue.
AbandonSendRequeued(t) ==
  /\ send[t] = "failed"
  /\ disc[t] = "none"
  /\ send' = [send EXCEPT ![t] = "none"]
  /\ sendOwner' = FALSE
  /\ sendQueue' = sendQueue \o sendBuffers
  /\ sendBuffers' = << >>
  /\ sendRegistered' = FALSE
  /\ UNCHANGED <<connected, recvOwner, discOwner, inService, base, disc>>
  /\ UNCHANGED kernel /\ UNCHANGED history

\* After HandleError: release the event, drop its buffers, lower the flag.
AbandonSend(t) ==
  /\ send[t] = "failed"
  /\ disc[t] = "none"
  /\ send' = [send EXCEPT ![t] = "none"]
  /\ sendOwner' = FALSE
  /\ sendBuffers' = << >>
  /\ sendRegistered' = FALSE
  /\ UNCHANGED <<connected, sendQueue, recvOwner, discOwner, inService, base,
                 disc>>
  /\ UNCHANGED kernel /\ UNCHANGED history

\* ProcessSend up to its lock: zero bytes means disconnect.
ProcessSend(t) ==
  /\ Idle(t)
  /\ sendIo \in {"ok", "zero"}
  /\ sendIo' = "none"
  /\ sendOwner' = FALSE
  /\ sendBuffers' = << >>
  /\ \/ /\ sendIo = "zero"
        /\ disc' = [disc EXCEPT ![t] = "exchange"]
        /\ UNCHANGED <<base, delivered>>
     \/ /\ sendIo = "ok"
        /\ base' = [base EXCEPT ![t] = "sent"]
        /\ delivered' = delivered \o sendBuffers
        /\ UNCHANGED disc
  /\ UNCHANGED <<connected, sendQueue, sendRegistered, recvOwner, discOwner,
                 inService, send, connectIo, recvIo, discIo, closing, peerGone,
                 accepted>>

\* ERRORS for checking: never look at the queue again; always register.
NothingWaits == FALSE
AlwaysWaits == TRUE

\* _sendQueue.empty() == false, under the lock.
BuffersWait == sendQueue # << >>

\* ProcessSend's locked block: lower the flag only when nothing waits.
FinishSend(t) ==
  /\ InHandler(t, "sent")
  /\ base' = [base EXCEPT ![t] = "idle"]
  /\ \/ /\ ~BuffersWait
        /\ sendRegistered' = FALSE
        /\ UNCHANGED send
     \/ /\ BuffersWait
        /\ send' = [send EXCEPT ![t] = "check"]
        /\ UNCHANGED sendRegistered
  /\ UNCHANGED <<connected, sendQueue, sendOwner, sendBuffers, recvOwner,
                 discOwner, inService, disc>>
  /\ UNCHANGED kernel /\ UNCHANGED history

-----------------------------------------------------------------------------
(* Connecting, receiving and disconnecting.                                *)

\* ProcessConnect up to OnConnected; nobody else holds the session yet.
ProcessConnect(t) ==
  /\ Idle(t)
  /\ connectIo = "done"
  /\ connectIo' = "handled"
  /\ connected' = TRUE
  /\ inService' = TRUE
  /\ base' = [base EXCEPT ![t] = "onConnected"]
  /\ UNCHANGED <<sendQueue, sendRegistered, sendOwner, sendBuffers, recvOwner,
                 discOwner, send, disc, sendIo, recvIo, discIo, closing,
                 peerGone>>
  /\ UNCHANGED history

\* OnConnected or OnRecv returns; the handler goes on to RegisterRecv.
ContentsReturn(t) ==
  /\ InHandler(t, "onConnected") \/ InHandler(t, "onRecv")
  /\ base' = [base EXCEPT ![t] = "registerRecv"]
  /\ UNCHANGED <<send, disc>>
  /\ UNCHANGED members /\ UNCHANGED kernel /\ UNCHANGED history

\* ERROR for checking: the event does not take its reference to the session.
RegisterRecvUnowned(t) ==
  /\ InHandler(t, "registerRecv")
  /\ base' = [base EXCEPT ![t] = IF connected THEN "postRecv" ELSE "idle"]
  /\ UNCHANGED <<send, disc>>
  /\ UNCHANGED members /\ UNCHANGED kernel /\ UNCHANGED history

RegisterRecv(t) ==
  /\ InHandler(t, "registerRecv")
  /\ \/ /\ ~connected
        /\ base' = [base EXCEPT ![t] = "idle"]
        /\ UNCHANGED recvOwner
     \/ /\ connected
        /\ base' = [base EXCEPT ![t] = "postRecv"]
        /\ recvOwner' = TRUE
  /\ UNCHANGED <<connected, sendQueue, sendRegistered, sendOwner, sendBuffers,
                 discOwner, inService, send, disc>>
  /\ UNCHANGED kernel /\ UNCHANGED history

PostRecv(t) ==
  /\ InHandler(t, "postRecv")
  /\ \/ /\ base' = [base EXCEPT ![t] = "idle"]
        /\ recvIo' = "pending"
        /\ UNCHANGED disc
     \/ /\ peerGone
        /\ base' = [base EXCEPT ![t] = "recvFailed"]
        /\ disc' = [disc EXCEPT ![t] = "exchange"]
        /\ UNCHANGED recvIo
     \/ /\ SoftErrors \/ ~connected
        /\ base' = [base EXCEPT ![t] = "recvFailed"]
        /\ UNCHANGED <<disc, recvIo>>
  /\ UNCHANGED <<send, connectIo, sendIo, discIo, closing, peerGone>>
  /\ UNCHANGED members /\ UNCHANGED history

AbandonRecv(t) ==
  /\ InHandler(t, "recvFailed")
  /\ base' = [base EXCEPT ![t] = "idle"]
  /\ recvOwner' = FALSE
  /\ UNCHANGED <<connected, sendQueue, sendRegistered, sendOwner, sendBuffers,
                 discOwner, inService, send, disc>>
  /\ UNCHANGED kernel /\ UNCHANGED history

\* ERROR for checking: zero bytes end the handler without Disconnect.
ProcessRecvSilent(t) ==
  /\ Idle(t)
  /\ recvIo \in {"ok", "zero"}
  /\ recvIo' = "none"
  /\ recvOwner' = FALSE
  /\ base' = [base EXCEPT ![t] = IF recvIo = "ok" THEN "onRecv" ELSE "idle"]
  /\ UNCHANGED <<connected, sendQueue, sendRegistered, sendOwner, sendBuffers,
                 discOwner, inService, send, disc, connectIo, sendIo, discIo,
                 closing, peerGone>>
  /\ UNCHANGED history

\* ProcessRecv up to OnRecv; zero bytes means disconnect.
ProcessRecv(t) ==
  /\ Idle(t)
  /\ recvIo \in {"ok", "zero"}
  /\ recvIo' = "none"
  /\ recvOwner' = FALSE
  /\ \/ /\ recvIo = "zero"
        /\ disc' = [disc EXCEPT ![t] = "exchange"]
        /\ UNCHANGED base
     \/ /\ recvIo = "ok"
        /\ base' = [base EXCEPT ![t] = "onRecv"]
        /\ UNCHANGED disc
  /\ UNCHANGED <<connected, sendQueue, sendRegistered, sendOwner, sendBuffers,
                 discOwner, inService, send, connectIo, sendIo, discIo,
                 closing, peerGone>>
  /\ UNCHANGED history

\* ERROR for checking: _connected is stored, not exchanged.
DisconnectUnguarded(t) ==
  /\ InDisconnect(t, "exchange")
  /\ connected' = FALSE
  /\ disc' = [disc EXCEPT ![t] = "onDisconnected"]
  /\ UNCHANGED <<sendQueue, sendRegistered, sendOwner, sendBuffers, recvOwner,
                 discOwner, inService, base, send>>
  /\ UNCHANGED kernel /\ UNCHANGED history

\* Disconnect: only the caller that flips _connected goes on.
Disconnect(t) ==
  /\ InDisconnect(t, "exchange")
  /\ connected' = FALSE
  /\ disc' = [disc EXCEPT ![t] = IF connected THEN "onDisconnected" ELSE "none"]
  /\ UNCHANGED <<sendQueue, sendRegistered, sendOwner, sendBuffers, recvOwner,
                 discOwner, inService, base, send>>
  /\ UNCHANGED kernel /\ UNCHANGED history

OnDisconnectedReturn(t) ==
  /\ InDisconnect(t, "onDisconnected")
  /\ disc' = [disc EXCEPT ![t] = "release"]
  /\ UNCHANGED <<base, send>>
  /\ UNCHANGED members /\ UNCHANGED kernel /\ UNCHANGED history

ReleaseSession(t) ==
  /\ InDisconnect(t, "release")
  /\ inService' = FALSE
  /\ disc' = [disc EXCEPT ![t] = "registerDisconnect"]
  /\ UNCHANGED <<connected, sendQueue, sendRegistered, sendOwner, sendBuffers,
                 recvOwner, discOwner, base, send>>
  /\ UNCHANGED kernel /\ UNCHANGED history

\* DisconnectEx is accepted, or fails and the event is released at once.
RegisterDisconnect(t) ==
  /\ InDisconnect(t, "registerDisconnect")
  /\ disc' = [disc EXCEPT ![t] = "none"]
  /\ \/ /\ discOwner' = TRUE
        /\ discIo' = "pending"
        /\ closing' = TRUE
     \/ /\ peerGone
        /\ discOwner' = FALSE
        /\ UNCHANGED <<discIo, closing>>
  /\ UNCHANGED <<connected, sendQueue, sendRegistered, sendOwner, sendBuffers,
                 recvOwner, inService, base, send, connectIo, sendIo, recvIo,
                 peerGone>>
  /\ UNCHANGED history

ProcessDisconnect(t) ==
  /\ Idle(t)
  /\ discIo = "ok"
  /\ discIo' = "none"
  /\ discOwner' = FALSE
  /\ UNCHANGED <<connected, sendQueue, sendRegistered, sendOwner, sendBuffers,
                 recvOwner, inService, connectIo, sendIo, recvIo, closing,
                 peerGone>>
  /\ UNCHANGED control /\ UNCHANGED history

-----------------------------------------------------------------------------
(* The operating system: the peer goes away, operations complete.          *)

PeerLeaves ==
  /\ ~peerGone
  /\ peerGone' = TRUE
  /\ UNCHANGED <<connectIo, sendIo, recvIo, discIo, closing>>
  /\ UNCHANGED members /\ UNCHANGED control /\ UNCHANGED history

CompleteSend ==
  /\ sendIo = "pending"
  /\ \/ sendIo' = "ok"
     \/ /\ peerGone \/ closing
        /\ sendIo' = "zero"
  /\ UNCHANGED <<connectIo, recvIo, discIo, closing, peerGone>>
  /\ UNCHANGED members /\ UNCHANGED control /\ UNCHANGED history

ReceiveBytes ==
  /\ recvIo = "pending"
  /\ recvIo' = "ok"
  /\ UNCHANGED <<connectIo, sendIo, discIo, closing, peerGone>>
  /\ UNCHANGED members /\ UNCHANGED control /\ UNCHANGED history

ReceiveEnd ==
  /\ recvIo = "pending"
  /\ peerGone \/ closing
  /\ recvIo' = "zero"
  /\ UNCHANGED <<connectIo, sendIo, discIo, closing, peerGone>>
  /\ UNCHANGED members /\ UNCHANGED control /\ UNCHANGED history

CompleteDisconnect ==
  /\ discIo = "pending"
  /\ discIo' = "ok"
  /\ UNCHANGED <<connectIo, sendIo, recvIo, closing, peerGone>>
  /\ UNCHANGED members /\ UNCHANGED control /\ UNCHANGED history

-----------------------------------------------------------------------------
\* A thread inside a call on the session takes its next step.
Run(t) ==
  \/ RegisterSend(t) \/ DrainQueue(t) \/ PostSend(t) \/ AbandonSend(t)
  \/ FinishSend(t)
  \/ ContentsReturn(t) \/ RegisterRecv(t) \/ PostRecv(t) \/ AbandonRecv(t)
  \/ Disconnect(t) \/ OnDisconnectedReturn(t) \/ ReleaseSession(t)
  \/ RegisterDisconnect(t)

\* An idle thread takes a completion of this session off the port.
Dispatch(t) ==
  ProcessConnect(t) \/ ProcessSend(t) \/ ProcessRecv(t) \/ ProcessDisconnect(t)

Kernel ==
  PeerLeaves \/ CompleteSend \/ ReceiveBytes \/ ReceiveEnd \/ CompleteDisconnect

Next == (\E t \in Threads : Send(t) \/ Run(t) \/ Dispatch(t)) \/ Kernel

(***************************************************************************)
(* Threads keep running, some thread serves the port, and the operating    *)
(* system settles what it accepted; a receive with nothing to receive may  *)
(* stay pending, so only its end is fair.  Neither callers of Send nor the *)
(* peer owe anyone a step.                                                 *)
(***************************************************************************)
Fairness ==
  /\ \A t \in Threads : WF_vars(Run(t))
  /\ WF_vars(\E t \in Threads : ProcessConnect(t))
  /\ WF_vars(\E t \in Threads : ProcessSend(t))
  /\ WF_vars(\E t \in Threads : ProcessRecv(t))
  /\ WF_vars(\E t \in Threads : ProcessDisconnect(t))
  /\ WF_vars(CompleteSend)
  /\ SF_vars(ReceiveEnd)
  /\ WF_vars(CompleteDisconnect)

SafeSpec == Init /\ [][Next]_vars

Spec == SafeSpec /\ Fairness
-----------------------------------------------------------------------------
(* Safety.                                                                 *)

\* The thread that raised the send flag and has not lowered it or handed the
\* event to the operating system.
Holds(t) == send[t] # "none" \/ base[t] = "sent"

\* Whoever uses _sendEvent, _sendBuffers and WSASend is alone: the flag
\* _sendResitered (Send, RegisterSend, ProcessSend) is a token held by one
\* thread or by the outstanding WSASend, never by both.
SendExclusive ==
  /\ \A t, u \in Threads : Holds(t) /\ Holds(u) => t = u
  /\ (\E t \in Threads : Holds(t)) => sendRegistered /\ sendIo = "none"
  /\ sendIo # "none" => sendRegistered

\* An outstanding WSASend keeps the session and a non-empty batch alive; an
\* empty batch would complete with zero bytes and ProcessSend would take the
\* completion for the end of the connection.
SendBatchReady ==
  /\ \A t \in Threads : send[t] = "post" => sendOwner /\ sendBuffers # << >>
  /\ sendIo # "none" => sendOwner /\ sendBuffers # << >>

\* The operating system reads a pending batch in place: between RegisterSend
\* and ProcessSend nobody clears the event or drops the session's reference.
PendingBatchStable ==
  [][sendIo = "pending" => UNCHANGED <<sendOwner, sendBuffers>>]_vars

IsIncreasing(s) == \A i, j \in DOMAIN s : i < j => s[i] < s[j]

\* Buffers reach the socket in the order of the calls of Send, none twice,
\* whatever threads call Send and whatever batches are lost.
SendFifo == IsIncreasing(delivered \o sendBuffers \o sendQueue)

\* While the session is connected a queued buffer always has somebody who will
\* look at the queue again: a registering thread, a completion, or a Disconnect
\* under way (Send's exchange against ProcessSend's test under the lock).
NoStranding ==
  connected /\ sendQueue # << >> =>
    \/ \E t \in Threads : Holds(t) \/ disc[t] = "exchange"
    \/ sendIo # "none"

ReceivePCs == {"onConnected", "onRecv", "registerRecv", "postRecv", "recvFailed"}

Receives(t) == base[t] \in ReceivePCs

\* The receive buffer has one user: the handler of one completion or the
\* outstanding WSARecv, which keeps the session alive.
RecvExclusive ==
  /\ \A t, u \in Threads : Receives(t) /\ Receives(u) => t = u
  /\ (\E t \in Threads : Receives(t)) => recvIo = "none"
  /\ recvIo # "none" => recvOwner

TearsDown(t) == disc[t] \in {"onDisconnected", "release", "registerDisconnect"}

\* However many handlers find the connection broken, one of them runs
\* OnDisconnected and ReleaseSession, and it finds the session among the
\* service's sessions (the assertion of Service::ReleaseSession).
TeardownOnce ==
  /\ \A t, u \in Threads : TearsDown(t) /\ TearsDown(u) => t = u
  /\ \A t \in Threads : TearsDown(t) => ~connected /\ discIo = "none"
  /\ inService <=>
       connected \/ \E t \in Threads : disc[t] \in {"onDisconnected", "release"}

-----------------------------------------------------------------------------
(* Liveness.                                                               *)

\* A peer that goes away is noticed, by the receive if by nothing else.
PeerLossNoticed == connectIo = "handled" /\ peerGone ~> ~connected

-----------------------------------------------------------------------------
\* Once a Disconnect has been called on it the channel is not open.
Channel ==
  INSTANCE SendChannel WITH
    Lossy <- SoftErrors,
    waiting <- sendQueue,
    flight <- sendBuffers,
    open <- /\ connectIo = "done" \/ connected
            /\ \A t \in Threads : disc[t] # "exchange"

\* Session::Send with its lock, flag and completions is the plain batched
\* channel: nothing is duplicated, reordered or dropped outside a failed batch.
ImplementsChannel == Channel!SafeSpec

\* Fairness of threads and port gives the channel's: an open channel moves.
ImplementsLiveChannel == Channel!Spec
=============================================================================
