---------------------------- MODULE SessionProofs ----------------------------
(***************************************************************************)
(* Proofs about Session, for every set of threads and every outcome of the *)
(* operating system's calls.                                               *)
(***************************************************************************)
EXTENDS Session, SequenceTheorems, TLAPS

USE DEF members, control, kernel, history

\* The program counters and completion states that the actions assign.
LEMMA ControlValues ==
  /\ "idle" \in BasePCs /\ "onConnected" \in BasePCs /\ "onRecv" \in BasePCs
  /\ "registerRecv" \in BasePCs /\ "postRecv" \in BasePCs
  /\ "recvFailed" \in BasePCs /\ "sent" \in BasePCs
  /\ "none" \in SendPCs /\ "check" \in SendPCs /\ "drain" \in SendPCs
  /\ "post" \in SendPCs /\ "failed" \in SendPCs
  /\ "none" \in DiscPCs /\ "exchange" \in DiscPCs
  /\ "onDisconnected" \in DiscPCs /\ "release" \in DiscPCs
  /\ "registerDisconnect" \in DiscPCs
  /\ "none" \in IoStates /\ "pending" \in IoStates /\ "ok" \in IoStates
  /\ "zero" \in IoStates
  BY DEF BasePCs, SendPCs, DiscPCs, IoStates

(***************************************************************************)
(* Every step of the session keeps the type of every variable.             *)
(***************************************************************************)
LEMMA TypeStep == TypeOK /\ [Next]_vars => TypeOK'
<1> USE ControlValues DEF TypeOK
<1>1. << >> \in Seq(Buffer)
  OBVIOUS
<1>2. ASSUME TypeOK, NEW t \in Threads, Send(t) PROVE TypeOK'
  <2>1. accepted + 1 \in Buffer /\ accepted + 1 \in Nat
    BY <1>2 DEF Buffer
  <2>2. Append(sendQueue, accepted + 1) \in Seq(Buffer)
    BY <1>2, <2>1
  <2> QED
    BY <1>2, <2>1, <2>2 DEF Send
<1>3. ASSUME TypeOK, NEW t \in Threads, RegisterSend(t) PROVE TypeOK'
  BY <1>1, <1>3 DEF RegisterSend
<1>4. ASSUME TypeOK, NEW t \in Threads, DrainQueue(t) PROVE TypeOK'
  <2>1. sendBuffers \o sendQueue \in Seq(Buffer)
    BY <1>4, ConcatProperties
  <2> QED
    BY <1>1, <1>4, <2>1 DEF DrainQueue
<1>5. ASSUME TypeOK, NEW t \in Threads, PostSend(t) PROVE TypeOK'
  <2>1. send' \in [Threads -> SendPCs] /\ disc' \in [Threads -> DiscPCs]
    BY <1>5 DEF PostSend
  <2>2. sendIo' \in IoStates
    BY <1>5 DEF PostSend
  <2> QED
    BY <1>5, <2>1, <2>2 DEF PostSend
<1>6. ASSUME TypeOK, NEW t \in Threads, AbandonSend(t) PROVE TypeOK'
  BY <1>1, <1>6 DEF AbandonSend
<1>7. ASSUME TypeOK, NEW t \in Threads, ProcessSend(t) PROVE TypeOK'
  <2>1. delivered \o sendBuffers \in Seq(Buffer)
    BY <1>7, ConcatProperties
  <2> QED
    BY <1>1, <1>7, <2>1 DEF ProcessSend
<1>8. ASSUME TypeOK, NEW t \in Threads, FinishSend(t) PROVE TypeOK'
  BY <1>8 DEF FinishSend
<1>9. ASSUME TypeOK, NEW t \in Threads, ContentsReturn(t) PROVE TypeOK'
  BY <1>9 DEF ContentsReturn
<1>10. ASSUME TypeOK, NEW t \in Threads, RegisterRecv(t) PROVE TypeOK'
  BY <1>10 DEF RegisterRecv
<1>11. ASSUME TypeOK, NEW t \in Threads, PostRecv(t) PROVE TypeOK'
  BY <1>11 DEF PostRecv
<1>12. ASSUME TypeOK, NEW t \in Threads, AbandonRecv(t) PROVE TypeOK'
  BY <1>12 DEF AbandonRecv
<1>13. ASSUME TypeOK, NEW t \in Threads, Disconnect(t) PROVE TypeOK'
  BY <1>13 DEF Disconnect
<1>14. ASSUME TypeOK, NEW t \in Threads, OnDisconnectedReturn(t) PROVE TypeOK'
  BY <1>14 DEF OnDisconnectedReturn
<1>15. ASSUME TypeOK, NEW t \in Threads, ReleaseSession(t) PROVE TypeOK'
  BY <1>15 DEF ReleaseSession
<1>16. ASSUME TypeOK, NEW t \in Threads, RegisterDisconnect(t) PROVE TypeOK'
  BY <1>16 DEF RegisterDisconnect
<1>17. ASSUME TypeOK, NEW t \in Threads, ProcessConnect(t) PROVE TypeOK'
  BY <1>17 DEF ProcessConnect
<1>18. ASSUME TypeOK, NEW t \in Threads, ProcessRecv(t) PROVE TypeOK'
  BY <1>18 DEF ProcessRecv
<1>19. ASSUME TypeOK, NEW t \in Threads, ProcessDisconnect(t) PROVE TypeOK'
  BY <1>19 DEF ProcessDisconnect
<1>20. ASSUME TypeOK, PeerLeaves \/ CompleteDisconnect PROVE TypeOK'
  BY <1>20 DEF PeerLeaves, CompleteDisconnect
<1>21. ASSUME TypeOK, CompleteSend PROVE TypeOK'
  BY <1>21 DEF CompleteSend
<1>22. ASSUME TypeOK, ReceiveBytes \/ ReceiveEnd PROVE TypeOK'
  BY <1>22 DEF ReceiveBytes, ReceiveEnd
<1>23. ASSUME TypeOK, UNCHANGED vars PROVE TypeOK'
  BY <1>23 DEF vars
<1> HIDE DEF TypeOK
<1> QED
  BY <1>1, <1>2, <1>3, <1>4, <1>5, <1>6, <1>7, <1>8, <1>9, <1>10, <1>11,
     <1>12, <1>13, <1>14, <1>15, <1>16, <1>17, <1>18, <1>19,
     <1>20, <1>21, <1>22, <1>23 DEF Next, Run, Dispatch, Kernel

(***************************************************************************)
(* Type correctness of Session.                                            *)
(***************************************************************************)
THEOREM TypeCorrect == SafeSpec => []TypeOK
<1>1. Init => TypeOK
  <2> SUFFICES ASSUME Init PROVE TypeOK
    OBVIOUS
  <2>1. << >> \in Seq(Buffer)
    OBVIOUS
  <2>2. /\ base \in [Threads -> BasePCs]
        /\ send \in [Threads -> SendPCs]
        /\ disc \in [Threads -> DiscPCs]
    BY ControlValues DEF Init
  <2>3. sendQueue \in Seq(Buffer) /\ sendBuffers \in Seq(Buffer)
        /\ delivered \in Seq(Buffer)
    BY <2>1, Zenon DEF Init
  <2>4. sendIo \in IoStates /\ recvIo \in IoStates
    BY ControlValues DEF Init
  <2> QED
    BY <2>2, <2>3, <2>4 DEF Init, TypeOK
<1> QED
  BY <1>1, TypeStep, PTL DEF SafeSpec

-----------------------------------------------------------------------------
(***************************************************************************)
(* The send flag as a token.  Exclusion alone is not inductive: that the   *)
(* batch is never empty needs that a thread on its way to the queue finds  *)
(* something there, which is so because only a token holder empties it.    *)
(***************************************************************************)
SendInv ==
  /\ SendExclusive
  /\ SendBatchReady
  /\ \A t \in Threads : send[t] \in {"check", "drain"} => sendQueue # << >>
  /\ \A t \in Threads : send[t] = "drain" => sendOwner
  /\ \A t \in Threads : base[t] = "sent" => send[t] = "none" /\ disc[t] = "none"

\* Steps of the handlers that touch neither the send path nor a base frame
\* "sent" leave the token where it is.
LEMMA SendFrame ==
  ASSUME SendInv,
         UNCHANGED <<sendRegistered, sendIo, sendOwner, sendBuffers,
                     sendQueue, send>>,
         \A t \in Threads : base'[t] = "sent" =>
                              base[t] = "sent" /\ disc'[t] = disc[t]
  PROVE  SendInv'
BY DEF SendInv, SendExclusive, SendBatchReady, Holds

\* Every step of the session hands the send token on or leaves it where it is.
LEMMA SendInvStep == TypeOK /\ SendInv /\ [Next]_vars => SendInv'
<1> USE DEF SendInv, SendExclusive, SendBatchReady, Holds
<1>1. ASSUME TypeOK, SendInv, NEW t \in Threads, Send(t) PROVE SendInv'
  <2>1. sendQueue' # << >>
    BY <1>1 DEF Send, TypeOK, Buffer
  <2>2. CASE TakesToken
    BY <1>1, <2>1, <2>2 DEF Send, TypeOK, TakesToken
  <2>3. CASE ~TakesToken
    BY <1>1, <2>1, <2>3 DEF Send, TypeOK, TakesToken
  <2> QED
    BY <2>2, <2>3
<1>2. ASSUME TypeOK, SendInv, NEW t \in Threads, RegisterSend(t) PROVE SendInv'
  BY <1>2 DEF RegisterSend, TypeOK
<1>3. ASSUME TypeOK, SendInv, NEW t \in Threads, DrainQueue(t) PROVE SendInv'
  <2>1. sendRegistered /\ \A u \in Threads : Holds(u) => u = t
    BY <1>3 DEF DrainQueue
  <2>2. sendBuffers' # << >> /\ sendOwner'
    BY <1>3, ConcatEqualIffEmpty DEF DrainQueue, TypeOK
  <2>3. sendIo' = "none" /\ sendRegistered'
    BY <1>3 DEF DrainQueue
  <2>4. \A u \in Threads : Holds(u)' => u = t
    BY <1>3, <2>1 DEF DrainQueue, TypeOK
  <2>5. send'[t] = "post"
    BY <1>3 DEF DrainQueue, TypeOK
  <2>6. \A u \in Threads : base'[u] # "sent"
    BY <1>3, <2>1 DEF DrainQueue
  <2> QED
    BY <2>2, <2>3, <2>4, <2>5, <2>6
<1>4. ASSUME TypeOK, SendInv, NEW t \in Threads, PostSend(t) PROVE SendInv'
  <2>1. sendRegistered /\ \A u \in Threads : Holds(u) => u = t
    BY <1>4 DEF PostSend
  <2>2. sendRegistered' /\ sendBuffers' # << >> /\ sendOwner'
    BY <1>4, <2>1 DEF PostSend
  <2>3. \A u \in Threads : Holds(u)' => u = t
    BY <1>4, <2>1 DEF PostSend, TypeOK
  <2>4. \/ send'[t] = "none" /\ base'[t] # "sent"
        \/ send'[t] = "failed" /\ sendIo' = "none" /\ base'[t] # "sent"
    BY <1>4 DEF PostSend, TypeOK
  <2>5. CASE send'[t] = "none" /\ base'[t] # "sent"
    <3>1. \A u \in Threads : ~Holds(u)'
      BY <2>3, <2>5
    <3> QED
      BY <2>2, <3>1
  <2>6. CASE send'[t] = "failed" /\ sendIo' = "none" /\ base'[t] # "sent"
    <3>1. \A u \in Threads : send'[u] \in {"none", "failed"} /\ base'[u] # "sent"
      BY <2>3, <2>6
    <3> QED
      BY <2>2, <2>3, <2>6, <3>1
  <2> QED
    BY <2>4, <2>5, <2>6
<1>5. ASSUME TypeOK, SendInv, NEW t \in Threads, AbandonSend(t) PROVE SendInv'
  <2>1. sendIo = "none" /\ \A u \in Threads : Holds(u) => u = t
    BY <1>5 DEF AbandonSend
  <2>2. \A u \in Threads : Holds(u)' => u = t
    BY <1>5, <2>1 DEF AbandonSend, TypeOK
  <2>3. send'[t] = "none" /\ base[t] # "sent"
    BY <1>5 DEF AbandonSend, TypeOK
  <2> QED
    BY <1>5, <2>1, <2>2, <2>3 DEF AbandonSend
<1>6. ASSUME TypeOK, SendInv, NEW t \in Threads, ProcessSend(t) PROVE SendInv'
  <2>1. sendRegistered' /\ sendIo' = "none"
    BY <1>6 DEF ProcessSend
  <2>2. \A u \in Threads : ~Holds(u) /\ send'[u] = send[u]
    BY <1>6 DEF ProcessSend
  <2>3. \A u \in Threads : base'[u] = "sent" => u = t
    BY <1>6, <2>2 DEF ProcessSend, TypeOK
  <2>4. base'[t] = "sent" => disc'[t] = "none"
    BY <1>6 DEF ProcessSend, Idle, TypeOK
  <2> QED
    BY <2>1, <2>2, <2>3, <2>4
<1>7. ASSUME TypeOK, SendInv, NEW t \in Threads, FinishSend(t) PROVE SendInv'
  <2>1. sendRegistered /\ \A u \in Threads : Holds(u) => u = t
    BY <1>7 DEF FinishSend, InHandler
  <2>2. base'[t] = "idle" /\ \A u \in Threads : u # t => base'[u] = base[u]
    BY <1>7 DEF FinishSend, TypeOK
  <2>3. sendIo' = "none" /\ send[t] = "none"
    BY <1>7 DEF FinishSend, InHandler
  <2>4. \A u \in Threads : u # t => send'[u] = "none"
    BY <1>7, <2>1 DEF FinishSend, TypeOK
  <2>5. \/ send'[t] = "none"
        \/ send'[t] = "check" /\ sendRegistered' /\ sendQueue' # << >>
    <3>1. CASE BuffersWait
      <4>1. UNCHANGED sendRegistered /\ send' = [send EXCEPT ![t] = "check"]
        BY <1>7, <3>1 DEF FinishSend
      <4>2. send'[t] = "check" /\ sendRegistered'
        BY <1>7, <2>1, <4>1 DEF TypeOK
      <4>3. sendQueue' # << >>
        BY <1>7, <3>1 DEF FinishSend, BuffersWait
      <4> QED
        BY <4>2, <4>3
    <3>2. CASE ~BuffersWait
      <4>1. UNCHANGED send
        BY <1>7, <3>2 DEF FinishSend
      <4> QED
        BY <2>3, <4>1
    <3> QED
      BY <3>1, <3>2
  <2>6. \A u \in Threads : base'[u] # "sent" /\ (u # t => send'[u] = "none")
    BY <2>1, <2>2, <2>4
  <2>7. \A u \in Threads : send'[u] # "none" =>
          u = t /\ send'[u] = "check" /\ sendRegistered' /\ sendQueue' # << >>
    BY <2>5, <2>6
  <2> QED
    BY <2>3, <2>6, <2>7
<1>8. ASSUME TypeOK, SendInv, NEW t \in Threads, ProcessConnect(t) PROVE SendInv'
  BY <1>8, SendFrame DEF ProcessConnect, TypeOK, InHandler, InDisconnect, Idle
<1>9. ASSUME TypeOK, SendInv, NEW t \in Threads, ContentsReturn(t) PROVE SendInv'
  BY <1>9, SendFrame DEF ContentsReturn, TypeOK, InHandler, InDisconnect, Idle
<1>10. ASSUME TypeOK, SendInv, NEW t \in Threads, RegisterRecv(t) PROVE SendInv'
  BY <1>10, SendFrame DEF RegisterRecv, TypeOK, InHandler, InDisconnect, Idle
<1>11. ASSUME TypeOK, SendInv, NEW t \in Threads, PostRecv(t) PROVE SendInv'
  BY <1>11, SendFrame DEF PostRecv, TypeOK, InHandler, InDisconnect, Idle
<1>12. ASSUME TypeOK, SendInv, NEW t \in Threads, AbandonRecv(t) PROVE SendInv'
  BY <1>12, SendFrame DEF AbandonRecv, TypeOK, InHandler, InDisconnect, Idle
<1>13. ASSUME TypeOK, SendInv, NEW t \in Threads, ProcessRecv(t) PROVE SendInv'
  BY <1>13, SendFrame DEF ProcessRecv, TypeOK, InHandler, InDisconnect, Idle
<1>14. ASSUME TypeOK, SendInv, NEW t \in Threads, Disconnect(t) PROVE SendInv'
  BY <1>14, SendFrame DEF Disconnect, TypeOK, InHandler, InDisconnect, Idle
<1>15. ASSUME TypeOK, SendInv, NEW t \in Threads, OnDisconnectedReturn(t) PROVE SendInv'
  BY <1>15, SendFrame DEF OnDisconnectedReturn, TypeOK, InHandler, InDisconnect, Idle
<1>16. ASSUME TypeOK, SendInv, NEW t \in Threads, ReleaseSession(t) PROVE SendInv'
  BY <1>16, SendFrame DEF ReleaseSession, TypeOK, InHandler, InDisconnect, Idle
<1>17. ASSUME TypeOK, SendInv, NEW t \in Threads, RegisterDisconnect(t) PROVE SendInv'
  BY <1>17, SendFrame DEF RegisterDisconnect, TypeOK, InHandler, InDisconnect, Idle
<1>18. ASSUME TypeOK, SendInv, NEW t \in Threads, ProcessDisconnect(t) PROVE SendInv'
  BY <1>18, SendFrame DEF ProcessDisconnect, TypeOK, InHandler, InDisconnect, Idle
<1>19. ASSUME TypeOK, SendInv, PeerLeaves PROVE SendInv'
  BY <1>19 DEF PeerLeaves
<1>20. ASSUME TypeOK, SendInv, CompleteSend PROVE SendInv'
  BY <1>20 DEF CompleteSend
<1>21. ASSUME TypeOK, SendInv, ReceiveBytes PROVE SendInv'
  BY <1>21 DEF ReceiveBytes
<1>22. ASSUME TypeOK, SendInv, ReceiveEnd PROVE SendInv'
  BY <1>22 DEF ReceiveEnd
<1>23. ASSUME TypeOK, SendInv, CompleteDisconnect PROVE SendInv'
  BY <1>23 DEF CompleteDisconnect
<1>24. ASSUME SendInv, UNCHANGED vars PROVE SendInv'
  BY <1>24 DEF vars
<1> HIDE DEF SendInv
<1> QED
  BY <1>1, <1>2, <1>3, <1>4, <1>5, <1>6, <1>7, <1>8, <1>9, <1>10, <1>11, <1>12,
     <1>13, <1>14, <1>15, <1>16, <1>17, <1>18, <1>19, <1>20, <1>21, <1>22, <1>23, <1>24
     DEF Next, Run, Dispatch, Kernel

\* One token, one holder, in every reachable state.
LEMMA SendInvHolds == SafeSpec => []SendInv
<1>1. Init => SendInv
  BY DEF Init, SendInv, SendExclusive, SendBatchReady, Holds
<1> QED
  BY <1>1, TypeCorrect, SendInvStep, PTL DEF SafeSpec

(***************************************************************************)
(* Whatever threads call Send and serve the port, one of them at a time    *)
(* uses the send event, and never while a WSASend is outstanding.          *)
(***************************************************************************)
THEOREM SendExclusion == SafeSpec => []SendExclusive
<1>1. SendInv => SendExclusive
  BY DEF SendInv
<1> QED
  BY <1>1, SendInvHolds, PTL

(***************************************************************************)
(* No WSASend is posted without buffers or without a reference to the      *)
(* session, so a zero-byte completion always means a broken connection.    *)
(***************************************************************************)
THEOREM SendNeverEmpty == SafeSpec => []SendBatchReady
<1>1. SendInv => SendBatchReady
  BY DEF SendInv
<1> QED
  BY <1>1, SendInvHolds, PTL

(***************************************************************************)
(* The batch the operating system is reading is left alone until it        *)
(* completes.                                                              *)
(***************************************************************************)
THEOREM PendingBatchIsStable == SafeSpec => PendingBatchStable
<1>1. ASSUME SendInv, [Next]_vars, sendIo = "pending"
      PROVE  UNCHANGED <<sendOwner, sendBuffers>>
  <2>1. \A t \in Threads : send[t] = "none" /\ base[t] # "sent"
    BY <1>1 DEF SendInv, SendExclusive, Holds
  <2>2. ASSUME NEW t \in Threads, Send(t) \/ Run(t)
        PROVE  UNCHANGED <<sendOwner, sendBuffers>>
    <3>1. ~RegisterSend(t) /\ ~DrainQueue(t) /\ ~PostSend(t) /\ ~AbandonSend(t)
      BY <2>1 DEF RegisterSend, DrainQueue, PostSend, AbandonSend
    <3>2. ~FinishSend(t)
      BY <2>1 DEF FinishSend, InHandler
    <3> QED
      BY <2>2, <3>1, <3>2
         DEF Send, Run, ContentsReturn, RegisterRecv, PostRecv, AbandonRecv,
             Disconnect, OnDisconnectedReturn, ReleaseSession, RegisterDisconnect
  <2>3. ASSUME NEW t \in Threads, Dispatch(t)
        PROVE  UNCHANGED <<sendOwner, sendBuffers>>
    <3>1. ~ProcessSend(t)
      BY <1>1 DEF ProcessSend
    <3> QED
      BY <2>3, <3>1 DEF Dispatch, ProcessConnect, ProcessRecv, ProcessDisconnect
  <2>4. CASE Kernel
    BY <2>4 DEF Kernel, PeerLeaves, CompleteSend, ReceiveBytes, ReceiveEnd,
                CompleteDisconnect
  <2>5. CASE UNCHANGED vars
    BY <2>5 DEF vars
  <2> QED
    BY <1>1, <2>2, <2>3, <2>4, <2>5 DEF Next
<1>2. SendInv /\ [Next]_vars =>
        [sendIo = "pending" => UNCHANGED <<sendOwner, sendBuffers>>]_vars
  BY <1>1
<1> QED
  BY <1>2, SendInvHolds, PTL DEF SafeSpec, PendingBatchStable

-----------------------------------------------------------------------------
(***************************************************************************)
(* Order.  Increasing alone does not survive Send: the new buffer must be  *)
(* known to be larger than everything before it.                           *)
(***************************************************************************)
Upto(s, n) ==
  \A i \in 1..Len(s) :
    s[i] <= n /\ \A j \in 1..Len(s) : i < j => s[i] < s[j]

\* Everything ever accepted and not lost, in the order of its place in line.
Line == delivered \o sendBuffers \o sendQueue

\* The inductive form of SendFifo: the whole line is in order.
FifoInv == Upto(Line, accepted)

\* The line is a sequence of buffers.
LEMMA LineTyped == TypeOK => Line \in Seq(Buffer)
  BY ConcatProperties DEF TypeOK, Line

\* A new last element above all others keeps the order.
LEMMA UptoAppend ==
  ASSUME NEW s \in Seq(Buffer), NEW n \in Nat, Upto(s, n)
  PROVE  Upto(Append(s, n + 1), n + 1)
<1> DEFINE r == Append(s, n + 1)
<1>1. Len(s) \in Nat /\ Len(r) = Len(s) + 1
  BY LenProperties
<1>2. \A i \in 1..Len(s) : r[i] = s[i] /\ s[i] \in Nat
  BY ElementOfSeq DEF Buffer
<1>3. r[Len(s) + 1] = n + 1
  OBVIOUS
<1> HIDE DEF r
<1>4. ASSUME NEW i \in 1..Len(r)
      PROVE  r[i] <= n + 1 /\ \A j \in 1..Len(r) : i < j => r[i] < r[j]
  <2>1. CASE i \in 1..Len(s)
    <3>1. r[i] = s[i] /\ s[i] \in Nat /\ s[i] <= n
      BY <1>2, <2>1 DEF Upto
    <3>2. ASSUME NEW j \in 1..Len(r), i < j PROVE r[i] < r[j]
      <4>1. CASE j \in 1..Len(s)
        BY <1>2, <2>1, <3>2, <4>1 DEF Upto
      <4>2. CASE j = Len(s) + 1
        BY <1>3, <3>1, <4>2
      <4> QED
        BY <1>1, <4>1, <4>2
    <3> QED
      BY <3>1, <3>2
  <2>2. CASE i = Len(s) + 1
    BY <1>1, <1>3, <2>2
  <2> QED
    BY <1>1, <2>1, <2>2
<1> QED
  BY <1>4 DEF Upto, r

\* Dropping a batch from the middle keeps the order of the rest.
LEMMA UptoDrop ==
  ASSUME NEW a \in Seq(Buffer), NEW b \in Seq(Buffer), NEW c \in Seq(Buffer),
         NEW n \in Nat, Upto(a \o b \o c, n)
  PROVE  Upto(a \o c, n)
<1> DEFINE w == (a \o b) \o c
           r == a \o c
           p(i) == IF i <= Len(a) THEN i ELSE i + Len(b)
<1>1. Len(a) \in Nat /\ Len(b) \in Nat /\ Len(c) \in Nat
  BY LenProperties
<1>2. a \o b \in Seq(Buffer) /\ Len(a \o b) = Len(a) + Len(b)
      /\ \A i \in 1..(Len(a) + Len(b)) :
           (a \o b)[i] = IF i <= Len(a) THEN a[i] ELSE b[i - Len(a)]
  BY ConcatProperties
<1>3. Len(w) = Len(a) + Len(b) + Len(c)
      /\ \A i \in 1..(Len(a \o b) + Len(c)) :
           w[i] = IF i <= Len(a \o b) THEN (a \o b)[i] ELSE c[i - Len(a \o b)]
  BY <1>2, ConcatProperties
<1>4. Len(r) = Len(a) + Len(c)
      /\ \A i \in 1..(Len(a) + Len(c)) :
           r[i] = IF i <= Len(a) THEN a[i] ELSE c[i - Len(a)]
  BY ConcatProperties
<1> HIDE DEF w, r
<1>5. ASSUME NEW i \in 1..Len(r)
      PROVE  p(i) \in 1..Len(w) /\ r[i] = w[p(i)]
  <2>1. CASE i <= Len(a)
    BY <1>1, <1>2, <1>3, <1>4, <2>1
  <2>2. CASE i > Len(a)
    <3>1. p(i) = i + Len(b) /\ p(i) > Len(a \o b) /\ p(i) \in 1..Len(w)
      BY <1>1, <1>2, <1>3, <1>4, <2>2
    <3>2. w[p(i)] = c[p(i) - Len(a \o b)] /\ p(i) - Len(a \o b) = i - Len(a)
      BY <1>1, <1>2, <1>3, <1>4, <2>2, <3>1
    <3>3. r[i] = c[i - Len(a)]
      BY <1>1, <1>4, <2>2
    <3> QED
      BY <3>1, <3>2, <3>3
  <2> QED
    BY <1>1, <1>4, <2>1, <2>2
<1>6. \A i, j \in 1..Len(r) : i < j => p(i) < p(j)
  BY <1>1, <1>4
<1> HIDE DEF p
<1>7. Upto(w, n)
  BY DEF w
<1>8. Upto(r, n)
  BY <1>5, <1>6, <1>7 DEF Upto
<1> QED
  BY <1>8 DEF r

\* Every step keeps the line in order: it appends, moves or drops at an end.
LEMMA FifoStep == TypeOK /\ FifoInv /\ [Next]_vars => FifoInv'
<1>1. ASSUME TypeOK, FifoInv, NEW t \in Threads, Send(t) PROVE FifoInv'
  <2>1. accepted + 1 \in Buffer /\ accepted \in Nat
    BY <1>1 DEF TypeOK, Buffer
  <2>2. Line' = Append(Line, accepted + 1)
    <3>1. Append(sendQueue, accepted + 1) = sendQueue \o <<accepted + 1>>
          /\ Append(Line, accepted + 1) = Line \o <<accepted + 1>>
          /\ <<accepted + 1>> \in Seq(Buffer)
      BY <1>1, <2>1, LineTyped, AppendIsConcat DEF TypeOK
    <3>2. delivered \o sendBuffers \in Seq(Buffer)
      BY <1>1, ConcatProperties DEF TypeOK
    <3>3. (delivered \o sendBuffers) \o (sendQueue \o <<accepted + 1>>)
            = Line \o <<accepted + 1>>
      BY <1>1, <3>1, <3>2, ConcatAssociative DEF TypeOK, Line
    <3> QED
      BY <1>1, <3>1, <3>3 DEF Send, Line
  <2> QED
    BY <1>1, <2>1, <2>2, LineTyped, UptoAppend DEF Send, FifoInv
<1>2. ASSUME TypeOK, FifoInv, sendBuffers' = << >>,
             UNCHANGED <<delivered, sendQueue, accepted>>
      PROVE  FifoInv'
  <2>1. delivered \o << >> = delivered
    BY <1>2, ConcatEmptySeq DEF TypeOK
  <2> QED
    BY <1>2, <2>1, UptoDrop DEF TypeOK, FifoInv, Line
<1>3. ASSUME TypeOK, FifoInv, NEW t \in Threads, DrainQueue(t) PROVE FifoInv'
  <2>1. Line' = Line
    <3>1. sendBuffers \o sendQueue \in Seq(Buffer)
          /\ delivered \o (sendBuffers \o sendQueue) \in Seq(Buffer)
      BY <1>3, ConcatProperties DEF TypeOK
    <3>2. Line' = (delivered \o (sendBuffers \o sendQueue)) \o << >>
      BY <1>3 DEF DrainQueue, Line
    <3>3. Line' = delivered \o (sendBuffers \o sendQueue)
      BY <3>1, <3>2, ConcatEmptySeq
    <3>4. delivered \o (sendBuffers \o sendQueue) = (delivered \o sendBuffers) \o sendQueue
      BY <1>3, ConcatAssociative DEF TypeOK
    <3> QED
      BY <3>3, <3>4 DEF Line
  <2> QED
    BY <1>3, <2>1 DEF DrainQueue, FifoInv
<1>4. ASSUME TypeOK, FifoInv, NEW t \in Threads, ProcessSend(t) PROVE FifoInv'
  <2>1. CASE sendIo = "ok"
    <3>1. (delivered \o sendBuffers) \o << >> = delivered \o sendBuffers
      BY <1>4, ConcatProperties, ConcatEmptySeq DEF TypeOK
    <3>2. Line' = Line
      BY <1>4, <2>1, <3>1 DEF ProcessSend, Line
    <3> QED
      BY <1>4, <3>2 DEF ProcessSend, FifoInv
  <2>2. CASE sendIo = "zero"
    BY <1>2, <1>4, <2>2 DEF ProcessSend
  <2> QED
    BY <1>4, <2>1, <2>2 DEF ProcessSend
<1>5. ASSUME FifoInv, UNCHANGED <<delivered, sendBuffers, sendQueue, accepted>>
      PROVE  FifoInv'
  BY <1>5 DEF FifoInv, Line
<1>6. ASSUME TypeOK, FifoInv, NEW t \in Threads, Run(t) PROVE FifoInv'
  <2>1. CASE RegisterSend(t)
    BY <1>2, <1>5, <1>6, <2>1 DEF RegisterSend
  <2>2. CASE AbandonSend(t)
    BY <1>2, <1>6, <2>2 DEF AbandonSend
  <2>3. CASE DrainQueue(t)
    BY <1>3, <1>6, <2>3
  <2>4. CASE \/ PostSend(t) \/ FinishSend(t) \/ ContentsReturn(t)
             \/ RegisterRecv(t) \/ PostRecv(t) \/ AbandonRecv(t)
    BY <1>5, <1>6, <2>4 DEF PostSend, FinishSend, ContentsReturn, RegisterRecv,
                            PostRecv, AbandonRecv
  <2>5. CASE \/ Disconnect(t) \/ OnDisconnectedReturn(t) \/ ReleaseSession(t)
             \/ RegisterDisconnect(t)
    BY <1>5, <1>6, <2>5 DEF Disconnect, OnDisconnectedReturn, ReleaseSession,
                            RegisterDisconnect
  <2> QED
    BY <1>6, <2>1, <2>2, <2>3, <2>4, <2>5 DEF Run
<1>7. ASSUME TypeOK, FifoInv, NEW t \in Threads, Dispatch(t) PROVE FifoInv'
  BY <1>4, <1>5, <1>7
     DEF Dispatch, ProcessConnect, ProcessRecv, ProcessDisconnect
<1>8. ASSUME FifoInv, Kernel PROVE FifoInv'
  BY <1>5, <1>8 DEF Kernel, PeerLeaves, CompleteSend, ReceiveBytes, ReceiveEnd,
                    CompleteDisconnect
<1>9. ASSUME FifoInv, UNCHANGED vars PROVE FifoInv'
  BY <1>5, <1>9 DEF vars
<1> QED
  BY <1>1, <1>6, <1>7, <1>8, <1>9 DEF Next

(***************************************************************************)
(* Buffers are delivered in the order in which Send took them, none twice. *)
(***************************************************************************)
THEOREM SendOrder == SafeSpec => []SendFifo
<1>1. Init => FifoInv
  BY DEF Init, FifoInv, Line, Upto
<1>2. TypeOK /\ FifoInv => SendFifo
  <2>1. TypeOK => DOMAIN Line = 1..Len(Line)
    BY LineTyped, LenProperties
  <2> QED
    BY <2>1 DEF FifoInv, Upto, SendFifo, IsIncreasing, Line
<1> QED
  BY <1>1, <1>2, TypeCorrect, FifoStep, PTL DEF SafeSpec

-----------------------------------------------------------------------------
(***************************************************************************)
(* Nobody has the session before its connection completes: only then does  *)
(* ProcessConnect raise _connected and add it to the service.              *)
(***************************************************************************)
BeforeConnect ==
  connectIo = "done" =>
    /\ \A t \in Threads : base[t] = "idle" /\ send[t] = "none" /\ disc[t] = "none"
    /\ sendIo = "none" /\ recvIo = "none" /\ discIo = "none"
    /\ ~connected /\ ~inService
    /\ sendQueue = << >> /\ ~sendRegistered

\* Until the connection completes only its completion or the peer can move.
LEMMA FirstStep ==
  ASSUME BeforeConnect, Next, connectIo = "done"
  PROVE  (\E t \in Threads : ProcessConnect(t)) \/ PeerLeaves
<1>1. ASSUME NEW t \in Threads, Send(t) \/ Run(t) PROVE FALSE
  <2>1. base[t] = "idle" /\ send[t] = "none" /\ disc[t] = "none"
    BY DEF BeforeConnect
  <2>2. ~Send(t)
    BY <2>1 DEF Send, InContents, InDisconnect, InHandler
  <2> QED
    BY <1>1, <2>1, <2>2
       DEF Run, RegisterSend, DrainQueue, PostSend, AbandonSend, FinishSend,
           ContentsReturn, RegisterRecv, PostRecv, AbandonRecv, Disconnect,
           OnDisconnectedReturn, ReleaseSession, RegisterDisconnect, InHandler,
           InDisconnect
<1>2. ASSUME NEW t \in Threads, ProcessSend(t) \/ ProcessRecv(t) \/ ProcessDisconnect(t)
      PROVE  FALSE
  BY <1>2 DEF BeforeConnect, ProcessSend, ProcessRecv, ProcessDisconnect
<1>3. ~(CompleteSend \/ ReceiveBytes \/ ReceiveEnd \/ CompleteDisconnect)
  BY DEF BeforeConnect, CompleteSend, ReceiveBytes, ReceiveEnd, CompleteDisconnect
<1> QED
  BY <1>1, <1>2, <1>3 DEF Next, Dispatch, Kernel

\* A connection completes once.
LEMMA ConnectOnce ==
  ASSUME Next, connectIo' = "done"
  PROVE  connectIo = "done" /\ \A t \in Threads : ~ProcessConnect(t)
<1>1. \A t \in Threads : ~ProcessConnect(t)
  BY DEF ProcessConnect
<1>2. ASSUME NEW t \in Threads, Send(t) \/ Run(t) PROVE UNCHANGED connectIo
  BY <1>2 DEF Send, Run, RegisterSend, DrainQueue, PostSend, AbandonSend,
     FinishSend, ContentsReturn, RegisterRecv, PostRecv, AbandonRecv, Disconnect,
     OnDisconnectedReturn, ReleaseSession, RegisterDisconnect
<1>3. ASSUME NEW t \in Threads, Dispatch(t) PROVE UNCHANGED connectIo
  BY <1>1, <1>3 DEF Dispatch, ProcessSend, ProcessRecv, ProcessDisconnect
<1>4. ASSUME Kernel PROVE UNCHANGED connectIo
  BY <1>4 DEF Kernel, PeerLeaves, CompleteSend, ReceiveBytes, ReceiveEnd,
              CompleteDisconnect
<1> QED
  BY <1>1, <1>2, <1>3, <1>4 DEF Next

\* No step lets anybody reach an unconnected session.
LEMMA BeforeConnectStep == BeforeConnect /\ [Next]_vars => BeforeConnect'
<1>1. ASSUME BeforeConnect, Next, connectIo' = "done" PROVE BeforeConnect'
  <2>1. PeerLeaves
    BY <1>1, FirstStep, ConnectOnce
  <2> QED
    BY <1>1, <2>1 DEF PeerLeaves, BeforeConnect
<1>2. ASSUME BeforeConnect, UNCHANGED vars PROVE BeforeConnect'
  BY <1>2 DEF vars, BeforeConnect
<1>3. connectIo' # "done" => BeforeConnect'
  BY DEF BeforeConnect
<1> QED
  BY <1>1, <1>2, <1>3

\* An unconnected session is out of reach in every reachable state.
LEMMA BeforeConnectHolds == SafeSpec => []BeforeConnect
<1>1. Init => BeforeConnect
  BY DEF Init, BeforeConnect
<1> QED
  BY <1>1, BeforeConnectStep, PTL DEF SafeSpec

(***************************************************************************)
(* The receive side is a relay: one handler or one WSARecv.  The handler   *)
(* about to post has already tied the event to the session.                *)
(***************************************************************************)
RecvInv ==
  /\ RecvExclusive
  /\ \A t \in Threads : base[t] = "postRecv" => recvOwner

\* A step that leaves the receive side alone leaves its relay alone.
LEMMA RecvFrame ==
  ASSUME RecvInv, UNCHANGED <<recvIo, recvOwner>>,
         \A t \in Threads : Receives(t)' => base'[t] = base[t]
  PROVE  RecvInv'
BY DEF RecvInv, RecvExclusive, Receives, ReceivePCs

\* Every step hands the receive buffer on or leaves it where it is.
LEMMA RecvInvStep ==
  TypeOK /\ BeforeConnect /\ RecvInv /\ [Next]_vars => RecvInv'
<1> USE DEF RecvInv, RecvExclusive, Receives, ReceivePCs
<1>1. ASSUME TypeOK, BeforeConnect, RecvInv, NEW t \in Threads, ProcessConnect(t)
      PROVE  RecvInv'
  <2>1. /\ \A u \in Threads : base[u] = "idle"
        /\ recvIo = "none"
    BY <1>1 DEF ProcessConnect, BeforeConnect
  <2> QED
    BY <1>1, <2>1 DEF ProcessConnect, TypeOK
<1>2. ASSUME TypeOK, RecvInv, NEW t \in Threads, ContentsReturn(t) PROVE RecvInv'
  BY <1>2 DEF ContentsReturn, InHandler, TypeOK
<1>3. ASSUME TypeOK, RecvInv, NEW t \in Threads, RegisterRecv(t) PROVE RecvInv'
  BY <1>3 DEF RegisterRecv, InHandler, TypeOK
<1>4. ASSUME TypeOK, RecvInv, NEW t \in Threads, PostRecv(t) PROVE RecvInv'
  <2>1. Receives(t) /\ recvOwner /\ \A u \in Threads : Receives(u) => u = t
    BY <1>4 DEF PostRecv, InHandler
  <2>2. \A u \in Threads : u # t => base'[u] = base[u]
    BY <1>4 DEF PostRecv, TypeOK
  <2>3. \/ base'[t] = "idle" /\ recvIo' = "pending"
        \/ base'[t] = "recvFailed" /\ recvIo' = "none"
    BY <1>4 DEF PostRecv, InHandler, TypeOK
  <2>4. recvOwner'
    BY <1>4, <2>1 DEF PostRecv
  <2> QED
    BY <2>1, <2>2, <2>3, <2>4
<1>5. ASSUME TypeOK, RecvInv, NEW t \in Threads, AbandonRecv(t) PROVE RecvInv'
  BY <1>5 DEF AbandonRecv, InHandler, TypeOK
<1>6. ASSUME TypeOK, RecvInv, NEW t \in Threads, ProcessRecv(t) PROVE RecvInv'
  BY <1>6 DEF ProcessRecv, Idle, TypeOK
<1>7. ASSUME TypeOK, RecvInv, NEW t \in Threads, ProcessSend(t) PROVE RecvInv'
  BY <1>7, RecvFrame DEF ProcessSend, TypeOK
<1>8. ASSUME TypeOK, RecvInv, NEW t \in Threads, FinishSend(t) PROVE RecvInv'
  BY <1>8, RecvFrame DEF FinishSend, TypeOK
<1>9. ASSUME RecvInv, NEW t \in Threads,
             \/ Send(t) \/ RegisterSend(t) \/ DrainQueue(t) \/ PostSend(t)
             \/ AbandonSend(t) \/ Disconnect(t) \/ OnDisconnectedReturn(t)
             \/ ReleaseSession(t) \/ RegisterDisconnect(t) \/ ProcessDisconnect(t)
      PROVE  RecvInv'
  <2>1. UNCHANGED <<base, recvIo, recvOwner>>
    BY <1>9 DEF Send, RegisterSend, DrainQueue, PostSend, AbandonSend, Disconnect,
       OnDisconnectedReturn, ReleaseSession, RegisterDisconnect, ProcessDisconnect
  <2> QED
    BY <1>9, <2>1
<1>10. ASSUME RecvInv, Kernel PROVE RecvInv'
  BY <1>10 DEF Kernel, PeerLeaves, CompleteSend, ReceiveBytes, ReceiveEnd,
               CompleteDisconnect
<1>11. ASSUME RecvInv, UNCHANGED vars PROVE RecvInv'
  BY <1>11 DEF vars
<1> HIDE DEF RecvInv
<1> QED
  BY <1>1, <1>2, <1>3, <1>4, <1>5, <1>6, <1>7, <1>8, <1>9, <1>10, <1>11
     DEF Next, Run, Dispatch

(***************************************************************************)
(* However many threads serve the port, the receive buffer has one user,   *)
(* and an outstanding WSARecv holds its session.                           *)
(***************************************************************************)
THEOREM RecvExclusion == SafeSpec => []RecvExclusive
<1>1. Init => RecvInv
  BY DEF Init, RecvInv, RecvExclusive, Receives, ReceivePCs
<1>2. RecvInv => RecvExclusive
  BY DEF RecvInv
<1> QED
  BY <1>1, <1>2, TypeCorrect, BeforeConnectHolds, RecvInvStep, PTL DEF SafeSpec

-----------------------------------------------------------------------------
(***************************************************************************)
(* Teardown.  Exclusion needs that nobody's Disconnect is overwritten by   *)
(* another on the same stack: a RegisterSend that may fail runs either     *)
(* outside Disconnect or inside OnDisconnected, where _connected is down   *)
(* and RegisterSend returns before it can fail.                            *)
(***************************************************************************)
TeardownInv ==
  /\ TeardownOnce
  /\ connected => discIo = "none"
  /\ \A t \in Threads : send[t] \in {"drain", "post"} => disc[t] = "none"
  /\ \A t \in Threads : send[t] = "check" => disc[t] \in {"none", "onDisconnected"}

\* Steps that start or end no teardown leave its bookkeeping where it is.
LEMMA TeardownFrame ==
  ASSUME TeardownInv, UNCHANGED <<connected, inService, discIo>>,
         \A t \in Threads :
           \/ disc'[t] = disc[t]
           \/ ~TearsDown(t) /\ disc'[t] = "exchange",
         \A t \in Threads :
           /\ send'[t] \in {"drain", "post"} => disc'[t] = "none"
           /\ send'[t] = "check" => disc'[t] \in {"none", "onDisconnected"}
  PROVE  TeardownInv'
<1>1. \A t \in Threads : TearsDown(t)' => TearsDown(t)
  BY DEF TearsDown
<1>2. \A t \in Threads : disc'[t] \in {"onDisconnected", "release"}
                           <=> disc[t] \in {"onDisconnected", "release"}
  BY DEF TearsDown
<1> QED
  BY <1>1, <1>2 DEF TeardownInv, TeardownOnce

\* Every step keeps one teardown at most, and its session registered till then.
LEMMA TeardownInvStep ==
  TypeOK /\ BeforeConnect /\ TeardownInv /\ [Next]_vars => TeardownInv'
<1>1. ASSUME TypeOK, TeardownInv, NEW t \in Threads, Send(t) PROVE TeardownInv'
  <2>1. disc[t] \in {"none", "onDisconnected"} /\ UNCHANGED disc
    BY <1>1 DEF Send, InContents, InDisconnect, InHandler, Idle
  <2>2. \A u \in Threads : send'[u] = send[u] \/ (u = t /\ send'[u] = "check")
    BY <1>1 DEF Send, TypeOK
  <2>3. UNCHANGED <<connected, inService, discIo>>
    BY <1>1 DEF Send
  <2> QED
    BY <1>1, <2>1, <2>2, <2>3, TeardownFrame DEF TeardownInv
<1>2. ASSUME TypeOK, TeardownInv, NEW t \in Threads, RegisterSend(t) PROVE TeardownInv'
  <2>1. connected => disc[t] = "none"
    BY <1>2 DEF RegisterSend, TeardownInv, TeardownOnce, TearsDown
  <2>2. UNCHANGED <<connected, inService, discIo, disc>>
    BY <1>2 DEF RegisterSend
  <2>3. \A u \in Threads : \/ send'[u] = send[u] \/ send'[u] = "none"
                           \/ u = t /\ send'[u] = "drain" /\ connected
    BY <1>2 DEF RegisterSend, TypeOK
  <2> QED
    BY <1>2, <2>1, <2>2, <2>3, TeardownFrame DEF TeardownInv
<1>3. ASSUME TypeOK, TeardownInv, NEW t \in Threads, DrainQueue(t) PROVE TeardownInv'
  BY <1>3, TeardownFrame DEF DrainQueue, TypeOK, TeardownInv
<1>4. ASSUME TypeOK, TeardownInv, NEW t \in Threads, PostSend(t) PROVE TeardownInv'
  <2>1. disc[t] = "none" /\ UNCHANGED <<connected, inService, discIo>>
    BY <1>4 DEF PostSend, TeardownInv
  <2>2. \A u \in Threads : disc'[u] = disc[u] \/ (u = t /\ disc'[u] = "exchange")
    BY <1>4 DEF PostSend, TypeOK
  <2>3. send'[t] \in {"none", "failed"}
        /\ \A u \in Threads : u # t => send'[u] = send[u]
    BY <1>4 DEF PostSend, TypeOK
  <2>4. ~TearsDown(t)
    BY <2>1 DEF TearsDown
  <2> QED
    BY <1>4, <2>1, <2>2, <2>3, <2>4, TeardownFrame DEF TeardownInv
<1>5. ASSUME TypeOK, TeardownInv, NEW t \in Threads, AbandonSend(t) PROVE TeardownInv'
  BY <1>5, TeardownFrame DEF AbandonSend, TypeOK, TeardownInv
<1>6. ASSUME TypeOK, TeardownInv, NEW t \in Threads, FinishSend(t) PROVE TeardownInv'
  <2>1. disc[t] = "none" /\ UNCHANGED <<connected, inService, discIo, disc>>
    BY <1>6 DEF FinishSend, InHandler
  <2>2. \A u \in Threads : send'[u] = send[u] \/ (u = t /\ send'[u] = "check")
    BY <1>6 DEF FinishSend, TypeOK
  <2> QED
    BY <1>6, <2>1, <2>2, TeardownFrame DEF TeardownInv
<1>7. ASSUME TypeOK, TeardownInv, NEW t \in Threads,
             ProcessSend(t) \/ ProcessRecv(t) \/ PostRecv(t)
      PROVE  TeardownInv'
  <2>1. send[t] = "none" /\ disc[t] = "none" /\ UNCHANGED send
    BY <1>7 DEF ProcessSend, ProcessRecv, PostRecv, Idle, InHandler
  <2>2. \A u \in Threads : disc'[u] = disc[u] \/ (u = t /\ disc'[u] = "exchange")
    BY <1>7 DEF ProcessSend, ProcessRecv, PostRecv, TypeOK
  <2>3. UNCHANGED <<connected, inService, discIo>>
    BY <1>7 DEF ProcessSend, ProcessRecv, PostRecv
  <2>4. ~TearsDown(t)
    BY <2>1 DEF TearsDown
  <2> QED
    BY <1>7, <2>1, <2>2, <2>3, <2>4, TeardownFrame DEF TeardownInv
<1>8. ASSUME TypeOK, TeardownInv, NEW t \in Threads,
             ContentsReturn(t) \/ RegisterRecv(t) \/ AbandonRecv(t)
      PROVE  TeardownInv'
  <2>1. UNCHANGED <<connected, inService, discIo, disc, send>>
    BY <1>8 DEF ContentsReturn, RegisterRecv, AbandonRecv
  <2> QED
    BY <1>8, <2>1, TeardownFrame DEF TeardownInv
<1>9. ASSUME TypeOK, BeforeConnect, TeardownInv, NEW t \in Threads, ProcessConnect(t)
      PROVE  TeardownInv'
  <2>1. discIo = "none" /\ \A u \in Threads : send[u] = "none" /\ disc[u] = "none"
    BY <1>9 DEF ProcessConnect, BeforeConnect
  <2>2. connected' /\ inService' /\ UNCHANGED <<send, disc, discIo>>
    BY <1>9 DEF ProcessConnect
  <2> QED
    BY <2>1, <2>2 DEF TeardownInv, TeardownOnce, TearsDown
<1>10. ASSUME TypeOK, TeardownInv, NEW t \in Threads, Disconnect(t) PROVE TeardownInv'
  <2>1. send[t] \in {"none", "failed"} /\ disc[t] = "exchange"
        /\ ~connected' /\ UNCHANGED <<send, inService, discIo>>
    BY <1>10 DEF Disconnect, InDisconnect
  <2>2. \A u \in Threads : u # t => disc'[u] = disc[u]
    BY <1>10 DEF Disconnect, TypeOK
  <2>3. CASE connected
    <3>1. disc'[t] = "onDisconnected"
      BY <1>10, <2>3 DEF Disconnect, TypeOK
    <3>2. \A u \in Threads : ~TearsDown(u)
      BY <1>10, <2>3 DEF TeardownInv, TeardownOnce
    <3>3. inService /\ discIo = "none"
      BY <1>10, <2>3 DEF TeardownInv, TeardownOnce
    <3> QED
      BY <1>10, <2>1, <2>2, <3>1, <3>2, <3>3 DEF TeardownInv, TeardownOnce, TearsDown
  <2>4. CASE ~connected
    <3>1. disc'[t] = "none"
      BY <1>10, <2>4 DEF Disconnect, TypeOK
    <3> QED
      BY <1>10, <2>1, <2>2, <2>4, <3>1 DEF TeardownInv, TeardownOnce, TearsDown
  <2> QED
    BY <2>3, <2>4
<1>11. ASSUME TypeOK, TeardownInv, NEW t \in Threads, OnDisconnectedReturn(t)
       PROVE  TeardownInv'
  <2>1. send[t] \in {"none", "failed"} /\ disc[t] = "onDisconnected"
        /\ UNCHANGED <<send, connected, inService, discIo>>
    BY <1>11 DEF OnDisconnectedReturn, InDisconnect
  <2>2. disc'[t] = "release" /\ \A u \in Threads : u # t => disc'[u] = disc[u]
    BY <1>11 DEF OnDisconnectedReturn, TypeOK
  <2> QED
    BY <1>11, <2>1, <2>2 DEF TeardownInv, TeardownOnce, TearsDown
<1>12. ASSUME TypeOK, TeardownInv, NEW t \in Threads, ReleaseSession(t)
       PROVE  TeardownInv'
  <2>1. send[t] \in {"none", "failed"} /\ disc[t] = "release" /\ ~inService'
        /\ UNCHANGED <<send, connected, discIo>>
    BY <1>12 DEF ReleaseSession, InDisconnect
  <2>2. disc'[t] = "registerDisconnect"
        /\ \A u \in Threads : u # t => disc'[u] = disc[u]
    BY <1>12 DEF ReleaseSession, TypeOK
  <2>3. ~connected /\ \A u \in Threads : TearsDown(u) => u = t
    BY <1>12, <2>1 DEF TeardownInv, TeardownOnce, TearsDown
  <2> QED
    BY <1>12, <2>1, <2>2, <2>3 DEF TeardownInv, TeardownOnce, TearsDown
<1>13. ASSUME TypeOK, TeardownInv, NEW t \in Threads, RegisterDisconnect(t)
       PROVE  TeardownInv'
  <2>1. send[t] \in {"none", "failed"} /\ disc[t] = "registerDisconnect"
        /\ UNCHANGED <<send, connected, inService>>
    BY <1>13 DEF RegisterDisconnect, InDisconnect
  <2>2. disc'[t] = "none" /\ \A u \in Threads : u # t => disc'[u] = disc[u]
    BY <1>13 DEF RegisterDisconnect, TypeOK
  <2>3. ~connected /\ \A u \in Threads : TearsDown(u) => u = t
    BY <1>13, <2>1 DEF TeardownInv, TeardownOnce, TearsDown
  <2> QED
    BY <1>13, <2>1, <2>2, <2>3 DEF TeardownInv, TeardownOnce, TearsDown
<1>14. ASSUME TypeOK, TeardownInv, NEW t \in Threads, ProcessDisconnect(t)
       PROVE  TeardownInv'
  <2>1. discIo' = "none" /\ UNCHANGED <<send, disc, connected, inService>>
    BY <1>14 DEF ProcessDisconnect
  <2> QED
    BY <1>14, <2>1 DEF TeardownInv, TeardownOnce, TearsDown
<1>15. ASSUME TeardownInv, Kernel PROVE TeardownInv'
  <2>1. UNCHANGED <<send, disc, connected, inService>>
    BY <1>15 DEF Kernel, PeerLeaves, CompleteSend, ReceiveBytes, ReceiveEnd,
                 CompleteDisconnect
  <2>2. discIo = "none" => discIo' = "none"
    BY <1>15 DEF Kernel, PeerLeaves, CompleteSend, ReceiveBytes, ReceiveEnd,
                 CompleteDisconnect
  <2> QED
    BY <1>15, <2>1, <2>2 DEF TeardownInv, TeardownOnce, TearsDown
<1>16. ASSUME TeardownInv, UNCHANGED vars PROVE TeardownInv'
  BY <1>16, TeardownFrame DEF vars, TeardownInv
<1> QED
  BY <1>1, <1>2, <1>3, <1>4, <1>5, <1>6, <1>7, <1>8, <1>9, <1>10, <1>11, <1>12,
     <1>13, <1>14, <1>15, <1>16 DEF Next, Run, Dispatch

\* At most one teardown runs in every reachable state.
LEMMA TeardownInvHolds == SafeSpec => []TeardownInv
<1>1. Init => TeardownInv
  BY DEF Init, TeardownInv, TeardownOnce, TearsDown
<1> QED
  BY <1>1, TypeCorrect, BeforeConnectHolds, TeardownInvStep, PTL DEF SafeSpec

(***************************************************************************)
(* However many handlers find the connection broken at once, one of them   *)
(* tears the session down, and the service still has the session then.     *)
(***************************************************************************)
THEOREM OneTeardown == SafeSpec => []TeardownOnce
<1>1. TeardownInv => TeardownOnce
  BY DEF TeardownInv
<1> QED
  BY <1>1, TeardownInvHolds, PTL

-----------------------------------------------------------------------------
(***************************************************************************)
(* The batch.  _sendEvent holds buffers only between DrainQueue and the    *)
(* end of the WSASend or of its failure, and without soft errors a failed  *)
(* batch finds the connection down once HandleError has returned.          *)
(***************************************************************************)
BatchInv ==
  /\ sendBuffers # << >> =>
       sendIo # "none" \/ \E t \in Threads : send[t] \in {"post", "failed"}
  /\ \A t \in Threads : send[t] = "failed" => sendBuffers # << >>
  /\ ~SoftErrors =>
       \A t \in Threads : send[t] = "failed" /\ disc[t] = "none" => ~connected

\* A thread that holds the token holds it alone, and no WSASend is outstanding.
LEMMA SoleHolder ==
  ASSUME SendInv, NEW t \in Threads, Holds(t)
  PROVE  /\ sendIo = "none"
         /\ \A u \in Threads : u # t => send[u] = "none" /\ base[u] # "sent"
BY DEF SendInv, SendExclusive, Holds

\* While a token holder is not yet or no longer at the batch, there is none.
LEMMA NoBatch ==
  ASSUME SendInv, BatchInv, NEW t \in Threads, Holds(t),
         send[t] \notin {"post", "failed"}
  PROVE  sendBuffers = << >>
<1>1. ~(sendIo # "none" \/ \E u \in Threads : send[u] \in {"post", "failed"})
  BY SoleHolder
<1> QED
  BY <1>1 DEF BatchInv

\* Steps that leave the send path alone and end Disconnect only when the
\* session is not connected leave the batch as it is.
LEMMA BatchFrame ==
  ASSUME BatchInv, UNCHANGED <<sendBuffers, send>>,
         sendIo # "none" => sendIo' # "none",
         connected' => connected,
         \A t \in Threads : disc'[t] = "none" => disc[t] = "none" \/ ~connected'
  PROVE  BatchInv'
BY DEF BatchInv

\* Every step keeps the batch where somebody will settle it.
LEMMA BatchInvStep ==
  /\ TypeOK /\ BeforeConnect /\ SendInv /\ TeardownInv /\ BatchInv
  /\ [Next]_vars
  => BatchInv'
<1>1. ASSUME TypeOK, SendInv, BatchInv, NEW t \in Threads, Send(t) PROVE BatchInv'
  <2>1. UNCHANGED <<sendBuffers, sendIo, disc, connected>>
    BY <1>1 DEF Send
  <2>2. CASE TakesToken
    <3>1. \A u \in Threads : send[u] = "none"
      BY <1>1, <2>2 DEF TakesToken, SendInv, SendExclusive, Holds
    <3>2. \A u \in Threads : send'[u] \in {"none", "check"}
      BY <1>1, <2>2, <3>1 DEF Send, TypeOK
    <3> QED
      BY <1>1, <2>1, <3>1, <3>2 DEF BatchInv
  <2>3. CASE ~TakesToken
    BY <1>1, <2>1, <2>3, BatchFrame DEF Send
  <2> QED
    BY <2>2, <2>3
<1>2. ASSUME TypeOK, SendInv, BatchInv, NEW t \in Threads, RegisterSend(t)
      PROVE  BatchInv'
  <2>1. send[t] = "check" /\ Holds(t)
    BY <1>2 DEF RegisterSend, Holds
  <2>2. sendBuffers' = << >>
    BY <1>2, <2>1, NoBatch DEF RegisterSend
  <2>3. \A u \in Threads : u # t => send'[u] = "none"
    BY <1>2, <2>1, SoleHolder DEF RegisterSend, TypeOK
  <2>4. send'[t] \in {"none", "drain"}
    BY <1>2 DEF RegisterSend, TypeOK
  <2> QED
    BY <2>2, <2>3, <2>4 DEF BatchInv
<1>3. ASSUME TypeOK, SendInv, NEW t \in Threads, DrainQueue(t) PROVE BatchInv'
  <2>1. Holds(t) /\ send'[t] = "post"
    BY <1>3 DEF DrainQueue, Holds, TypeOK
  <2>2. \A u \in Threads : u # t => send'[u] = "none"
    BY <1>3, <2>1, SoleHolder DEF DrainQueue, TypeOK
  <2> QED
    BY <2>1, <2>2 DEF BatchInv
<1>4. ASSUME TypeOK, SendInv, NEW t \in Threads, PostSend(t) PROVE BatchInv'
  <2>1. Holds(t) /\ sendBuffers # << >> /\ UNCHANGED <<sendBuffers, connected>>
    BY <1>4 DEF PostSend, Holds, SendInv, SendBatchReady
  <2>2. \A u \in Threads : u # t => send'[u] = "none"
    BY <1>4, <2>1, SoleHolder DEF PostSend, TypeOK
  <2>3. \/ send'[t] = "none" /\ sendIo' = "pending"
        \/ send'[t] = "failed" /\ disc'[t] = "exchange"
        \/ send'[t] = "failed" /\ (SoftErrors \/ ~connected)
    BY <1>4 DEF PostSend, TypeOK
  <2> QED
    BY <2>1, <2>2, <2>3 DEF BatchInv
<1>5. ASSUME TypeOK, SendInv, NEW t \in Threads, AbandonSend(t) PROVE BatchInv'
  <2>1. Holds(t) /\ sendBuffers' = << >> /\ send'[t] = "none"
    BY <1>5 DEF AbandonSend, Holds, TypeOK
  <2>2. \A u \in Threads : u # t => send'[u] = "none"
    BY <1>5, <2>1, SoleHolder DEF AbandonSend, TypeOK
  <2>3. \A u \in Threads : send'[u] = "none"
    BY <2>1, <2>2
  <2> QED
    BY <2>1, <2>3 DEF BatchInv
<1>6. ASSUME TypeOK, SendInv, NEW t \in Threads, ProcessSend(t) PROVE BatchInv'
  <2>1. sendBuffers' = << >> /\ UNCHANGED send /\ sendIo # "none"
    BY <1>6 DEF ProcessSend
  <2>2. \A u \in Threads : send[u] = "none"
    BY <1>6, <2>1 DEF SendInv, SendExclusive, Holds
  <2> QED
    BY <2>1, <2>2 DEF BatchInv
<1>7. ASSUME TypeOK, SendInv, BatchInv, NEW t \in Threads, FinishSend(t)
      PROVE  BatchInv'
  <2>1. Holds(t) /\ send[t] = "none"
    BY <1>7 DEF FinishSend, InHandler, Holds
  <2>2. sendBuffers' = << >>
    BY <1>7, <2>1, NoBatch DEF FinishSend
  <2>3. \A u \in Threads : send'[u] \in {"none", "check"}
    BY <1>7, <2>1, SoleHolder DEF FinishSend, TypeOK
  <2> QED
    BY <2>2, <2>3 DEF BatchInv
<1>8. ASSUME BeforeConnect, BatchInv, NEW t \in Threads, ProcessConnect(t)
      PROVE  BatchInv'
  <2>1. UNCHANGED <<sendBuffers, send, sendIo>>
    BY <1>8 DEF ProcessConnect
  <2>2. \A u \in Threads : send[u] = "none"
    BY <1>8 DEF ProcessConnect, BeforeConnect
  <2> QED
    BY <1>8, <2>1, <2>2 DEF BatchInv
<1>9. ASSUME TypeOK, BatchInv, NEW t \in Threads,
             \/ ContentsReturn(t) \/ RegisterRecv(t) \/ PostRecv(t)
             \/ AbandonRecv(t) \/ ProcessRecv(t) \/ ProcessDisconnect(t)
             \/ OnDisconnectedReturn(t) \/ ReleaseSession(t)
      PROVE  BatchInv'
  <2>1. UNCHANGED <<sendBuffers, send, sendIo, connected>>
    BY <1>9 DEF ContentsReturn, RegisterRecv, PostRecv, AbandonRecv, ProcessRecv,
       ProcessDisconnect, OnDisconnectedReturn, ReleaseSession
  <2>2. \A u \in Threads : disc'[u] = "none" => disc[u] = "none"
    BY <1>9 DEF ContentsReturn, RegisterRecv, PostRecv, AbandonRecv, ProcessRecv,
       ProcessDisconnect, OnDisconnectedReturn, ReleaseSession, TypeOK
  <2> QED
    BY <1>9, <2>1, <2>2, BatchFrame
<1>10. ASSUME TypeOK, BatchInv, NEW t \in Threads, Disconnect(t) PROVE BatchInv'
  BY <1>10, BatchFrame DEF Disconnect
<1>11. ASSUME TypeOK, TeardownInv, BatchInv, NEW t \in Threads, RegisterDisconnect(t)
       PROVE  BatchInv'
  <2>1. ~connected' /\ UNCHANGED <<sendBuffers, send, sendIo>>
    BY <1>11 DEF RegisterDisconnect, InDisconnect, TeardownInv, TeardownOnce, TearsDown
  <2> QED
    BY <1>11, <2>1, BatchFrame
<1>12. ASSUME BatchInv, Kernel PROVE BatchInv'
  BY <1>12, BatchFrame DEF Kernel, PeerLeaves, CompleteSend, ReceiveBytes,
     ReceiveEnd, CompleteDisconnect
<1>13. ASSUME BatchInv, UNCHANGED vars PROVE BatchInv'
  BY <1>13, BatchFrame DEF vars
<1> QED
  BY <1>1, <1>2, <1>3, <1>4, <1>5, <1>6, <1>7, <1>8, <1>9, <1>10, <1>11, <1>12,
     <1>13 DEF Next, Run, Dispatch

\* Somebody settles the batch, in every reachable state.
LEMMA BatchInvHolds == SafeSpec => []BatchInv
<1>1. Init => BatchInv
  BY DEF Init, BatchInv
<1> QED
  BY <1>1, TypeCorrect, BeforeConnectHolds, SendInvHolds, TeardownInvHolds,
     BatchInvStep, PTL DEF SafeSpec

-----------------------------------------------------------------------------
(***************************************************************************)
(* The refinement: which step of the channel each step of Session is.      *)
(***************************************************************************)
ChannelOpen ==
  /\ connectIo = "done" \/ connected
  /\ \A t \in Threads : disc[t] # "exchange"

\* A step that moves no buffer and keeps the channel open is invisible.
LEMMA Stutters ==
  ASSUME UNCHANGED <<accepted, sendQueue, sendBuffers, delivered>>,
         ChannelOpen' = ChannelOpen
  PROVE  UNCHANGED Channel!cvars
BY DEF Channel!cvars, ChannelOpen

\* Asking for a Disconnect closes the channel.
LEMMA Closes ==
  ASSUME UNCHANGED <<accepted, sendQueue, sendBuffers, delivered>>,
         NEW t \in Threads, disc'[t] = "exchange"
  PROVE  [Channel!Next]_(Channel!cvars)
<1>1. ~ChannelOpen'
  BY DEF ChannelOpen
<1>2. CASE ChannelOpen
  BY <1>1, <1>2 DEF Channel!Next, Channel!Close, ChannelOpen
<1>3. CASE ~ChannelOpen
  BY <1>1, <1>3, Stutters, Zenon DEF ChannelOpen
<1> QED
  BY <1>2, <1>3

\* The channel's state does not depend on where in the handlers threads are.
LEMMA SameOpen ==
  ASSUME UNCHANGED <<connectIo, connected>>,
         \A t \in Threads : disc'[t] = "exchange" <=> disc[t] = "exchange"
  PROVE  ChannelOpen' = ChannelOpen
BY DEF ChannelOpen

\* Every step of Session is a step of the channel or invisible to it.
LEMMA ChannelStep ==
  /\ TypeOK /\ BeforeConnect /\ SendInv /\ BatchInv /\ [Next]_vars
  => [Channel!Next]_(Channel!cvars)
<1>1. ASSUME NEW t \in Threads, Send(t) PROVE Channel!Next
  BY <1>1, SameOpen DEF Send, Channel!Next, Channel!Accept, ChannelOpen
<1>2. ASSUME SendInv, BatchInv, NEW t \in Threads, RegisterSend(t)
      PROVE  UNCHANGED Channel!cvars
  <2>1. send[t] = "check" /\ Holds(t)
    BY <1>2 DEF RegisterSend, Holds
  <2>2. UNCHANGED <<accepted, sendQueue, sendBuffers, delivered>>
    BY <1>2, <2>1, NoBatch DEF RegisterSend
  <2>3. UNCHANGED <<connectIo, connected, disc>>
    BY <1>2 DEF RegisterSend
  <2> QED
    BY <2>2, <2>3, SameOpen, Stutters
<1>3. ASSUME TypeOK, SendInv, BatchInv, NEW t \in Threads, DrainQueue(t)
      PROVE  Channel!Take
  <2>1. send[t] = "drain" /\ Holds(t)
    BY <1>3 DEF DrainQueue, Holds
  <2>2. sendBuffers = << >> /\ sendQueue # << >>
    BY <1>3, <2>1, NoBatch DEF SendInv
  <2>3. sendBuffers' = sendQueue
    BY <1>3, <2>2, ConcatEmptySeq DEF DrainQueue, TypeOK
  <2>4. ChannelOpen' = ChannelOpen
    BY <1>3, SameOpen DEF DrainQueue
  <2> QED
    BY <1>3, <2>2, <2>3, <2>4 DEF DrainQueue, Channel!Take, ChannelOpen
<1>4. ASSUME TypeOK, NEW t \in Threads, PostSend(t) PROVE [Channel!Next]_(Channel!cvars)
  <2>1. UNCHANGED <<accepted, sendQueue, sendBuffers, delivered, connectIo, connected>>
    BY <1>4 DEF PostSend
  <2>2. UNCHANGED disc \/ disc'[t] = "exchange"
    BY <1>4 DEF PostSend, TypeOK
  <2> QED
    BY <2>1, <2>2, SameOpen, Stutters, Closes
<1>5. ASSUME BeforeConnect, BatchInv, NEW t \in Threads, AbandonSend(t)
      PROVE  Channel!Lose
  <2>1. sendBuffers # << >> /\ connectIo # "done"
    BY <1>5 DEF AbandonSend, BatchInv, BeforeConnect
  <2>2. SoftErrors \/ ~ChannelOpen
    BY <1>5, <2>1 DEF AbandonSend, BatchInv, ChannelOpen
  <2>3. ChannelOpen' = ChannelOpen
    BY <1>5, SameOpen DEF AbandonSend
  <2> QED
    BY <1>5, <2>1, <2>2, <2>3 DEF AbandonSend, Channel!Lose, ChannelOpen
<1>6. ASSUME TypeOK, SendInv, NEW t \in Threads, ProcessSend(t) PROVE Channel!Next
  <2>1. sendBuffers # << >> /\ sendBuffers' = << >>
        /\ UNCHANGED <<accepted, sendQueue, connectIo, connected>>
    BY <1>6 DEF ProcessSend, SendInv, SendBatchReady
  <2>2. CASE sendIo = "ok"
    <3>1. UNCHANGED disc /\ delivered' = delivered \o sendBuffers
      BY <1>6, <2>2 DEF ProcessSend
    <3> QED
      BY <2>1, <3>1, SameOpen DEF Channel!Next, Channel!Complete, ChannelOpen
  <2>3. CASE sendIo = "zero"
    <3>1. disc'[t] = "exchange" /\ UNCHANGED delivered
      BY <1>6, <2>3 DEF ProcessSend, TypeOK
    <3>2. ChannelOpen' = FALSE
      BY <3>1 DEF ChannelOpen
    <3> QED
      BY <2>1, <3>1, <3>2 DEF Channel!Next, Channel!Lose, ChannelOpen
  <2> QED
    BY <1>6, <2>2, <2>3 DEF ProcessSend
<1>7. ASSUME BeforeConnect, NEW t \in Threads, ProcessConnect(t)
      PROVE  UNCHANGED Channel!cvars
  <2>1. connectIo = "done" /\ connected' /\ UNCHANGED disc
        /\ \A u \in Threads : disc[u] = "none"
    BY <1>7 DEF ProcessConnect, BeforeConnect
  <2>2. ChannelOpen' = ChannelOpen
    BY <2>1 DEF ChannelOpen
  <2> QED
    BY <1>7, <2>2, Stutters DEF ProcessConnect
<1>8. ASSUME TypeOK, NEW t \in Threads, PostRecv(t) \/ ProcessRecv(t)
      PROVE  [Channel!Next]_(Channel!cvars)
  <2>1. UNCHANGED <<accepted, sendQueue, sendBuffers, delivered, connectIo, connected>>
    BY <1>8 DEF PostRecv, ProcessRecv
  <2>2. UNCHANGED disc \/ disc'[t] = "exchange"
    BY <1>8 DEF PostRecv, ProcessRecv, TypeOK
  <2> QED
    BY <2>1, <2>2, SameOpen, Stutters, Closes
<1>9. ASSUME TypeOK, BeforeConnect, NEW t \in Threads, Disconnect(t)
      PROVE  UNCHANGED Channel!cvars
  <2>1. disc[t] = "exchange" /\ ~connected'
        /\ UNCHANGED <<accepted, sendQueue, sendBuffers, delivered, connectIo>>
    BY <1>9 DEF Disconnect, InDisconnect
  <2>2. connectIo' # "done"
    BY <1>9, <2>1 DEF BeforeConnect
  <2>3. ~ChannelOpen /\ ~ChannelOpen'
    BY <2>1, <2>2 DEF ChannelOpen
  <2> QED
    BY <2>1, <2>3, Stutters, Zenon DEF ChannelOpen
<1>10. ASSUME TypeOK, NEW t \in Threads,
              \/ FinishSend(t) \/ ContentsReturn(t) \/ RegisterRecv(t)
              \/ AbandonRecv(t) \/ OnDisconnectedReturn(t) \/ ReleaseSession(t)
              \/ RegisterDisconnect(t) \/ ProcessDisconnect(t)
       PROVE  UNCHANGED Channel!cvars
  <2>1. UNCHANGED <<accepted, sendQueue, sendBuffers, delivered, connectIo, connected>>
    BY <1>10 DEF FinishSend, ContentsReturn, RegisterRecv, AbandonRecv,
       OnDisconnectedReturn, ReleaseSession, RegisterDisconnect, ProcessDisconnect
  <2>2. \A u \in Threads : disc'[u] = "exchange" <=> disc[u] = "exchange"
    BY <1>10 DEF FinishSend, ContentsReturn, RegisterRecv, AbandonRecv,
       OnDisconnectedReturn, ReleaseSession, RegisterDisconnect, ProcessDisconnect,
       InDisconnect, TypeOK
  <2> QED
    BY <2>1, <2>2, SameOpen, Stutters
<1>11. ASSUME Kernel PROVE UNCHANGED Channel!cvars
  BY <1>11, SameOpen, Stutters DEF Kernel, PeerLeaves, CompleteSend, ReceiveBytes,
     ReceiveEnd, CompleteDisconnect
<1>12. ASSUME UNCHANGED vars PROVE UNCHANGED Channel!cvars
  BY <1>12, SameOpen, Stutters DEF vars
<1> QED
  BY <1>1, <1>2, <1>3, <1>4, <1>5, <1>6, <1>7, <1>8, <1>9, <1>10, <1>11, <1>12
     DEF Next, Run, Dispatch, Channel!Next

(***************************************************************************)
(* Session::Send with its lock, its flag and its completions implements    *)
(* the plain batched channel, for any number of threads and sends.         *)
(***************************************************************************)
THEOREM ImplementsSendChannel == SafeSpec => ImplementsChannel
<1>1. Init => Channel!Init
  BY DEF Init, Channel!Init
<1> QED
  BY <1>1, ChannelStep, TypeCorrect, BeforeConnectHolds, SendInvHolds,
     BatchInvHolds, PTL DEF SafeSpec, ImplementsChannel, Channel!SafeSpec

-----------------------------------------------------------------------------
(***************************************************************************)
(* No stranding.  A raised flag on a live connection stands for somebody   *)
(* who will look at the queue again, and a queue that is not empty has its *)
(* flag raised.  Soft errors break the second half: AbandonSend lowers the *)
(* flag without looking at the queue.                                      *)
(***************************************************************************)
Attended ==
  \/ \E t \in Threads : Holds(t) \/ disc[t] = "exchange"
  \/ sendIo # "none"

StrandInv ==
  connected => /\ sendQueue # << >> => sendRegistered
               /\ sendRegistered => Attended

\* Steps that leave the flag, the queue and their attendants alone.
LEMMA StrandFrame ==
  ASSUME StrandInv, UNCHANGED <<connected, sendQueue, sendRegistered>>,
         connected => (Attended => Attended')
  PROVE  StrandInv'
BY DEF StrandInv

\* Without soft errors no step leaves a buffer unattended.
LEMMA StrandInvStep ==
  ASSUME ~SoftErrors
  PROVE  /\ TypeOK /\ BeforeConnect /\ SendInv /\ BatchInv /\ StrandInv
         /\ [Next]_vars
         => StrandInv'
<1>1. ASSUME TypeOK, StrandInv, NEW t \in Threads, Send(t) PROVE StrandInv'
  <2>1. sendRegistered' /\ UNCHANGED <<connected, sendIo, base, disc>>
    BY <1>1 DEF Send
  <2>2. CASE TakesToken
    <3>1. send'[t] = "check"
      BY <1>1, <2>2 DEF Send, TypeOK
    <3> QED
      BY <2>1, <3>1 DEF StrandInv, Attended, Holds
  <2>3. CASE ~TakesToken
    BY <1>1, <2>1, <2>3 DEF Send, TakesToken, StrandInv, Attended, Holds
  <2> QED
    BY <2>2, <2>3
<1>2. ASSUME TypeOK, StrandInv, NEW t \in Threads, RegisterSend(t) PROVE StrandInv'
  <2>1. connected => send'[t] = "drain"
    BY <1>2 DEF RegisterSend, TypeOK
  <2>2. UNCHANGED <<connected, sendQueue, sendRegistered>>
    BY <1>2 DEF RegisterSend
  <2> QED
    BY <1>2, <2>1, <2>2, StrandFrame DEF Attended, Holds
<1>3. ASSUME TypeOK, SendInv, NEW t \in Threads, DrainQueue(t) PROVE StrandInv'
  <2>1. sendQueue' = << >> /\ send'[t] = "post"
    BY <1>3 DEF DrainQueue, TypeOK
  <2> QED
    BY <2>1 DEF StrandInv, Attended, Holds
<1>4. ASSUME TypeOK, StrandInv, NEW t \in Threads, PostSend(t) PROVE StrandInv'
  <2>1. sendIo' = "pending" \/ send'[t] = "failed"
    BY <1>4 DEF PostSend, TypeOK
  <2>2. UNCHANGED <<connected, sendQueue, sendRegistered>>
    BY <1>4 DEF PostSend
  <2> QED
    BY <1>4, <2>1, <2>2, StrandFrame DEF Attended, Holds
<1>5. ASSUME BatchInv, NEW t \in Threads, AbandonSend(t) PROVE StrandInv'
  BY <1>5 DEF AbandonSend, BatchInv, StrandInv
<1>6. ASSUME TypeOK, StrandInv, NEW t \in Threads, ProcessSend(t) PROVE StrandInv'
  <2>1. disc'[t] = "exchange" \/ base'[t] = "sent"
    BY <1>6 DEF ProcessSend, TypeOK
  <2>2. UNCHANGED <<connected, sendQueue, sendRegistered>>
    BY <1>6 DEF ProcessSend
  <2> QED
    BY <1>6, <2>1, <2>2, StrandFrame DEF Attended, Holds
<1>7. ASSUME TypeOK, StrandInv, NEW t \in Threads, FinishSend(t) PROVE StrandInv'
  <2>1. UNCHANGED <<connected, sendQueue>>
    BY <1>7 DEF FinishSend
  <2>2. CASE BuffersWait
    <3>1. send'[t] = "check" /\ UNCHANGED sendRegistered
      BY <1>7, <2>2 DEF FinishSend, TypeOK
    <3> QED
      BY <1>7, <2>1, <3>1, StrandFrame DEF Attended, Holds
  <2>3. CASE ~BuffersWait
    <3>1. sendQueue' = << >> /\ ~sendRegistered'
      BY <1>7, <2>1, <2>3 DEF FinishSend, BuffersWait
    <3> QED
      BY <3>1 DEF StrandInv
  <2> QED
    BY <2>2, <2>3
<1>8. ASSUME BeforeConnect, NEW t \in Threads, ProcessConnect(t) PROVE StrandInv'
  BY <1>8 DEF ProcessConnect, BeforeConnect, StrandInv
<1>9. ASSUME TypeOK, StrandInv, NEW t \in Threads,
             \/ ContentsReturn(t) \/ RegisterRecv(t) \/ PostRecv(t)
             \/ AbandonRecv(t) \/ ProcessRecv(t) \/ ProcessDisconnect(t)
             \/ OnDisconnectedReturn(t) \/ ReleaseSession(t) \/ RegisterDisconnect(t)
      PROVE  StrandInv'
  <2>1. UNCHANGED <<connected, sendQueue, sendRegistered, send, sendIo>>
    BY <1>9 DEF ContentsReturn, RegisterRecv, PostRecv, AbandonRecv, ProcessRecv,
       ProcessDisconnect, OnDisconnectedReturn, ReleaseSession, RegisterDisconnect
  <2>2. \A u \in Threads : /\ base[u] = "sent" => base'[u] = "sent"
                           /\ disc[u] = "exchange" => disc'[u] = "exchange"
    BY <1>9 DEF ContentsReturn, RegisterRecv, PostRecv, AbandonRecv, ProcessRecv,
       ProcessDisconnect, OnDisconnectedReturn, ReleaseSession, RegisterDisconnect,
       InHandler, InDisconnect, Idle, TypeOK
  <2>3. Attended => Attended'
    BY <2>1, <2>2 DEF Attended, Holds
  <2> QED
    BY <1>9, <2>1, <2>3, StrandFrame
<1>10. ASSUME NEW t \in Threads, Disconnect(t) PROVE StrandInv'
  BY <1>10 DEF Disconnect, StrandInv
<1>11. ASSUME StrandInv, Kernel PROVE StrandInv'
  BY <1>11, StrandFrame DEF Kernel, PeerLeaves, CompleteSend, ReceiveBytes,
     ReceiveEnd, CompleteDisconnect, Attended, Holds
<1>12. ASSUME StrandInv, UNCHANGED vars PROVE StrandInv'
  BY <1>12, StrandFrame DEF vars, Attended, Holds
<1> QED
  BY <1>1, <1>2, <1>3, <1>4, <1>5, <1>6, <1>7, <1>8, <1>9, <1>10, <1>11, <1>12
     DEF Next, Run, Dispatch

(***************************************************************************)
(* When HandleError sees only resets, a buffer queued on a live connection *)
(* is never left behind by the race of Send against ProcessSend.           *)
(***************************************************************************)
THEOREM NothingStranded ==
  ASSUME ~SoftErrors
  PROVE  SafeSpec => []NoStranding
<1>1. Init => StrandInv
  BY DEF Init, StrandInv
<1>2. StrandInv => NoStranding
  BY DEF StrandInv, Attended, NoStranding
<1>3. /\ TypeOK /\ BeforeConnect /\ SendInv /\ BatchInv /\ StrandInv
      /\ [Next]_vars
      => StrandInv'
  BY StrandInvStep
<1> QED
  BY <1>1, <1>2, <1>3, TypeCorrect, BeforeConnectHolds, SendInvHolds,
     BatchInvHolds, PTL DEF SafeSpec
=============================================================================
