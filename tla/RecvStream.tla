----------------------------- MODULE RecvStream -----------------------------
(***************************************************************************)
(* The receiving half of a PacketSession: RecvBuffer's two cursors,        *)
(* Session::ProcessRecv and the loop of PacketSession::OnRecv that cuts    *)
(* the byte stream into packets.                                           *)
(*                                                                         *)
(* The handlers of one session's receives never overlap (RecvExclusive of  *)
(* module Session), so they run one after the other here; what interleaves *)
(* with them is the peer and the network, which cut the stream anywhere.   *)
(*                                                                         *)
(* A byte is its number in the stream.  cell[i] is the byte in _buffer[i]; *)
(* a packet is read by what its header says, found through cell.           *)
(***************************************************************************)
EXTENDS Integers, Sequences

CONSTANTS
  HeaderSize,     \* sizeof(PacketHeader)
  MaxPacket,      \* the greatest value of the header's size
  BufferSize,     \* RecvBuffer::_bufferSize
  BufferCount,    \* RecvBuffer::BUFFER_COUNT
  MaxBytes        \* bound on the bytes the peer sends

\* 4 <= 0xFFFF < 0x10000, and 10 in the code.
ASSUME SizesAssumption ==
  /\ HeaderSize \in Nat \ {0}
  /\ MaxPacket \in Nat /\ HeaderSize <= MaxPacket
  /\ BufferSize \in Nat /\ MaxPacket <= BufferSize
  /\ BufferCount \in Nat /\ BufferCount >= 3
  /\ MaxBytes \in Nat

Sizes == HeaderSize..MaxPacket
Capacity == BufferSize * BufferCount
Slots == 0..(Capacity - 1)

VARIABLES
  ends,           \* where each packet the peer sent ends in the stream
  peerGone,       \* the peer has closed the connection
  received,       \* bytes the operating system has put into the buffer
  connected,      \* Session::_connected
  readPos,        \* RecvBuffer::_readPos
  writePos,       \* RecvBuffer::_writePos
  cell,           \* RecvBuffer::_buffer
  phase,          \* what the session does with its receive
  room,           \* wsaBuf.len of the outstanding WSARecv
  got,            \* numOfBytes of the completion
  processLen,     \* processLen of PacketSession::OnRecv
  delivered       \* the packets OnRecvPacket was called with

peer == <<ends, peerGone>>
buffer == <<readPos, writePos, cell>>
vars == <<ends, peerGone, received, connected, readPos, writePos, cell, phase,
          room, got, processLen, delivered>>

DataSize == writePos - readPos
FreeSize == Capacity - writePos

Lost == -1       \* no byte of the stream

End(k) == IF k = 0 THEN 0 ELSE ends[k]
Total == End(Len(ends))

Init ==
  /\ ends = << >>
  /\ peerGone = FALSE
  /\ received = 0
  /\ connected = TRUE
  /\ readPos = 0
  /\ writePos = 0
  /\ cell = [i \in Slots |-> Lost]
  /\ phase = "idle"
  /\ room = 0
  /\ got = 0
  /\ processLen = 0
  /\ delivered = << >>

-----------------------------------------------------------------------------
(* The peer and the network.                                               *)

\* MakeSendBuffer: the header holds the size of the packet, itself included.
Submit(size) ==
  /\ ~peerGone
  /\ Total + size <= MaxBytes
  /\ ends' = Append(ends, Total + size)
  /\ UNCHANGED <<peerGone, received, connected, phase, room, got, processLen,
                 delivered>>
  /\ UNCHANGED buffer

PeerCloses ==
  /\ ~peerGone
  /\ peerGone' = TRUE
  /\ UNCHANGED <<ends, received, connected, phase, room, got, processLen,
                 delivered>>
  /\ UNCHANGED buffer

\* The outstanding WSARecv completes with any part of what is under way.
Receive(n) ==
  /\ phase = "posted"
  /\ n <= room /\ received + n <= Total
  /\ cell' = [i \in Slots |-> IF i \in writePos..(writePos + n - 1)
                              THEN received + (i - writePos) ELSE cell[i]]
  /\ received' = received + n
  /\ got' = n
  /\ phase' = "completed"
  /\ UNCHANGED <<connected, readPos, writePos, room, processLen, delivered>>
  /\ UNCHANGED peer

-----------------------------------------------------------------------------
(* The session.                                                            *)

RegisterRecv ==
  /\ phase = "idle"
  /\ IF connected THEN phase' = "posted" /\ room' = FreeSize
                  ELSE phase' = "closed" /\ UNCHANGED room
  /\ UNCHANGED <<received, connected, got, processLen, delivered>>
  /\ UNCHANGED peer /\ UNCHANGED buffer

\* A completion of zero bytes disconnects: the peer's end, or no room to receive.
ReceiveZero ==
  /\ phase = "posted"
  /\ peerGone \/ room = 0
  /\ phase' = "closed"
  /\ connected' = FALSE
  /\ UNCHANGED <<received, room, got, processLen, delivered>>
  /\ UNCHANGED peer /\ UNCHANGED buffer

\* OnWrite; its failure disconnects but does not return.
ProcessRecv ==
  /\ phase = "completed"
  /\ IF got > FreeSize
     THEN connected' = FALSE /\ UNCHANGED writePos
     ELSE writePos' = writePos + got /\ UNCHANGED connected
  /\ phase' = "parsing"
  /\ processLen' = 0
  /\ UNCHANGED <<received, readPos, cell, room, got, delivered>>
  /\ UNCHANGED peer

\* header.size in the cell the loop stands on: true at the beginning of a packet,
\* any uint16 elsewhere.
HeaderAt(i) ==
  IF \E k \in 1..Len(ends) : cell[i] = End(k - 1)
  THEN {ends[k] - End(k - 1) : k \in {j \in 1..Len(ends) : cell[i] = End(j - 1)}}
  ELSE 0..MaxPacket

\* The bytes in n cells from i on, if they are consecutive in the stream.
Bytes(i, n) ==
  IF \A j \in 0..(n - 1) : cell[i + j] = cell[i] + j
  THEN [from |-> cell[i], to |-> cell[i] + n]
  ELSE [from |-> Lost, to |-> Lost]

Unparsed == DataSize - processLen

\* ERROR for checking: the size in the header is not compared with the data.
OnRecvPacketPartial ==
  /\ phase = "parsing"
  /\ Unparsed >= HeaderSize
  /\ \E size \in HeaderAt(readPos + processLen) :
       /\ delivered' = Append(delivered, Bytes(readPos + processLen, Unparsed))
       /\ processLen' = processLen + size
  /\ UNCHANGED <<received, connected, phase, room, got>>
  /\ UNCHANGED peer /\ UNCHANGED buffer

\* ERROR for checking: the loop advances by the payload, not by the packet.
OnRecvPacketPayload ==
  /\ phase = "parsing"
  /\ Unparsed >= HeaderSize
  /\ \E size \in HeaderAt(readPos + processLen) :
       /\ Unparsed >= size
       /\ delivered' = Append(delivered, Bytes(readPos + processLen, size))
       /\ processLen' = processLen + size - HeaderSize
  /\ UNCHANGED <<received, connected, phase, room, got>>
  /\ UNCHANGED peer /\ UNCHANGED buffer

\* One turn of the loop: a whole packet is there.
OnRecvPacket ==
  /\ phase = "parsing"
  /\ Unparsed >= HeaderSize
  /\ \E size \in HeaderAt(readPos + processLen) :
       /\ Unparsed >= size
       /\ delivered' = Append(delivered, Bytes(readPos + processLen, size))
       /\ processLen' = processLen + size
  /\ UNCHANGED <<received, connected, phase, room, got>>
  /\ UNCHANGED peer /\ UNCHANGED buffer

\* memcpy of n cells from r to the front; what it does to cells that overlap is
\* undefined.
Copies(r, n) ==
  {[i \in Slots |-> IF i < n THEN cell[r + i] ELSE cell[i]]}
  \cup IF n > r THEN {[i \in Slots |-> IF i < n THEN Lost ELSE cell[i]]} ELSE {}

\* ERRORS for checking: move only when the buffer is full; move too early.
NeedsRoomLate == FreeSize = 0
NeedsRoomEarly == FreeSize < 2 * BufferSize

\* Clean: less than one buffer's worth of space is left.
NeedsRoom == FreeSize < BufferSize

\* ERROR for checking: an empty buffer resets one cursor only.
CleanHalf(r) ==
  LET left == writePos - r
  IN  IF left = 0
      THEN readPos' = r /\ writePos' = 0 /\ UNCHANGED cell
      ELSE IF NeedsRoom
           THEN readPos' = 0 /\ writePos' = left /\ cell' \in Copies(r, left)
           ELSE readPos' = r /\ UNCHANGED <<writePos, cell>>

\* ERROR for checking: the cursors are moved and the bytes are not.
CleanForgetful(r) ==
  LET left == writePos - r
  IN  IF left = 0
      THEN readPos' = 0 /\ writePos' = 0 /\ UNCHANGED cell
      ELSE IF NeedsRoom
           THEN readPos' = 0 /\ writePos' = left /\ UNCHANGED cell
           ELSE readPos' = r /\ UNCHANGED <<writePos, cell>>

\* RecvBuffer::Clean, the read cursor standing at r.
Clean(r) ==
  LET left == writePos - r
  IN  IF left = 0
      THEN readPos' = 0 /\ writePos' = 0 /\ UNCHANGED cell
      ELSE IF NeedsRoom
           THEN readPos' = 0 /\ writePos' = left /\ cell' \in Copies(r, left)
           ELSE readPos' = r /\ UNCHANGED <<writePos, cell>>

\* The loop breaks, OnRead, Clean.
FinishRecv ==
  /\ phase = "parsing"
  /\ \/ Unparsed < HeaderSize
     \/ /\ Unparsed >= HeaderSize
        /\ \E size \in HeaderAt(readPos + processLen) : Unparsed < size
  /\ IF processLen > DataSize
     THEN phase' = "closed" /\ connected' = FALSE /\ UNCHANGED buffer
     ELSE phase' = "idle" /\ UNCHANGED connected /\ Clean(readPos + processLen)
  /\ UNCHANGED <<received, room, got, processLen, delivered>>
  /\ UNCHANGED peer

-----------------------------------------------------------------------------
Handler == RegisterRecv \/ ProcessRecv \/ OnRecvPacket \/ FinishRecv

Others ==
  \/ PeerCloses
  \/ \E n \in 1..MaxBytes : Receive(n)
  \/ ReceiveZero \/ Handler

Next == (\E size \in Sizes : Submit(size)) \/ Others

\* A handler runs to its end, and the network delivers what it carries.
Fairness ==
  /\ WF_vars(Handler)
  /\ WF_vars(\E n \in 1..MaxBytes : Receive(n))

SafeSpec == Init /\ [][Next]_vars

Spec == SafeSpec /\ Fairness
-----------------------------------------------------------------------------
(* Safety.                                                                 *)

TypeOK ==
  /\ ends \in Seq(Nat)
  /\ peerGone \in BOOLEAN
  /\ received \in Nat
  /\ connected \in BOOLEAN
  /\ readPos \in 0..Capacity
  /\ writePos \in readPos..Capacity
  /\ cell \in [Slots -> Int]
  /\ phase \in {"idle", "posted", "completed", "parsing", "closed"}
  /\ room \in 0..Capacity
  /\ got \in Nat
  /\ processLen \in Nat
  /\ delivered \in Seq([from : Int, to : Int])

\* Every WSARecv has room for a whole buffer.  Without any room it would complete
\* with zero bytes, which ProcessRecv takes for the peer's end.
RoomToReceive == phase = "posted" => room >= BufferSize /\ room = FreeSize

\* Neither cursor ever runs over: the "OnWrite Overflow" and "OnRead Overflow"
\* disconnects are never taken, only the peer ends the session.
NeverOverflows == connected \/ peerGone

\* The source and the destination of Clean's memcpy never overlap.
CopyNeverOverlaps ==
  [][cell' # cell /\ phase = "parsing" =>
       writePos - (readPos + processLen) <= readPos + processLen]_vars

\* Bytes that OnWrite has counted, and those that OnRead has given up.
Written == IF phase = "completed" THEN received - got ELSE received
Consumed == Written - DataSize

\* Between the cursors lies the unread part of the stream, every byte at its
\* place, whatever Clean has moved.
BufferHoldsStream ==
  /\ \A i \in 0..(DataSize - 1) : cell[readPos + i] = Consumed + i
  /\ phase = "completed" =>
       \A i \in 0..(got - 1) : cell[writePos + i] = Written + i

\* The loop of OnRecv always stands on a header, and so does the read cursor
\* between receives.
StandsOnHeader ==
  phase # "closed" =>
    Consumed + (IF phase = "parsing" THEN processLen ELSE 0) = End(Len(delivered))

-----------------------------------------------------------------------------
\* However the stream is cut, PacketSession delivers the packets sent, and while
\* the peer stays it delivers all of them.
Packets == INSTANCE PacketChannel WITH open <- ~peerGone

ImplementsPackets == Packets!Spec
=============================================================================
