-------------------------- MODULE RecvStreamProofs --------------------------
(***************************************************************************)
(* Theorems about RecvStream, for every size of header, packet and buffer  *)
(* that SizesAssumption allows.                                            *)
(***************************************************************************)
EXTENDS RecvStream, SequenceTheorems, TLAPS

\* The stream: packets follow one another, each of a legal size, and no byte is
\* received that was not sent.
StreamInv ==
  /\ \A j, k \in 0..Len(ends) : j < k => End(j) < End(k)
  /\ \A k \in 1..Len(ends) : ends[k] - End(k - 1) \in Sizes
  /\ received <= Total

\* The cursors: what each phase knows of the space and the data.
CursorInv ==
  /\ connected \/ peerGone
  /\ phase # "closed" => connected
  /\ phase = "idle" => FreeSize >= BufferSize
  /\ phase = "posted" => room = FreeSize /\ room >= BufferSize
  /\ phase = "completed" => got \in 1..FreeSize
  /\ phase = "parsing" => processLen <= DataSize

\* The content: the buffer holds the unread stream from a header on.
ContentInv ==
  /\ BufferHoldsStream
  /\ StandsOnHeader
  /\ Len(delivered) <= Len(ends)

Inv == TypeOK /\ StreamInv /\ CursorInv /\ ContentInv

-----------------------------------------------------------------------------
(* Facts about the constants and the stream.                               *)

\* Three buffers fit into the capacity, whatever the number of buffers.
LEMMA CapacityBounds ==
  /\ Capacity \in Nat /\ 3 * BufferSize <= Capacity
  /\ HeaderSize \in Nat /\ MaxPacket \in Nat /\ BufferSize \in Nat
  /\ 1 <= HeaderSize /\ HeaderSize <= MaxPacket /\ MaxPacket <= BufferSize
<1>1. BufferSize \in Nat /\ BufferCount \in Nat /\ BufferCount >= 3
  BY SizesAssumption
<1>2. BufferSize * (BufferCount - 3) \in Nat
  BY <1>1
<1>3. BufferSize * BufferCount = BufferSize * (BufferCount - 3) + BufferSize * 3
  BY <1>1
<1> QED  BY <1>1, <1>2, <1>3, SizesAssumption DEF Capacity

\* The ends of the packets are numbers, the stream's beginning among them.
LEMMA EndTyped ==
  ASSUME ends \in Seq(Nat)
  PROVE  /\ \A k \in 0..Len(ends) : End(k) \in Nat
         /\ Total \in Nat
BY DEF End, Total

\* Where a packet begins the header gives its size; nowhere does a header give
\* more than MaxPacket.
LEMMA HeaderBounded ==
  ASSUME TypeOK, StreamInv, NEW i, NEW size \in HeaderAt(i)
  PROVE  size \in Int /\ size <= MaxPacket
<1>1. CASE \E k \in 1..Len(ends) : cell[i] = End(k - 1)
  BY <1>1, CapacityBounds DEF HeaderAt, StreamInv, Sizes, TypeOK
<1>2. CASE ~ \E k \in 1..Len(ends) : cell[i] = End(k - 1)
  BY <1>2, CapacityBounds DEF HeaderAt
<1> QED  BY <1>1, <1>2

\* On the header of packet d + 1 the size is that packet's.
LEMMA HeaderTrue ==
  ASSUME TypeOK, StreamInv, NEW i, NEW d \in Nat, d < Len(ends),
         cell[i] = End(d), NEW size \in HeaderAt(i)
  PROVE  size = End(d + 1) - End(d) /\ size \in Sizes
<1>1. d + 1 \in 1..Len(ends) /\ cell[i] = End((d + 1) - 1)
  BY DEF TypeOK
<1>2. PICK k \in 1..Len(ends) :
        cell[i] = End(k - 1) /\ size = ends[k] - End(k - 1)
  BY <1>1 DEF HeaderAt
<1>3. k - 1 = d
  <2>1. k - 1 \in 0..Len(ends) /\ d \in 0..Len(ends)
    BY DEF TypeOK
  <2>2. End(k - 1) = End(d)
    BY <1>2
  <2>3. End(k - 1) \in Nat /\ End(d) \in Nat
    BY <2>1, EndTyped DEF TypeOK
  <2> QED  BY <2>1, <2>2, <2>3 DEF StreamInv
<1>4. ends[k] = End(d + 1)
  BY <1>3 DEF End
<1> QED  BY <1>2, <1>3, <1>4 DEF StreamInv
-----------------------------------------------------------------------------
(* The stream.                                                             *)

\* A packet is added behind the last; a receive takes what has been sent.
LEMMA StreamStep == Inv /\ [Next]_vars => StreamInv'
<1> SUFFICES ASSUME Inv, [Next]_vars PROVE StreamInv'
  OBVIOUS
<1> USE DEF peer, buffer
<1>1. ASSUME NEW size \in Sizes, Submit(size) PROVE StreamInv'
  <2>1. size \in Sizes /\ ends' = Append(ends, Total + size)
    BY <1>1 DEF Submit
  <2>2. ends \in Seq(Nat) /\ Total \in Nat /\ size \in Nat /\ size > 0
    BY <2>1, CapacityBounds, EndTyped DEF Inv, TypeOK, Sizes
  <2>3. /\ Len(ends') = Len(ends) + 1
        /\ \A k \in 1..Len(ends) : ends'[k] = ends[k]
        /\ ends'[Len(ends) + 1] = Total + size
    BY <2>1, <2>2
  <2>5. \A j \in 0..Len(ends) : End(j) \in Nat /\ End(j) <= Total
    BY <2>2, EndTyped DEF Inv, StreamInv, Total
  <2>6. \A j, k \in 0..Len(ends)' : j < k => End(j)' < End(k)'
    <3> SUFFICES ASSUME NEW j \in 0..Len(ends'), NEW k \in 0..Len(ends'), j < k
                 PROVE End(j)' < End(k)'
      OBVIOUS
    <3>1. CASE k <= Len(ends)
      <4>1. j \in 0..Len(ends) /\ k \in 0..Len(ends)
        BY <2>2, <3>1
      <4>2. End(j) < End(k)
        BY <4>1 DEF Inv, StreamInv
      <4>3. End(j)' = End(j) /\ End(k)' = End(k)
        BY <2>2, <2>3, <4>1 DEF End
      <4> QED  BY <4>2, <4>3
    <3>2. CASE k = Len(ends) + 1
      BY <2>2, <2>3, <2>5, <3>2 DEF End
    <3> QED  BY <2>2, <2>3, <3>1, <3>2
  <2>7. \A k \in 1..Len(ends)' : ends'[k] - End(k - 1)' \in Sizes
    <3> SUFFICES ASSUME NEW k \in 1..Len(ends')
                 PROVE ends'[k] - End(k - 1)' \in Sizes
      OBVIOUS
    <3>1. CASE k <= Len(ends)
      <4>1. k \in 1..Len(ends)
        BY <2>2, <3>1
      <4>2. ends[k] - End(k - 1) \in Sizes
        BY <4>1 DEF Inv, StreamInv
      <4>3. ends'[k] = ends[k] /\ End(k - 1)' = End(k - 1)
        BY <2>2, <2>3, <4>1 DEF End
      <4> QED  BY <4>2, <4>3
    <3>2. CASE k = Len(ends) + 1
      <4>1. End(k - 1)' = Total
        BY <2>2, <2>3, <3>2 DEF Total, End
      <4> QED  BY <2>2, <2>3, <4>1, <3>2
    <3> QED  BY <2>2, <2>3, <3>1, <3>2
  <2>8. received' <= Total'
    <3>1. Total' = Total + size
      BY <2>2, <2>3 DEF Total, End
    <3> QED  BY <1>1, <2>2, <3>1 DEF Submit, Inv, StreamInv, TypeOK
  <2> QED  BY <2>6, <2>7, <2>8 DEF StreamInv
<1>2. ASSUME NEW n \in 1..MaxBytes, Receive(n) PROVE StreamInv'
  BY <1>2 DEF Receive, Inv, StreamInv, End, Total
<1>3. CASE UNCHANGED <<ends, received>>
  BY <1>3 DEF Inv, StreamInv, End, Total
<1> QED
  BY <1>1, <1>2, <1>3 DEF Next, Others, Handler, PeerCloses, ReceiveZero, RegisterRecv,
     ProcessRecv, OnRecvPacket, FinishRecv, vars

-----------------------------------------------------------------------------
(* The cursors.                                                            *)

\* What FinishRecv leaves unread is less than a packet, so it fits in front of
\* itself and leaves room for a whole buffer behind it.
LEMMA LeftoverSmall ==
  ASSUME Inv, FinishRecv
  PROVE  /\ Unparsed \in Nat /\ Unparsed < MaxPacket
         /\ phase = "parsing" /\ processLen <= DataSize
<1> USE DEF Inv, TypeOK, DataSize, Unparsed
<1>1. phase = "parsing" /\ processLen <= DataSize
  BY DEF FinishRecv, CursorInv
<1>2. Unparsed \in Nat
  BY <1>1
<1>3. CASE Unparsed < HeaderSize
  BY <1>1, <1>2, <1>3, CapacityBounds
<1>4. CASE \E size \in HeaderAt(readPos + processLen) : Unparsed < size
  BY <1>1, <1>2, <1>4, CapacityBounds, HeaderBounded
<1> QED  BY <1>1, <1>2, <1>3, <1>4 DEF FinishRecv

\* When Clean copies, the unread bytes lie behind their destination.
LEMMA CopyDisjoint ==
  ASSUME Inv, FinishRecv, NeedsRoom
  PROVE  writePos - (readPos + processLen) <= readPos + processLen
<1>1. Unparsed \in Nat /\ Unparsed < MaxPacket
  BY LeftoverSmall
<1> QED
  BY <1>1, CapacityBounds
  DEF Inv, TypeOK, Unparsed, DataSize, NeedsRoom, FreeSize

\* What Clean may do, with the undefined copy ruled out.
LEMMA CleanEffect ==
  ASSUME Inv, FinishRecv
  PROVE  LET r == readPos + processLen
             left == writePos - r
         IN  /\ phase' = "idle" /\ UNCHANGED connected
             /\ \/ left = 0 /\ readPos' = 0 /\ writePos' = 0 /\ cell' = cell
                \/ /\ left \in 1..r /\ NeedsRoom
                   /\ readPos' = 0 /\ writePos' = left
                   /\ cell' = [i \in Slots |-> IF i < left THEN cell[r + i]
                                                           ELSE cell[i]]
                \/ /\ left > 0 /\ ~NeedsRoom
                   /\ readPos' = r /\ writePos' = writePos /\ cell' = cell
<1> DEFINE r == readPos + processLen
           left == writePos - r
<1>1. /\ Unparsed \in Nat /\ Unparsed < MaxPacket
      /\ phase = "parsing" /\ processLen <= DataSize
  BY LeftoverSmall
<1>2. left \in Nat /\ r \in Nat
  BY <1>1 DEF Inv, TypeOK, Unparsed, DataSize
<1>3. phase' = "idle" /\ UNCHANGED connected /\ Clean(r)
  BY <1>1 DEF FinishRecv, Inv, TypeOK, DataSize
<1>4. CASE left = 0
  BY <1>2, <1>3, <1>4 DEF Clean
<1>5. CASE left # 0 /\ NeedsRoom
  <2>1. left <= r
    BY <1>5, CopyDisjoint
  <2>2. readPos' = 0 /\ writePos' = left /\ cell' \in Copies(r, left)
    BY <1>3, <1>5 DEF Clean
  <2>3. cell' = [i \in Slots |-> IF i < left THEN cell[r + i] ELSE cell[i]]
    BY <1>2, <2>1, <2>2 DEF Copies
  <2> QED  BY <1>2, <1>3, <1>5, <2>1, <2>2, <2>3
<1>6. CASE left # 0 /\ ~NeedsRoom
  BY <1>2, <1>3, <1>6 DEF Clean
<1> QED  BY <1>4, <1>5, <1>6

\* No step of the peer, the network or the handler breaks a cursor.
LEMMA CursorStep == Inv /\ [Next]_vars => CursorInv'
<1> SUFFICES ASSUME Inv, [Next]_vars PROVE CursorInv'
  OBVIOUS
<1> USE CapacityBounds DEF Inv, TypeOK, CursorInv, FreeSize, DataSize
<1>1. ASSUME NEW size \in Sizes, Submit(size) PROVE CursorInv'
  BY <1>1 DEF Submit, buffer
<1>2. CASE PeerCloses
  BY <1>2 DEF PeerCloses, buffer
<1>3. ASSUME NEW n \in 1..MaxBytes, Receive(n) PROVE CursorInv'
  BY <1>3 DEF Receive, peer
<1>4. CASE ReceiveZero
  BY <1>4 DEF ReceiveZero, peer, buffer
<1>5. CASE RegisterRecv
  BY <1>5 DEF RegisterRecv, peer, buffer
<1>6. CASE ProcessRecv
  <2>1. got \in 1..FreeSize /\ FreeSize \in Nat /\ ~(got > FreeSize)
    BY <1>6 DEF ProcessRecv
  <2>2. /\ writePos' = writePos + got /\ readPos' = readPos
        /\ connected' = connected
        /\ phase' = "parsing" /\ processLen' = 0
    <3> HIDE DEF Inv, FreeSize
    <3> QED  BY <1>6, <2>1 DEF ProcessRecv
  <2>3. phase = "completed" /\ connected
    BY <1>6 DEF ProcessRecv
  <2>4. connected' /\ phase' = "parsing"
    BY <2>2, <2>3
  <2>5. processLen' <= DataSize'
    BY <2>1, <2>2
  <2> QED  BY <2>4, <2>5
<1>7. CASE OnRecvPacket
  <2>1. PICK size \in HeaderAt(readPos + processLen) :
          Unparsed >= size /\ processLen' = processLen + size
    BY <1>7 DEF OnRecvPacket
  <2>2. size \in Int
    BY <2>1, HeaderBounded
  <2> QED  BY <1>7, <2>1, <2>2 DEF OnRecvPacket, Unparsed, peer, buffer
<1>8. CASE FinishRecv
  <2>1. Unparsed \in Nat /\ Unparsed < MaxPacket
    BY <1>8, LeftoverSmall
  <2>2. phase' = "idle" /\ UNCHANGED connected /\ UNCHANGED peerGone
    BY <1>8, CleanEffect DEF FinishRecv, peer
  <2>3. FreeSize' >= BufferSize
    BY <1>8, <2>1, CleanEffect DEF Unparsed, NeedsRoom
  <2>4. connected
    BY <1>8, LeftoverSmall
  <2> QED  BY <2>2, <2>3, <2>4
<1>9. CASE UNCHANGED vars
  BY <1>9 DEF vars
<1> QED
  BY <1>1, <1>2, <1>3, <1>4, <1>5, <1>6, <1>7, <1>8, <1>9 DEF Next, Others, Handler

-----------------------------------------------------------------------------
(* Types.                                                                  *)

\* A packet the loop finds whole lies inside the buffer.
LEMMA PacketTyped ==
  ASSUME Inv, phase = "parsing", Unparsed >= HeaderSize, NEW n \in Int
  PROVE  /\ readPos + processLen \in Slots
         /\ Bytes(readPos + processLen, n) \in [from : Int, to : Int]
<1>1. readPos + processLen \in Slots
  BY CapacityBounds DEF Inv, TypeOK, Unparsed, DataSize, Slots
<1>2. cell[readPos + processLen] \in Int
  BY <1>1 DEF Inv, TypeOK
<1> QED  BY <1>1, <1>2 DEF Bytes, Lost

\* Every step keeps the type of every variable.
LEMMA TypeStep == Inv /\ [Next]_vars => TypeOK'
<1> SUFFICES ASSUME Inv, [Next]_vars PROVE TypeOK'
  OBVIOUS
<1> USE CapacityBounds DEF Inv, TypeOK
<1>1. ASSUME NEW size \in Sizes, Submit(size) PROVE TypeOK'
  <2>1. size \in Sizes /\ ends' = Append(ends, Total + size)
    BY <1>1 DEF Submit
  <2>2. Total + size \in Nat
    BY <2>1, EndTyped DEF Sizes
  <2>3. ends' \in Seq(Nat)
    BY <2>1, <2>2
  <2> QED  BY <1>1, <2>3 DEF Submit, buffer
<1>2. CASE PeerCloses
  BY <1>2 DEF PeerCloses, buffer
<1>3. ASSUME NEW n \in 1..MaxBytes, Receive(n) PROVE TypeOK'
  <2>1. n \in Nat
    BY SizesAssumption
  <2>2. cell' \in [Slots -> Int]
    BY <1>3, <2>1 DEF Receive
  <2> QED  BY <1>3, <2>1, <2>2 DEF Receive, peer
<1>4. CASE ReceiveZero
  BY <1>4 DEF ReceiveZero, peer, buffer
<1>5. CASE RegisterRecv
  BY <1>5 DEF RegisterRecv, peer, buffer, FreeSize
<1>6. CASE ProcessRecv
  <2>1. got \in 1..FreeSize /\ FreeSize \in Nat
    BY <1>6 DEF ProcessRecv, CursorInv, FreeSize
  <2>2. /\ writePos' = writePos + got /\ readPos' = readPos
        /\ connected' = connected /\ phase' = "parsing" /\ processLen' = 0
    BY <1>6, <2>1 DEF ProcessRecv
  <2>3. writePos' \in readPos'..Capacity
    BY <2>1, <2>2 DEF FreeSize
  <2> QED  BY <1>6, <2>2, <2>3 DEF ProcessRecv, peer
<1>7. CASE OnRecvPacket
  <2>1. PICK size \in HeaderAt(readPos + processLen) :
          /\ delivered' = Append(delivered, Bytes(readPos + processLen, size))
          /\ processLen' = processLen + size
    BY <1>7 DEF OnRecvPacket
  <2>2. size \in Nat
    BY <1>7, <2>1, CapacityBounds DEF HeaderAt, StreamInv, Sizes
  <2>3. Bytes(readPos + processLen, size) \in [from : Int, to : Int]
    BY <1>7, <2>2, PacketTyped DEF OnRecvPacket
  <2>4. delivered' \in Seq([from : Int, to : Int])
    BY <2>1, <2>3
  <2> QED  BY <1>7, <2>1, <2>2, <2>4 DEF OnRecvPacket, peer, buffer
<1>8. CASE FinishRecv
  <2>1. Unparsed \in Nat
    BY <1>8, LeftoverSmall
  <2>2. /\ readPos' \in 0..Capacity /\ writePos' \in readPos'..Capacity
    BY <1>8, <2>1, CleanEffect DEF Unparsed, DataSize
  <2>3. cell' \in [Slots -> Int]
    <3>1. CASE cell' = cell
      BY <3>1
    <3>2. ASSUME NEW left \in 1..(readPos + processLen),
                 left = writePos - (readPos + processLen),
                 cell' = [i \in Slots |-> IF i < left
                            THEN cell[readPos + processLen + i] ELSE cell[i]]
          PROVE cell' \in [Slots -> Int]
      <4>1. \A i \in Slots : i < left => readPos + processLen + i \in Slots
        BY <3>2 DEF Slots
      <4> QED  BY <3>2, <4>1
    <3> QED  BY <1>8, <3>1, <3>2, CleanEffect
  <2>4. phase' = "idle" /\ UNCHANGED connected
    BY <1>8, CleanEffect
  <2> QED  BY <1>8, <2>2, <2>3, <2>4 DEF FinishRecv, peer
<1>9. CASE UNCHANGED vars
  BY <1>9 DEF vars
<1> QED
  BY <1>1, <1>2, <1>3, <1>4, <1>5, <1>6, <1>7, <1>8, <1>9 DEF Next, Others, Handler

-----------------------------------------------------------------------------
(* The content.                                                            *)

\* The loop of OnRecv stands on the header of the next packet.
LEMMA LoopOnHeader ==
  ASSUME Inv, phase = "parsing", Unparsed >= HeaderSize,
         NEW size \in HeaderAt(readPos + processLen)
  PROVE  /\ Len(delivered) < Len(ends)
         /\ cell[readPos + processLen] = End(Len(delivered))
         /\ size = End(Len(delivered) + 1) - End(Len(delivered))
         /\ size \in Sizes
<1> DEFINE d == Len(delivered)
<1>1. d \in Nat /\ Len(ends) \in Nat /\ d <= Len(ends)
  BY DEF Inv, TypeOK, ContentInv
<1>2. Consumed + processLen = End(d) /\ Consumed = received - DataSize
  BY DEF Inv, ContentInv, StandsOnHeader, Consumed, Written
<1>3. received \in Nat /\ processLen \in Nat /\ DataSize \in Nat /\ processLen < DataSize
  BY CapacityBounds DEF Inv, TypeOK, Unparsed, DataSize
<1>4. d # Len(ends)
  <2>1. received <= End(Len(ends))
    BY DEF Inv, StreamInv, Total
  <2>2. End(Len(ends)) \in Nat
    BY EndTyped DEF Inv, TypeOK, Total
  <2> QED  BY <1>2, <1>3, <2>1, <2>2
<1>5. d < Len(ends)
  BY <1>1, <1>4
<1>6. cell[readPos + processLen] = End(d)
  <2>1. processLen \in 0..(DataSize - 1)
    BY <1>3
  <2> QED  BY <1>2, <2>1 DEF Inv, ContentInv, BufferHoldsStream
<1>7. size = End(d + 1) - End(d) /\ size \in Sizes
  BY <1>1, <1>5, <1>6, HeaderTrue DEF Inv
<1> QED  BY <1>5, <1>6, <1>7

\* Every step keeps the unread stream between the cursors and on a header.
LEMMA ContentStep == Inv /\ [Next]_vars => ContentInv'
<1> SUFFICES ASSUME Inv, [Next]_vars PROVE ContentInv'
  OBVIOUS
<1> USE CapacityBounds
<1>t. /\ readPos \in Nat /\ writePos \in Nat /\ readPos <= writePos
      /\ writePos <= Capacity /\ received \in Nat /\ got \in Nat
      /\ processLen \in Nat /\ cell \in [Slots -> Int]
      /\ Len(delivered) \in Nat /\ Len(ends) \in Nat
  BY DEF Inv, TypeOK
<1>b. /\ \A i \in 0..(DataSize - 1) : cell[readPos + i] = Consumed + i
      /\ phase = "completed" =>
           \A i \in 0..(got - 1) : cell[writePos + i] = Written + i
      /\ Len(delivered) <= Len(ends)
  BY DEF Inv, ContentInv, BufferHoldsStream
<1>1. ASSUME NEW size \in Sizes, Submit(size) PROVE ContentInv'
  <2>1. size \in Sizes /\ ends' = Append(ends, Total + size)
    BY <1>1 DEF Submit
  <2>2. /\ Len(ends') = Len(ends) + 1
        /\ \A k \in 1..Len(ends) : ends'[k] = ends[k]
    BY <2>1, EndTyped DEF Inv, TypeOK, Sizes
  <2>3. End(Len(delivered))' = End(Len(delivered))
    BY <1>1, <1>t, <1>b, <2>2 DEF End, Submit
  <2>4. BufferHoldsStream' /\ StandsOnHeader'
    BY <1>1, <2>3 DEF Submit, buffer, Inv, ContentInv, BufferHoldsStream,
       StandsOnHeader, Consumed, Written, DataSize
  <2> QED  BY <1>1, <1>t, <1>b, <2>2, <2>4 DEF ContentInv, Submit
<1>2. CASE PeerCloses
  BY <1>2 DEF PeerCloses, buffer, Inv, ContentInv, BufferHoldsStream,
     StandsOnHeader, Consumed, Written, DataSize, End
<1>3. ASSUME NEW n \in 1..MaxBytes, Receive(n) PROVE ContentInv'
  <2>1. /\ n \in Nat /\ phase = "posted" /\ n <= FreeSize
        /\ phase' = "completed" /\ got' = n /\ received' = received + n
        /\ readPos' = readPos /\ writePos' = writePos
        /\ delivered' = delivered /\ ends' = ends
        /\ cell' = [i \in Slots |-> IF i \in writePos..(writePos + n - 1)
                                    THEN received + (i - writePos) ELSE cell[i]]
    BY <1>3, SizesAssumption DEF Receive, peer, Inv, CursorInv
  <2>2. /\ Written' = received /\ Written = received /\ DataSize' = DataSize
        /\ Consumed' = Consumed
    BY <1>t, <2>1 DEF Written, DataSize, Consumed
  <2>3. \A i \in 0..(DataSize - 1) : cell'[readPos + i] = Consumed + i
    BY <1>t, <1>b, <2>1 DEF Slots, DataSize
  <2>4. \A i \in 0..(n - 1) : cell'[writePos + i] = received + i
    BY <1>t, <2>1 DEF Slots, FreeSize
  <2>5. BufferHoldsStream'
    BY <2>1, <2>2, <2>3, <2>4 DEF BufferHoldsStream
  <2>6. StandsOnHeader'
    BY <2>1, <2>2 DEF Inv, ContentInv, StandsOnHeader, End
  <2> QED  BY <1>b, <2>1, <2>5, <2>6 DEF ContentInv
<1>4. CASE ReceiveZero
  BY <1>4 DEF ReceiveZero, peer, buffer, Inv, ContentInv, BufferHoldsStream,
     StandsOnHeader, Consumed, Written, DataSize
<1>5. CASE RegisterRecv
  BY <1>5 DEF RegisterRecv, peer, buffer, Inv, ContentInv, BufferHoldsStream,
     StandsOnHeader, Consumed, Written, DataSize, End
<1>6. CASE ProcessRecv
  <2>1. /\ phase = "completed" /\ got <= FreeSize
        /\ phase' = "parsing" /\ processLen' = 0 /\ received' = received
        /\ readPos' = readPos /\ cell' = cell
        /\ delivered' = delivered /\ ends' = ends
    BY <1>6 DEF ProcessRecv, peer, Inv, CursorInv
  <2>2. writePos' = writePos + got
    BY <1>6, <1>t, <2>1 DEF ProcessRecv, FreeSize
  <2>3. /\ Written = received - got /\ Written' = received
        /\ DataSize' = DataSize + got /\ Consumed' = Consumed
    BY <1>t, <2>1, <2>2 DEF Written, DataSize, Consumed
  <2>4. ASSUME NEW i \in 0..(DataSize + got - 1)
        PROVE  cell[readPos + i] = Consumed + i
    <3>1. CASE i < DataSize
      BY <1>t, <1>b, <3>1 DEF DataSize
    <3>2. CASE i >= DataSize
      <4>1. i - DataSize \in 0..(got - 1) /\ DataSize \in Nat
        BY <1>t, <3>2 DEF DataSize
      <4>2. cell[writePos + (i - DataSize)] = Written + (i - DataSize)
        BY <1>b, <2>1, <4>1
      <4> QED  BY <1>t, <2>3, <4>1, <4>2 DEF DataSize, Consumed
    <3> QED  BY <1>t, <3>1, <3>2 DEF DataSize
  <2>5. BufferHoldsStream'
    <3>1. phase' # "completed"
      BY <2>1
    <3>2. \A i \in 0..(DataSize' - 1) : cell'[readPos' + i] = Consumed' + i
      <4> TAKE i \in 0..(DataSize' - 1)
      <4>1. i \in 0..(DataSize + got - 1)
        BY <1>t, <2>1, <2>2 DEF DataSize
      <4>2. cell[readPos + i] = Consumed + i
        BY <2>4, <4>1
      <4> QED  BY <2>1, <2>3, <4>2
    <3> QED  BY <3>1, <3>2 DEF BufferHoldsStream
  <2>6. StandsOnHeader'
    BY <1>t, <2>1, <2>3 DEF Inv, ContentInv, StandsOnHeader, End
  <2> QED  BY <1>b, <2>1, <2>5, <2>6 DEF ContentInv
<1>7. CASE OnRecvPacket
  <2>1. PICK size \in HeaderAt(readPos + processLen) :
          /\ delivered' = Append(delivered, Bytes(readPos + processLen, size))
          /\ processLen' = processLen + size
    BY <1>7 DEF OnRecvPacket
  <2>2. /\ Len(delivered) < Len(ends)
        /\ size = End(Len(delivered) + 1) - End(Len(delivered))
        /\ size \in Nat
    BY <1>7, LoopOnHeader DEF OnRecvPacket, Sizes
  <2>3. /\ phase = "parsing" /\ phase' = phase /\ ends' = ends
        /\ received' = received /\ readPos' = readPos /\ writePos' = writePos
        /\ cell' = cell /\ got' = got
    BY <1>7 DEF OnRecvPacket, peer, buffer
  <2>4. Len(delivered') = Len(delivered) + 1
    BY <2>1 DEF Inv, TypeOK
  <2>5. Consumed' = Consumed /\ Consumed \in Int
    BY <1>t, <2>3 DEF Consumed, Written, DataSize
  <2>6. BufferHoldsStream'
    BY <1>b, <2>3, <2>5 DEF BufferHoldsStream, DataSize
  <2>7. Consumed + processLen = End(Len(delivered))
    BY <2>3 DEF Inv, ContentInv, StandsOnHeader
  <2>8. /\ End(Len(delivered)) \in Nat /\ End(Len(delivered) + 1) \in Nat
    BY <1>t, <2>2, EndTyped DEF Inv, TypeOK
  <2>9. Consumed' + processLen' = End(Len(delivered) + 1)
    <3>1. Consumed' + processLen' = Consumed + processLen + size
      BY <1>t, <2>1, <2>2, <2>5
    <3> QED  BY <2>2, <2>7, <2>8, <3>1
  <2>10. StandsOnHeader'
    BY <2>3, <2>4, <2>9 DEF StandsOnHeader, End
  <2> QED  BY <1>t, <2>2, <2>3, <2>4, <2>6, <2>10 DEF ContentInv
<1>8. CASE FinishRecv
  <2> DEFINE r == readPos + processLen
             left == writePos - r
  <2>1. /\ Unparsed \in Nat /\ phase = "parsing" /\ processLen <= DataSize
    BY <1>8, LeftoverSmall
  <2>2. /\ left \in Nat /\ r \in Nat
        /\ Consumed = received - DataSize /\ Consumed \in Int
    BY <1>t, <2>1 DEF Unparsed, DataSize, Consumed, Written
  <2>3. /\ received' = received /\ phase' = "idle" /\ ends' = ends
        /\ delivered' = delivered
    BY <1>8, CleanEffect DEF FinishRecv, peer
  <2>4. /\ writePos' - readPos' = left
        /\ \A i \in 0..(left - 1) : cell'[readPos' + i] = cell[r + i]
    <3>1. CASE left = 0 /\ readPos' = 0 /\ writePos' = 0
      BY <3>1
    <3>2. CASE /\ left \in 1..r
               /\ readPos' = 0 /\ writePos' = left
               /\ cell' = [i \in Slots |-> IF i < left THEN cell[r + i]
                                                       ELSE cell[i]]
      BY <1>t, <2>2, <3>2 DEF Slots
    <3>3. CASE readPos' = r /\ writePos' = writePos /\ cell' = cell
      BY <2>2, <3>3
    <3> QED  BY <1>8, <3>1, <3>2, <3>3, CleanEffect
  <2>5. DataSize' = left /\ Consumed' = Consumed + processLen
    BY <1>t, <2>2, <2>3, <2>4 DEF DataSize, Consumed, Written
  <2>6. \A i \in 0..(left - 1) : cell[r + i] = Consumed + processLen + i
    <3> TAKE i \in 0..(left - 1)
    <3>1. processLen + i \in 0..(DataSize - 1)
      BY <1>t, <2>2 DEF DataSize
    <3>2. cell[readPos + (processLen + i)] = Consumed + (processLen + i)
      BY <1>b, <3>1
    <3> QED  BY <1>t, <2>2, <3>2
  <2>7. BufferHoldsStream'
    BY <2>2, <2>3, <2>4, <2>5, <2>6 DEF BufferHoldsStream
  <2>8. StandsOnHeader'
    BY <1>t, <2>1, <2>2, <2>3, <2>5 DEF Inv, ContentInv, StandsOnHeader, End
  <2> QED  BY <1>b, <2>3, <2>7, <2>8 DEF ContentInv
<1>9. CASE UNCHANGED vars
  BY <1>9 DEF vars, Inv, ContentInv, BufferHoldsStream, StandsOnHeader, Consumed,
     Written, DataSize, End
<1> QED
  BY <1>1, <1>2, <1>3, <1>4, <1>5, <1>6, <1>7, <1>8, <1>9 DEF Next, Others, Handler

-----------------------------------------------------------------------------
(* The theorems.                                                           *)

\* The initial state satisfies the invariant, every step keeps it.
LEMMA Invariance == SafeSpec => []Inv
<1>1. Init => Inv
  <2> SUFFICES ASSUME Init PROVE Inv
    OBVIOUS
  <2> USE CapacityBounds DEF Init
  <2>1. Len(ends) = 0 /\ Len(delivered) = 0 /\ Total = 0
    BY DEF Total, End
  <2>2. TypeOK
    <3>1. cell \in [Slots -> Int]
      BY DEF Lost
    <3>2. ends \in Seq(Nat) /\ delivered \in Seq([from : Int, to : Int])
      OBVIOUS
    <3>3. peerGone \in BOOLEAN /\ connected \in BOOLEAN
      OBVIOUS
    <3>4. /\ received \in Nat /\ readPos \in 0..Capacity /\ room \in 0..Capacity
          /\ writePos \in readPos..Capacity /\ got \in Nat /\ processLen \in Nat
      OBVIOUS
    <3> QED  BY <3>1, <3>2, <3>3, <3>4 DEF TypeOK
  <2>3. StreamInv
    BY <2>1 DEF StreamInv
  <2>4. CursorInv
    BY DEF CursorInv, FreeSize, DataSize
  <2>5. ContentInv
    BY <2>1 DEF ContentInv, BufferHoldsStream, StandsOnHeader, Consumed, Written,
       DataSize, End
  <2> QED  BY <2>2, <2>3, <2>4, <2>5 DEF Inv
<1>2. Inv /\ [Next]_vars => Inv'
  BY TypeStep, StreamStep, CursorStep, ContentStep DEF Inv
<1> QED  BY <1>1, <1>2, PTL DEF SafeSpec

\* Every variable has its type: RecvBuffer's cursors stay inside its storage.
THEOREM TypeCorrect == SafeSpec => []TypeOK
BY Invariance, PTL DEF Inv

\* RegisterRecv never posts a receive without room for a whole buffer, so no
\* completion of zero bytes comes from a full buffer.
THEOREM ReceiveHasRoom == SafeSpec => []RoomToReceive
<1>1. Inv => RoomToReceive
  BY DEF Inv, CursorInv, RoomToReceive
<1> QED  BY <1>1, Invariance, PTL

\* The overflow disconnects of ProcessRecv are unreachable.
THEOREM OnlyPeerEnds == SafeSpec => []NeverOverflows
<1>1. Inv => NeverOverflows
  BY DEF Inv, CursorInv, NeverOverflows
<1> QED  BY <1>1, Invariance, PTL

\* Between RecvBuffer's cursors lies the unread stream, whatever Clean moved.
THEOREM BufferFaithful == SafeSpec => []BufferHoldsStream
<1>1. Inv => BufferHoldsStream
  BY DEF Inv, ContentInv
<1> QED  BY <1>1, Invariance, PTL

\* The loop of OnRecv never stands inside a packet.
THEOREM HeaderAligned == SafeSpec => []StandsOnHeader
<1>1. Inv => StandsOnHeader
  BY DEF Inv, ContentInv
<1> QED  BY <1>1, Invariance, PTL

\* Clean's memcpy never overlaps, with any three buffers of at least a packet.
THEOREM CopySafe == SafeSpec => CopyNeverOverlaps
<1> DEFINE Apart == cell' # cell /\ phase = "parsing" =>
                      writePos - (readPos + processLen) <= readPos + processLen
<1>1. Inv /\ [Next]_vars => [Apart]_vars
  <2> SUFFICES ASSUME Inv, Next, cell' # cell, phase = "parsing"
               PROVE writePos - (readPos + processLen) <= readPos + processLen
    OBVIOUS
  <2>1. FinishRecv
    BY DEF Next, Others, Handler, Submit, PeerCloses, Receive, ReceiveZero, RegisterRecv,
       ProcessRecv, OnRecvPacket, buffer
  <2>2. NeedsRoom
    BY <2>1, CleanEffect
  <2> QED  BY <2>1, <2>2, CopyDisjoint
<1> QED  BY <1>1, Invariance, PTL DEF SafeSpec, CopyNeverOverlaps

\* OnRecvPacket is called with the packet that follows the last.
LEMMA DeliversNext ==
  ASSUME Inv, OnRecvPacket
  PROVE  /\ Len(delivered) < Len(ends) /\ UNCHANGED <<ends, peerGone>>
         /\ delivered' = Append(delivered, [from |-> End(Len(delivered)),
                                            to |-> End(Len(delivered) + 1)])
<1> DEFINE i == readPos + processLen
           d == Len(delivered)
<1>1. PICK size \in HeaderAt(i) :
        /\ Unparsed >= size
        /\ delivered' = Append(delivered, Bytes(i, size))
  BY DEF OnRecvPacket
<1>2. /\ d < Len(ends) /\ cell[i] = End(d)
      /\ size = End(d + 1) - End(d) /\ size \in Nat
  BY LoopOnHeader, CapacityBounds DEF OnRecvPacket, Sizes
<1>3. d \in Nat /\ End(d) \in Nat /\ End(d + 1) \in Nat
  BY <1>2, EndTyped DEF Inv, TypeOK
<1>4. \A j \in 0..(size - 1) : cell[i + j] = cell[i] + j
  <2> TAKE j \in 0..(size - 1)
  <2>1. /\ processLen + j \in 0..(DataSize - 1) /\ processLen \in 0..(DataSize - 1)
        /\ readPos \in Nat /\ processLen \in Nat /\ Consumed \in Int
    BY <1>1, <1>2 DEF Unparsed, DataSize, Inv, TypeOK, Consumed, Written
  <2>2. /\ cell[readPos + (processLen + j)] = Consumed + (processLen + j)
        /\ cell[readPos + processLen] = Consumed + processLen
    BY <2>1 DEF Inv, ContentInv, BufferHoldsStream
  <2> QED  BY <2>1, <2>2
<1>5. Bytes(i, size) = [from |-> End(d), to |-> End(d + 1)]
  BY <1>2, <1>3, <1>4 DEF Bytes
<1>6. UNCHANGED <<ends, peerGone>>
  BY DEF OnRecvPacket, peer
<1> QED  BY <1>1, <1>2, <1>5, <1>6

\* OnRecvPacket is called with the packets the peer sent, whole, once each and
\* in order, however the stream is cut.
THEOREM DeliversPackets == SafeSpec => Packets!SafeSpec
<1>1. Init => Packets!Init
  BY DEF Init, Packets!Init
<1>2. Inv /\ [Next]_vars => [Packets!Next]_(Packets!pvars)
  <2> SUFFICES ASSUME Inv, [Next]_vars, ~UNCHANGED Packets!pvars
               PROVE Packets!Next
    OBVIOUS
  <2>1. ASSUME NEW size \in Sizes, Submit(size) PROVE Packets!Next
    BY <2>1 DEF Submit, Packets!Next, Packets!Submit, Packets!End, Total, End
  <2>2. CASE PeerCloses
    BY <2>2 DEF PeerCloses, Packets!Next, Packets!Close
  <2>3. CASE OnRecvPacket
    <3>1. /\ Len(delivered) < Len(ends) /\ UNCHANGED <<ends, peerGone>>
          /\ delivered' = Append(delivered, [from |-> End(Len(delivered)),
                                             to |-> End(Len(delivered) + 1)])
      BY <2>3, DeliversNext
    <3>2. Len(delivered) \in Nat /\ (Len(delivered) + 1) - 1 = Len(delivered)
      BY DEF Inv, TypeOK
    <3> QED  BY <3>1, <3>2 DEF Packets!Next, Packets!Deliver, Packets!Packet,
       Packets!End, End
  <2>4. CASE UNCHANGED <<ends, delivered, peerGone>>
    BY <2>4 DEF Packets!pvars
  <2> QED
    BY <2>1, <2>2, <2>3, <2>4 DEF Next, Others, Handler, Receive, ReceiveZero,
       RegisterRecv, ProcessRecv, FinishRecv, peer, vars
<1> QED  BY <1>1, <1>2, Invariance, PTL DEF SafeSpec, Packets!SafeSpec
=============================================================================
