---------------------------- MODULE PacketStream ----------------------------
(***************************************************************************)
(* The stream of RecvStream with what Packets says is in it: the peer      *)
(* submits packets, MakeSendBuffer gives their sizes and their bytes, and  *)
(* whoever OnRecvPacket is called for parses the bytes it is handed.       *)
(***************************************************************************)
EXTENDS RecvStream, Packets

CONSTANT Submitted     \* the packets that are submitted to the stream

ASSUME StreamAssumption ==
  /\ HeaderSize = PacketHeader /\ MaxPacket < SizeLimit
  /\ Submitted \subseteq Sent

VARIABLE packets       \* the packets submitted, <<type, packet>>

SendBuffer == [s \in Submitted |-> MakeSendBuffer(s[1], s[2])]

StreamInit == Init /\ packets = << >>

\* ERROR for checking: the header counts the payload only.
SubmitPayload(s) ==
  /\ Len(SendBuffer[s].data) + PacketHeader <= MaxPacket
  /\ Submit(SendBuffer[s].size - PacketHeader)
  /\ packets' = Append(packets, s)

\* The packet fits the header; SendBuffer has the same size for it.  (At the sizes that
\* wrap, a session sends fewer bytes than a header.)
SubmitPacket(s) ==
  /\ Len(SendBuffer[s].data) + PacketHeader <= MaxPacket
  /\ SendBuffer[s].serialized
  /\ Submit(SendBuffer[s].size)
  /\ packets' = Append(packets, s)

StreamNext ==
  \/ \E s \in Submitted : SubmitPacket(s)
  \/ Others /\ UNCHANGED packets

StreamSpec == StreamInit /\ [][StreamNext]_<<vars, packets>> /\ Fairness

-----------------------------------------------------------------------------
\* The packet that the byte d of the stream belongs to, and the byte: one of the
\* payload, behind the header.
Sender(d) == CHOOSE k \in DOMAIN packets : d \in End(k - 1)..(ends[k] - 1)

ByteAt(d) ==
  LET k == Sender(d)
  IN  SendBuffer[packets[k]].data[d - End(k - 1) - HeaderSize + 1]

Payload(p) ==
  [i \in 1..(p.to - p.from - HeaderSize) |-> ByteAt(p.from + HeaderSize + i - 1)]

\* The header at the front of a packet holds the type and the size.
HandlePacket(p) == Parse(packets[Sender(p.from)][1], Payload(p))

\* However TCP cuts the stream and Clean moves its bytes, the parser accepts the k-th
\* packet it is handed exactly if the k-th packet submitted has no string but UTF-8,
\* and then reads it as it was submitted.
PacketsArrive ==
  \A k \in DOMAIN delivered :
    LET handled == HandlePacket(delivered[k])
    IN  /\ handled.accepted <=> WellNamed(packets[k][1], packets[k][2])
        /\ handled.accepted => handled.packet = packets[k][2]
=============================================================================
