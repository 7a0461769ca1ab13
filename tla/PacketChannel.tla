---------------------------- MODULE PacketChannel ----------------------------
(***************************************************************************)
(* What a PacketSession promises its derived class: OnRecvPacket is called *)
(* with the packets the peer sent, whole, once each and in order, however  *)
(* TCP cuts the stream.  Bytes are numbered from 0 in stream order; packet *)
(* k is the bytes from the end of packet k - 1 up to ends[k].              *)
(***************************************************************************)
EXTENDS Naturals, Sequences

CONSTANT Sizes      \* the sizes a packet may have, header included

VARIABLES
  ends,             \* where each packet sent ends
  delivered,        \* the packets OnRecvPacket was called with
  open              \* the peer has not closed the connection

pvars == <<ends, delivered, open>>

\* The end of packet k; packet 0 stands for the beginning of the stream.
End(k) == IF k = 0 THEN 0 ELSE ends[k]

Packet(k) == [from |-> End(k - 1), to |-> End(k)]

Init ==
  /\ ends = << >>
  /\ delivered = << >>
  /\ open = TRUE

Submit ==
  /\ open
  /\ \E size \in Sizes : ends' = Append(ends, End(Len(ends)) + size)
  /\ UNCHANGED <<delivered, open>>

Deliver ==
  /\ Len(delivered) < Len(ends)
  /\ delivered' = Append(delivered, Packet(Len(delivered) + 1))
  /\ UNCHANGED <<ends, open>>

Close ==
  /\ open
  /\ open' = FALSE
  /\ UNCHANGED <<ends, delivered>>

Next == Submit \/ Deliver \/ Close

SafeSpec == Init /\ [][Next]_pvars

\* While the peer stays, what it sent is delivered.
Spec == SafeSpec /\ WF_pvars(open /\ Deliver)
=============================================================================
