------------------------------ MODULE Packets -------------------------------
(***************************************************************************)
(* The packets themselves: what ServerPacketHandler::MakeSendBuffer puts   *)
(* into a send buffer, what HandlePacket of the other side finds there,    *)
(* and the protobuf encoding between them.                                 *)
(*                                                                         *)
(* Bytes are bytes and tags are true tags, but integers have fewer bits    *)
(* than the code's.  A message is the sequence of its fields' values, by   *)
(* field number; a message type is the sequence of its fields' kinds.      *)
(***************************************************************************)
EXTENDS Integers, Sequences

CONSTANTS
  Wide,         \* 2^64: values of a uint64
  Word,         \* 2^32: values of an int32
  SizeLimit,    \* 2^16: values of packetSize and of the header's size
  PacketHeader, \* sizeof(PacketHeader)
  Malformed,    \* strings that are no UTF-8
  Objects,      \* some values of an ObjectInfo
  IdLists       \* some values of the ids of an S_RemoveObject

Byte == 0..255

\* Enums are int32 on the wire, and the bool of S_EnterGame is a uint64 0 or 1.
ObjectInfo == <<"uint64", "int32", "int32", "int32", "string", "int32", "int32",
                "int32", "int32", "int32", "int32">>
S_EnterGame == <<"uint64", "uint64">>
S_AddObject == <<"objects">>
S_RemoveObject == <<"uint64s">>
\* A message with one ObjectInfo, in mutable_info, is a list of one.
S_Attack == <<"objects", "objects">>
S_Move == <<"objects">>

\* What a field of a kind without objects may hold.
Values(kind) ==
  CASE kind = "uint64" -> 0..(Wide - 1)
    [] kind = "int32" -> (-(Word \div 2))..(Word \div 2 - 1)
    [] kind = "string" -> Seq(Byte)
    [] kind = "uint64s" -> Seq(0..(Wide - 1))

SumOf[ns \in Seq(Nat)] == IF ns = << >> THEN 0 ELSE Head(ns) + SumOf[Tail(ns)]

\* Sequences of elements of E, one after another.
Flatten(E, ss) ==
  LET flat[t \in Seq(Seq(E))] == IF t = << >> THEN << >> ELSE Head(t) \o flat[Tail(t)]
  IN  flat[ss]

-----------------------------------------------------------------------------
(* Sizes.                                                                  *)

Log2FloorNonZero[u \in Nat \ {0}] ==
  IF u = 1 THEN 0 ELSE 1 + Log2FloorNonZero[u \div 2]

VarintSize(u) == (Log2FloorNonZero[IF u = 0 THEN 1 ELSE u] * 9 + 73) \div 64

\* Ten bytes for a negative number in the code: the most a uint64 takes.
VarintSizeSignExtended(v) == IF v < 0 THEN VarintSize(Wide - 1) ELSE VarintSize(v)

ASSUME WidthAssumption ==
  /\ Wide \in Nat /\ Word \in Nat \ {0} /\ SizeLimit \in Nat \ {0}
  /\ PacketHeader \in 1..SizeLimit
  /\ Word < Wide /\ Wide % Word = 0 /\ Word % 2 = 0
  /\ Log2FloorNonZero[Wide - 1] <= 63
  /\ Log2FloorNonZero[Wide - Word] = Log2FloorNonZero[Wide - 1]

LengthDelimitedSize(n) == VarintSize(n) + n

PlainSize(kind, v) ==
  CASE kind = "uint64" -> IF v = 0 THEN 0 ELSE 1 + VarintSize(v)
    [] kind = "int32" -> IF v = 0 THEN 0 ELSE 1 + VarintSizeSignExtended(v)
    [] kind = "string" -> IF v = << >> THEN 0 ELSE 1 + LengthDelimitedSize(Len(v))
    [] kind = "uint64s" ->
         LET n == SumOf[[i \in DOMAIN v |-> VarintSize(v[i])]]
         IN  IF n = 0 THEN 0 ELSE 1 + LengthDelimitedSize(n)

InfoSize(o) == SumOf[[f \in DOMAIN ObjectInfo |-> PlainSize(ObjectInfo[f], o[f])]]

FieldSize(kind, v) ==
  IF kind = "objects"
  THEN SumOf[[i \in DOMAIN v |-> 1 + LengthDelimitedSize(InfoSize(v[i]))]]
  ELSE PlainSize(kind, v)

ByteSizeLong(type, pkt) == SumOf[[f \in DOMAIN type |-> FieldSize(type[f], pkt[f])]]

-----------------------------------------------------------------------------
(* Writing.                                                                *)

UnsafeVarint[u \in Nat] ==
  IF u < 128 THEN <<u>> ELSE <<(u % 128) + 128>> \o UnsafeVarint[u \div 128]

SignExtend(v) == IF v < 0 THEN v + Wide ELSE v

WriteLengthDelim(bytes) == UnsafeVarint[Len(bytes)] \o bytes

\* What a field writes: nothing for a zero, an empty string and an empty list; one
\* record for any other, or one for every object, whose bytes v[i] are.
Records(f, kind, v) ==
  CASE kind \in {"uint64", "int32"} ->
         IF v = 0 THEN << >> ELSE << <<8 * f>> \o UnsafeVarint[SignExtend(v)] >>
    [] kind = "string" ->
         IF v = << >> THEN << >> ELSE << <<8 * f + 2>> \o WriteLengthDelim(v) >>
    [] kind = "uint64s" ->
         IF v = << >> THEN << >>
         ELSE << <<8 * f + 2>> \o
                 WriteLengthDelim(Flatten(Byte, [i \in DOMAIN v |-> UnsafeVarint[v[i]]])) >>
    [] kind = "objects" -> [i \in DOMAIN v |-> <<8 * f + 2>> \o WriteLengthDelim(v[i])]

Write(type, raw) ==
  Flatten(Byte, Flatten(Seq(Byte), [f \in DOMAIN type |-> Records(f, type[f], raw[f])]))

\* The packet with its objects' bytes for its objects.  The code writes in front of
\* them the size it computed and cached: a size that is not the number of the bytes
\* that follow makes ByteSizeLong differ from the length of what is written.
Embed(type, pkt) ==
  [f \in DOMAIN type |->
     IF type[f] = "objects" THEN [i \in DOMAIN pkt[f] |-> Write(ObjectInfo, pkt[f][i])]
                            ELSE pkt[f]]

Serialize(type, pkt) == Write(type, Embed(type, pkt))



\* SerializeToArray refuses a buffer that is too small, and an assert looks at it.  (It
\* is called in the assert's operand: a build without asserts writes no payload.)
MakeSendBuffer(type, pkt) ==
  LET dataSize == ByteSizeLong(type, pkt) % SizeLimit
      packetSize == (dataSize + PacketHeader) % SizeLimit
  IN  [size |-> packetSize, data |-> Serialize(type, pkt),
       serialized |-> ByteSizeLong(type, pkt) <= dataSize]

-----------------------------------------------------------------------------
(* Reading.                                                                *)

\* The bytes of the varint in front; none if it is not there whole.
VarintLength ==
  [b \in Seq(Byte) |->
     IF \E n \in DOMAIN b : b[n] < 128
     THEN CHOOSE n \in DOMAIN b : b[n] < 128 /\ \A i \in 1..(n - 1) : b[i] >= 128
     ELSE 0]

ReadVarint[b \in Seq(Byte)] ==
  IF b = << >> THEN 0
  ELSE IF b[1] < 128 THEN b[1] ELSE b[1] - 128 + 128 * ReadVarint[Tail(b)]

\* A tag, and behind it a varint or as many bytes as the varint says.
RecordLength ==
  [b \in Seq(Byte) |->
     IF b = << >> THEN 0
     ELSE LET n == VarintLength[Tail(b)]
          IN  IF n = 0 THEN 0
              ELSE IF Head(b) % 8 = 0 THEN 1 + n ELSE 1 + n + ReadVarint[Tail(b)]]

\* Pieces off the front, each as long as Length says; what does not parse is left.
Cut(Length, bytes) ==
  LET cut[b \in Seq(Byte)] ==
        IF Length[b] \in 1..Len(b)
        THEN <<SubSeq(b, 1, Length[b])>> \o cut[SubSeq(b, Length[b] + 1, Len(b))]
        ELSE << >>
  IN  cut[bytes]

Body(record) == SubSeq(record, VarintLength[Tail(record)] + 2, Len(record))

ReadPacked(bytes) ==
  LET varints == Cut(VarintLength, bytes)
  IN  [i \in DOMAIN varints |-> ReadVarint[varints[i]]]

\* The assignment to an int32 field keeps the low bits.
Narrow(kind, u) ==
  LET low == u % Word
  IN  IF kind = "uint64" THEN u ELSE IF 2 * low >= Word THEN low - Word ELSE low

Default(type) == [f \in DOMAIN type |-> IF type[f] \in {"uint64", "int32"} THEN 0 ELSE << >>]

\* One turn of the generated loop.  Both ends are generated from the same files,
\* so every field is known and of the kind its tag says.
Put(type, raw, record) ==
  [raw EXCEPT ![Head(record) \div 8] =
     LET kind == type[Head(record) \div 8]
     IN  CASE kind \in {"uint64", "int32"} -> Narrow(kind, ReadVarint[Tail(record)])
           [] kind = "string" -> Body(record)
           [] kind = "uint64s" -> @ \o ReadPacked(Body(record))
           [] kind = "objects" -> Append(@, Body(record))]

\* CHK_(VerifyUTF8(...)), after the string has been assigned.
BadString(type, record) ==
  type[Head(record) \div 8] = "string" /\ Body(record) \in Malformed

\* Nothing is left over.
Whole(bytes) == Flatten(Byte, Cut(RecordLength, bytes)) = bytes

InfoAccepted(bytes) ==
  LET records == Cut(RecordLength, bytes)
  IN  Whole(bytes) /\ \A i \in DOMAIN records : ~BadString(ObjectInfo, records[i])

\* A record ends the parsing: a string that is no UTF-8, or an object with one.
Refused(type, record) ==
  \/ BadString(type, record)
  \/ type[Head(record) \div 8] = "objects" /\ ~InfoAccepted(Body(record))

Accepted(type, bytes) ==
  LET records == Cut(RecordLength, bytes)
  IN  Whole(bytes) /\ \A i \in DOMAIN records : ~Refused(type, records[i])

\* The message keeps what was read, up to the record refused and with it.
Read(type, bytes) ==
  LET records == Cut(RecordLength, bytes)
      read[n \in 0..Len(records)] ==
        IF n = 0 THEN Default(type)
        ELSE IF \E i \in 1..(n - 1) : Refused(type, records[i]) THEN read[n - 1]
        ELSE Put(type, read[n - 1], records[n])
  IN  read[Len(records)]

\* ParseFromArray: whether it succeeds, and what is then in the message.
\* ctx->ParseMessage parses every object's bytes.
Parse(type, bytes) ==
  LET raw == Read(type, bytes)
  IN  [accepted |-> Accepted(type, bytes),
       packet |-> [f \in DOMAIN type |->
                     IF type[f] = "objects"
                     THEN [i \in DOMAIN raw[f] |-> Read(ObjectInfo, raw[f][i])]
                     ELSE raw[f]]]

\* What the receiver parses: as many bytes as the header says.  Handle_C_Move does not
\* look at the result.
Handle(type, buffer) == Parse(type, SubSeq(buffer.data, 1, buffer.size - PacketHeader))

-----------------------------------------------------------------------------
\* What the server and its clients send: every object alone, pairs of them in
\* S_Attack, rooms of up to three in S_AddObject.
Sent ==
  {<<S_EnterGame, <<1, 0>>>>}
    \cup {<<S_Move, <<<<o>>>>>> : o \in Objects}
    \cup {<<S_Attack, <<<<o>>, <<p>>>>>> : o, p \in Objects}
    \cup {<<S_AddObject, <<os>>>> : os \in UNION {[1..n -> Objects] : n \in 0..3}}
    \cup {<<S_RemoveObject, <<ids>>>> : ids \in IdLists}

\* No string and no list is longer than a uint64 counts.
ASSUME ContentAssumption ==
  /\ Malformed \subseteq Seq(Byte) \ {<< >>}
  /\ \A o \in Objects :
       /\ o = [f \in DOMAIN ObjectInfo |-> o[f]]
       /\ \A f \in DOMAIN ObjectInfo : o[f] \in Values(ObjectInfo[f])
  /\ IdLists \subseteq Values("uint64s")
  /\ \A s \in Sent : Len(Serialize(s[1], s[2])) < Wide

\* Every string of the packet is UTF-8.  The sender writes and logs those that are not.
NamesOf(kinds, values) == {values[f] : f \in {g \in DOMAIN kinds : kinds[g] = "string"}}
WellNamed(type, pkt) ==
  /\ NamesOf(type, pkt) \cap Malformed = {}
  /\ \A f \in DOMAIN type : type[f] = "objects" =>
       \A i \in DOMAIN pkt[f] : NamesOf(ObjectInfo, pkt[f][i]) \cap Malformed = {}

\* A packet that fits its header's uint16 says its own length; its parser accepts it
\* if all its strings are UTF-8 and not otherwise, and then reads it as it was
\* written, whatever zeros are left out of it and however far a negative number is
\* extended.  A payload too long for the uint16 is caught by MakeSendBuffer's assert;
\* at the sizes just below only the sum with the header wraps, and nothing notices
\* that the buffer is then shorter than a header.
Survives(type, pkt) ==
  LET buffer == MakeSendBuffer(type, pkt)
      length == Len(buffer.data)
      handled == Handle(type, buffer)
  IN  /\ length + PacketHeader < SizeLimit =>
           /\ buffer.serialized /\ buffer.size = length + PacketHeader
           /\ handled.accepted <=> WellNamed(type, pkt)
           /\ handled.accepted => handled.packet = pkt
      /\ length \in (SizeLimit - PacketHeader)..(SizeLimit - 1) =>
           /\ buffer.serialized
           /\ buffer.size = length + PacketHeader - SizeLimit /\ buffer.size < PacketHeader
      /\ length >= SizeLimit => ~buffer.serialized

AllSurvive == \A s \in Sent : Survives(s[1], s[2])
=============================================================================
