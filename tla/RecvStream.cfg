\* Packets of 2, 4 and 7 bytes in three buffers of 7, cut anywhere; integers of 24 and
\* 12 bits and sizes of 6.
CONSTANTS
  HeaderSize = 2
  PacketHeader = 2
  MaxPacket = 7
  BufferSize = 7
  BufferCount = 3
  MaxBytes = 17
  Wide = 16777216
  Word = 4096
  SizeLimit = 64
  Malformed <- MCMalformed
  Objects <- MCObjects
  IdLists <- MCIdLists
  Submitted <- MCSubmitted
SPECIFICATION StreamSpec
INVARIANTS
  TypeOK
  RoomToReceive
  NeverOverflows
  BufferHoldsStream
  StandsOnHeader
  PacketsArrive
PROPERTIES
  CopyNeverOverlaps
  ImplementsPackets
CHECK_DEADLOCK FALSE
