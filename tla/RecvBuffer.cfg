\* Three buffers of five bytes, packets of a header alone up to the largest a
\* buffer may hold, and a stream long enough to pass the end of the buffer.
CONSTANTS
  BufferSize = 5
  BufferCount = 3
  HeaderSize = 2
  PacketSizes = {2, 4}
  MaxStream = 14
SPECIFICATION FairSpec
INVARIANTS
  RoomToReceive
PROPERTIES
  MoveIsDisjoint
  ImplementsStream
  PacketsArrive
CHECK_DEADLOCK FALSE
