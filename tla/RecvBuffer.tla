----------------------------- MODULE RecvBuffer -----------------------------
(***************************************************************************)
(* The receive path of a session: RecvBuffer under Session::ProcessRecv    *)
(* and the frame loop of PacketSession::OnRecv.  One worker at a time is   *)
(* on this path (SingleRecv of module Session); the kernel fills the free  *)
(* end of the buffer while a WSARecv is posted, and the session may be     *)
(* disconnected at any time.                                               *)
(*                                                                         *)
(* A byte is its position in the stream the peer writes, so that the       *)
(* buffer's content can be compared with the stream; the header of a       *)
(* packet carries the packet's size.                                       *)
(***************************************************************************)
EXTENDS Integers

CONSTANTS
  BufferSize,   \* RecvBuffer::_bufferSize, Session::BUFFER_SIZE
  BufferCount,  \* RecvBuffer::BUFFER_COUNT
  HeaderSize,   \* sizeof(PacketHeader)
  PacketSizes,  \* the sizes MakeSendBuffer writes into a header, a uint16
  MaxStream     \* bound: bytes the peer writes

ASSUME RecvBufferAssumption ==
  /\ BufferSize \in Nat /\ BufferCount \in Nat /\ HeaderSize \in Nat /\ MaxStream \in Nat
  /\ BufferCount >= 3
  /\ 0 < HeaderSize /\ HeaderSize <= BufferSize
  /\ PacketSizes \subseteq HeaderSize..(BufferSize - 1)

VARIABLES
  readPos, writePos,  \* _readPos, _writePos
  buffer,             \* _buffer
  dataSize,           \* ProcessRecv's dataSize, OnRecv's len
  processLen,         \* OnRecv's processLen
  connected,          \* Session::_connected
  phase,              \* where the receive path is
  room,               \* wsaBuf.len of the posted WSARecv
  numOfBytes,         \* of the completed WSARecv
  packets, written,   \* environment: the packets written, by position
  received,           \* environment: bytes the kernel has put into the buffer
  handed, frame       \* history: bytes handed on, the last packet handed on

cursors == <<readPos, writePos, buffer>>
locals  == <<dataSize, processLen>>
kernel  == <<room, numOfBytes, packets, written, received>>
history == <<handed, frame>>
vars    == <<cursors, locals, connected, phase, kernel, history>>

Capacity == BufferSize * BufferCount
Indices  == 0..(Capacity - 1)
DataSize == writePos - readPos
FreeSize == Capacity - writePos

Phases == {"RegisterRecv", "posted", "ProcessRecv", "OnRecv", "none"}

Init ==
  /\ readPos = 0 /\ writePos = 0
  /\ buffer = [i \in Indices |-> 0]
  /\ dataSize = 0 /\ processLen = 0
  /\ connected = TRUE
  /\ phase = "RegisterRecv"
  /\ room = 0 /\ numOfBytes = 0
  /\ packets = <<>> /\ written = 0 /\ received = 0
  /\ handed = 0 /\ frame = <<>>

-----------------------------------------------------------------------------
(* The environment: the peer, the kernel and the other workers.            *)

PeerWrites ==
  \E size \in PacketSizes :
    /\ written + size <= MaxStream
    /\ packets' = [p \in DOMAIN packets \cup {written} |->
                     IF p = written THEN size ELSE packets[p]]
    /\ written' = written + size
    /\ UNCHANGED <<cursors, locals, connected, phase, room, numOfBytes,
                   received, history>>

\* Any part of what is under way arrives, as much as the posted WSARecv takes.
Arrive ==
  /\ phase = "posted"
  /\ \E n \in 1..room :
       /\ n <= written - received
       /\ numOfBytes' = n
       /\ received' = received + n
       /\ buffer' = [i \in Indices |->
                       IF i \in writePos..(writePos + n - 1)
                         THEN received + i - writePos ELSE buffer[i]]
  /\ phase' = "ProcessRecv"
  /\ UNCHANGED <<readPos, writePos, locals, connected, room, packets, written,
                 history>>

\* The peer has closed, or the receive fails.
RecvEnd ==
  /\ phase = "posted"
  /\ numOfBytes' = 0
  /\ phase' = "ProcessRecv"
  /\ UNCHANGED <<cursors, locals, connected, room, packets, written, received,
                 history>>

\* A send that fails disconnects the session, in OnRecvPacket or elsewhere.
Disconnected ==
  /\ connected
  /\ connected' = FALSE
  /\ UNCHANGED <<cursors, locals, phase, kernel, history>>

-----------------------------------------------------------------------------
\* RegisterRecv: the free end of the buffer is posted.
RegisterRecv ==
  /\ phase = "RegisterRecv"
  /\ IF connected THEN phase' = "posted" /\ room' = FreeSize
                  ELSE phase' = "none" /\ UNCHANGED room
  /\ UNCHANGED <<cursors, locals, connected, numOfBytes, packets, written,
                 received, history>>

\* ProcessRecv up to OnRecv: zero bytes, or bytes OnWrite has no room for,
\* disconnect.
ProcessRecv ==
  /\ phase = "ProcessRecv"
  /\ IF numOfBytes = 0 \/ numOfBytes > FreeSize
       THEN /\ connected' = FALSE
            /\ phase' = "none"
            /\ UNCHANGED <<cursors, locals>>
       ELSE /\ writePos' = writePos + numOfBytes
            /\ dataSize' = DataSize + numOfBytes
            /\ processLen' = 0
            /\ phase' = "OnRecv"
            /\ UNCHANGED <<connected, readPos, buffer>>
  /\ UNCHANGED <<kernel, history>>

\* header.size of the packet at processLen; what stands where no packet
\* begins is not a size.
HeaderAt(pos) == IF buffer[pos] \in DOMAIN packets THEN packets[buffer[pos]] ELSE 0

Assembled(header) == dataSize - processLen >= header

\* The loop of PacketSession::OnRecv has another packet to hand on.
PacketComplete ==
  Assembled(HeaderSize) /\ Assembled(HeaderAt(readPos + processLen))

\* Mutation: a packet is handed on as soon as its header is complete.
OnRecvPacket_HeaderOnly ==
  /\ phase = "OnRecv"
  /\ Assembled(HeaderSize)
  /\ LET size == HeaderAt(readPos + processLen)
     IN /\ frame' = [i \in 1..size |-> buffer[readPos + processLen + i - 1]]
        /\ handed' = handed + size
        /\ processLen' = processLen + size
  /\ UNCHANGED <<cursors, dataSize, connected, phase, kernel>>

\* One turn of the loop of PacketSession::OnRecv: a packet is complete.
OnRecvPacket ==
  /\ phase = "OnRecv"
  /\ PacketComplete
  /\ LET size == HeaderAt(readPos + processLen)
     IN /\ frame' = [i \in 1..size |-> buffer[readPos + processLen + i - 1]]
        /\ handed' = handed + size
        /\ processLen' = processLen + size
  /\ UNCHANGED <<cursors, dataSize, connected, phase, kernel>>

\* Mutation: only an empty buffer is cleaned.
Clean_NeverMoves(read) ==
  /\ readPos' = IF writePos = read THEN 0 ELSE read
  /\ writePos' = IF writePos = read THEN 0 ELSE writePos
  /\ UNCHANGED buffer

\* Mutation: the data move to the front however much room is left.
Clean_AlwaysMoves(read) ==
  LET size == writePos - read
  IN /\ readPos' = 0
     /\ writePos' = size
     /\ buffer' = [i \in Indices |-> IF i < size THEN buffer[read + i] ELSE buffer[i]]

\* RecvBuffer::Clean with the read cursor at read: the rest of the data moves
\* to the front when less than one buffer's size is left behind it.
Clean(read) ==
  LET size == writePos - read
      move == size # 0 /\ FreeSize < BufferSize
  IN /\ readPos' = IF size = 0 \/ move THEN 0 ELSE read
     /\ writePos' = IF size = 0 THEN 0 ELSE IF move THEN size ELSE writePos
     /\ buffer' = [i \in Indices |->
                     IF move /\ i < size THEN buffer[read + i] ELSE buffer[i]]

\* Mutation: OnRecv leaves its loop when exactly one packet is there.
OnRecvReturns_Eager ==
  /\ phase = "OnRecv"
  /\ Assembled(HeaderSize) => ~Assembled(HeaderAt(readPos + processLen) + 1)
  /\ phase' = "RegisterRecv"
  /\ Clean(readPos + processLen)
  /\ UNCHANGED <<connected, locals, kernel, history>>

\* OnRecv returns: OnRead, then Clean; more than there is disconnects.
OnRecvReturns ==
  /\ phase = "OnRecv"
  /\ ~PacketComplete
  /\ IF dataSize < processLen \/ processLen > DataSize
       THEN /\ connected' = FALSE
            /\ phase' = "none"
            /\ UNCHANGED cursors
       ELSE /\ phase' = "RegisterRecv"
            /\ Clean(readPos + processLen)
            /\ UNCHANGED connected
  /\ UNCHANGED <<locals, kernel, history>>

Worker == RegisterRecv \/ ProcessRecv \/ OnRecvPacket \/ OnRecvReturns

Next == PeerWrites \/ Arrive \/ RecvEnd \/ Disconnected \/ Worker

\* A worker runs its handler to the end; bytes on their way arrive, and the
\* kernel ends a posted receive once the session is disconnected.
Fairness == WF_vars(Worker) /\ WF_vars(Arrive) /\ WF_vars(~connected /\ RecvEnd)

Spec == Init /\ [][Next]_vars
FairSpec == Spec /\ Fairness

-----------------------------------------------------------------------------
\* Every variable has the type of the field it stands for.
TypeOK ==
  /\ readPos \in Nat /\ writePos \in Nat
  /\ buffer \in [Indices -> Nat]
  /\ dataSize \in Nat /\ processLen \in Nat
  /\ connected \in BOOLEAN
  /\ phase \in Phases
  /\ room \in Nat /\ numOfBytes \in Nat
  /\ written \in Nat /\ received \in Nat /\ handed \in Nat
  /\ DOMAIN packets \subseteq Nat
  /\ \A p \in DOMAIN packets : packets[p] \in PacketSizes

\* A receive is posted with room for any packet: never with none, which would
\* complete with zero bytes and disconnect a live session (Session.cpp:148,
\* 243), and what arrives never exceeds what OnWrite accepts (Session.cpp:250).
RoomToReceive ==
  /\ phase = "posted" => room >= BufferSize /\ room = FreeSize
  /\ phase = "ProcessRecv" => numOfBytes <= FreeSize

\* The loop of OnRecv never claims more than it was given, so OnRead never
\* refuses (Session.cpp:259, RecvBuffer.cpp:37).
ReadWithinData ==
  phase = "OnRecv" => processLen <= dataSize /\ dataSize = DataSize

\* Clean copies with memcpy: the data it moves to the front come from behind
\* the place they go to (RecvBuffer.cpp:27).
MoveIsDisjoint ==
  [][0 < writePos' /\ writePos' < writePos => writePos' <= writePos - writePos']_vars

\* The unread data are the bytes of the stream that follow what was handed
\* on, whatever the moves in between.
Arrived == IF phase = "ProcessRecv" THEN numOfBytes ELSE 0
Read    == IF phase = "OnRecv" THEN processLen ELSE 0

BufferFaithful ==
  /\ received = handed + (DataSize - Read) + Arrived
  /\ \A i \in Indices :
       readPos + Read <= i /\ i < writePos + Arrived =>
         buffer[i] = handed + i - (readPos + Read)

-----------------------------------------------------------------------------
(* The inductive invariant behind these properties (ServerCoreProofs).     *)

\* The packets tile the stream; the next one to hand on begins at handed.
StreamShape ==
  /\ received <= written
  /\ handed \in DOMAIN packets \cup {written}
  /\ \A p \in DOMAIN packets :
       p < written /\ p + packets[p] \in DOMAIN packets \cup {written}

\* Less than a whole packet is left between two receives, and it leaves room.
CursorBounds ==
  /\ readPos <= writePos /\ writePos <= Capacity
  /\ phase \in {"RegisterRecv", "posted", "ProcessRecv"} => DataSize < BufferSize
  /\ phase = "RegisterRecv" => FreeSize >= BufferSize

IInv ==
  /\ TypeOK /\ RoomToReceive /\ ReadWithinData /\ BufferFaithful
  /\ StreamShape /\ CursorBounds
-----------------------------------------------------------------------------

\* The receive path hands on exactly the packets the peer wrote.
Stream == INSTANCE PacketStream
ImplementsStream == Stream!Spec

\* A packet the peer has written is handed on unless the session disconnects.
PacketsArrive ==
  \A p \in 0..MaxStream : p \in DOMAIN packets ~> (handed > p \/ ~connected)
=============================================================================
