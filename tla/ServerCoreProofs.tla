-------------------------- MODULE ServerCoreProofs --------------------------
(***************************************************************************)
(* The receive path and the accepts of ServerCore.                         *)
(*                                                                         *)
(* RecvBuffer, for every buffer size, every count of at least three        *)
(* buffers and every set of packet sizes below the buffer size: its IInv   *)
(* is inductive, so a receive always has room, nothing overflows, the      *)
(* memcpy of Clean is defined, and the packets handed on are the packets   *)
(* written.                                                                *)
(*                                                                         *)
(* Listener, for every number of accept events, workers, clients and       *)
(* failures: no accept event is lost or handled twice, and no posted       *)
(* accept shares its session.  LIInv is inductive; the two invariants the  *)
(* run checks follow from it.                                              *)
(***************************************************************************)
EXTENDS RecvBuffer, Listener, FiniteSetTheorems, TLAPS

-----------------------------------------------------------------------------
(* RecvBuffer.                                                             *)

\* What the proofs need of the constants.
LEMMA Sizes ==
  /\ BufferSize \in Nat /\ HeaderSize \in Nat /\ Capacity \in Nat
  /\ 0 < HeaderSize /\ HeaderSize <= BufferSize
  /\ Capacity >= 3 * BufferSize
  /\ \A size \in PacketSizes : size \in Nat /\ 0 < size /\ size < BufferSize
<1>1. Capacity \in Nat /\ Capacity >= 3 * BufferSize
  BY RecvBufferAssumption DEF Capacity
<1>. QED
  BY <1>1, RecvBufferAssumption

\* The session's buffer is empty at first.
LEMMA InitInv == Init => IInv
BY Sizes DEF Init, IInv, TypeOK, RoomToReceive, ReadWithinData, BufferFaithful,
   StreamShape, CursorBounds, DataSize, FreeSize, Indices, Phases, Arrived, Read

\* While OnRecv runs, a complete header is the header of the next packet.
LEMMA HeaderIsNext ==
  ASSUME IInv, phase = "OnRecv", Assembled(HeaderSize)
  PROVE  /\ handed \in DOMAIN packets
         /\ HeaderAt(readPos + processLen) = packets[handed]
<1>1. readPos + processLen \in Indices /\ readPos + processLen < writePos
  BY Sizes DEF IInv, TypeOK, ReadWithinData, CursorBounds, Assembled, DataSize, Indices
<1>2. buffer[readPos + processLen] = handed
  BY <1>1 DEF IInv, TypeOK, BufferFaithful, Read, Arrived
<1>3. handed < written
  BY <1>1 DEF IInv, TypeOK, BufferFaithful, Read, Arrived, StreamShape, DataSize
<1>. QED
  BY <1>2, <1>3 DEF IInv, TypeOK, StreamShape, HeaderAt

\* What BufferFaithful says inside OnRecv.
LEMMA RestOfData ==
  ASSUME IInv, phase = "OnRecv"
  PROVE  /\ received = handed + (DataSize - processLen)
         /\ \A i \in Indices : readPos + processLen <= i /\ i < writePos =>
              buffer[i] = handed + i - (readPos + processLen)
BY DEF IInv, TypeOK, BufferFaithful, Read, Arrived, DataSize

\* When OnRecv's loop ends, less than a buffer's size is left.
LEMMA RestIsShort ==
  ASSUME IInv, phase = "OnRecv", ~PacketComplete
  PROVE  dataSize - processLen < BufferSize
<1>1. CASE ~Assembled(HeaderSize)
  BY <1>1, Sizes DEF IInv, TypeOK, Assembled
<1>2. CASE Assembled(HeaderSize)
  <2>1. ~Assembled(packets[handed]) /\ packets[handed] \in PacketSizes
    BY <1>2, HeaderIsNext DEF PacketComplete, IInv, TypeOK
  <2>. QED
    BY <2>1, Sizes DEF IInv, TypeOK, Assembled
<1>. QED
  BY <1>1, <1>2

\* Clean after a completed loop: the rest is kept, with room behind it.
LEMMA CleanRest ==
  ASSUME IInv, phase = "OnRecv", ~PacketComplete, Clean(readPos + processLen)
  PROVE  /\ readPos' \in Nat /\ writePos' \in Nat
         /\ buffer' \in [Indices -> Nat]
         /\ writePos' - readPos' = dataSize - processLen
         /\ readPos' <= writePos' /\ writePos' <= Capacity
         /\ Capacity - writePos' >= BufferSize
         /\ \A i \in Indices : readPos' <= i /\ i < writePos' =>
              buffer'[i] = handed + i - readPos'
         /\ 0 < writePos' /\ writePos' < writePos =>
              writePos' <= writePos - writePos'
<1>. DEFINE read == readPos + processLen
            size == writePos - read
<1>1. /\ read \in Nat /\ size \in Nat /\ writePos \in Nat
      /\ size = dataSize - processLen /\ size < BufferSize
      /\ writePos <= Capacity
  BY RestIsShort, Sizes DEF IInv, TypeOK, ReadWithinData, CursorBounds, DataSize
<1>2. /\ buffer \in [Indices -> Nat]
      /\ handed \in Nat
      /\ \A i \in Indices : read <= i /\ i < writePos => buffer[i] = handed + i - read
  BY DEF IInv, TypeOK, BufferFaithful, Read, Arrived
<1>. HIDE DEF read
<1>3. CASE size = 0
  BY <1>1, <1>2, <1>3, Sizes DEF Clean, read, Indices
<1>4. CASE size # 0 /\ FreeSize < BufferSize
  <2>1. /\ readPos' = 0 /\ writePos' = size
        /\ buffer' = [i \in Indices |-> IF i < size THEN buffer[read + i] ELSE buffer[i]]
    BY <1>4 DEF Clean, read
  <2>2. size <= read
    BY <1>1, <1>4, Sizes DEF FreeSize
  <2>3. \A i \in Indices : i < size => read + i \in Indices /\ read + i < writePos
    BY <1>1, Sizes DEF Indices
  <2>. QED
    BY <1>1, <1>2, <2>1, <2>2, <2>3, Sizes DEF Indices
<1>5. CASE size # 0 /\ ~(FreeSize < BufferSize)
  <2>1. /\ readPos' = read /\ writePos' = writePos
        /\ buffer' = [i \in Indices |-> buffer[i]]
    BY <1>5 DEF Clean, read
  <2>. QED
    BY <1>1, <1>2, <1>5, <2>1, Sizes DEF FreeSize
<1>. QED
  BY <1>3, <1>4, <1>5

\* Every step preserves the invariant.
LEMMA Step ==
  ASSUME IInv, [Next]_vars
  PROVE  IInv'
<1>. USE DEF IInv, TypeOK, RoomToReceive, ReadWithinData, BufferFaithful, StreamShape,
       CursorBounds, DataSize, FreeSize, Arrived, Read, Phases, cursors, locals, kernel,
       history
<1>1. CASE PeerWrites
  <2>1. PICK size \in PacketSizes :
          /\ packets' = [p \in DOMAIN packets \cup {written} |->
                           IF p = written THEN size ELSE packets[p]]
          /\ written' = written + size
    BY <1>1 DEF PeerWrites
  <2>2. UNCHANGED <<cursors, locals, connected, phase, room, numOfBytes, received, history>>
    BY <1>1 DEF PeerWrites
  <2>3. size \in Nat /\ 0 < size
    BY Sizes
  <2>4. /\ written' \in Nat /\ DOMAIN packets' \subseteq Nat
        /\ \A p \in DOMAIN packets' : packets'[p] \in PacketSizes
    BY <2>1, <2>3
  <2>5. StreamShape'
    BY <2>1, <2>2, <2>3
  <2>. QED
    BY <2>2, <2>4, <2>5
<1>2. CASE Arrive
  <2>1. PICK n \in 1..room :
          /\ n <= written - received
          /\ numOfBytes' = n
          /\ received' = received + n
          /\ buffer' = [i \in Indices |->
                          IF i \in writePos..(writePos + n - 1)
                            THEN received + i - writePos ELSE buffer[i]]
    BY <1>2 DEF Arrive
  <2>2. /\ phase = "posted" /\ phase' = "ProcessRecv"
        /\ UNCHANGED <<readPos, writePos, locals, connected, room, packets, written, history>>
    BY <1>2 DEF Arrive
  <2>3. buffer' \in [Indices -> Nat]
    BY <2>1, Sizes DEF Indices
  <2>4. BufferFaithful'
    BY <2>1, <2>2, Sizes DEF Indices
  <2>. QED
    BY <2>1, <2>2, <2>3, <2>4
<1>3. CASE RecvEnd
  BY <1>3 DEF RecvEnd
<1>4. CASE Disconnected
  BY <1>4 DEF Disconnected
<1>5. CASE RegisterRecv
  BY <1>5, Sizes DEF RegisterRecv
<1>6. CASE ProcessRecv
  <2>1. CASE numOfBytes = 0 \/ numOfBytes > FreeSize
    <3>1. /\ connected' = FALSE /\ phase = "ProcessRecv" /\ phase' = "none"
          /\ UNCHANGED <<cursors, locals, kernel, history>>
      BY <1>6, <2>1 DEF ProcessRecv
    <3>2. numOfBytes = 0
      BY <2>1, <3>1, Sizes
    <3>. QED
      BY <3>1, <3>2
  <2>2. CASE ~(numOfBytes = 0 \/ numOfBytes > FreeSize)
    <3>1. /\ writePos' = writePos + numOfBytes
          /\ dataSize' = DataSize + numOfBytes
          /\ processLen' = 0
          /\ phase = "ProcessRecv" /\ phase' = "OnRecv"
          /\ UNCHANGED <<connected, readPos, buffer, kernel, history>>
      BY <1>6, <2>2 DEF ProcessRecv
    <3>2. TypeOK' /\ ReadWithinData' /\ CursorBounds' /\ RoomToReceive'
      BY <2>2, <3>1, Sizes
    <3>3. BufferFaithful'
      BY <3>1, Sizes
    <3>4. StreamShape'
      BY <3>1
    <3>. QED
      BY <3>2, <3>3, <3>4
  <2>. QED
    BY <2>1, <2>2
<1>7. CASE OnRecvPacket
  <2>. DEFINE size == packets[handed]
  <2>1. /\ handed \in DOMAIN packets /\ size \in Nat /\ 0 < size
        /\ Assembled(size)
        /\ handed' = handed + size /\ processLen' = processLen + size
        /\ phase = "OnRecv"
    BY <1>7, HeaderIsNext, Sizes DEF OnRecvPacket, PacketComplete
  <2>2. UNCHANGED <<cursors, dataSize, connected, phase, kernel>>
    BY <1>7 DEF OnRecvPacket
  <2>3. processLen' <= dataSize
    BY <2>1 DEF Assembled
  <2>4. StreamShape'
    BY <2>1, <2>2
  <2>5. BufferFaithful'
    <3>1. /\ received' = handed' + (DataSize' - processLen')
          /\ \A i \in Indices : readPos' + processLen' <= i /\ i < writePos' =>
               buffer'[i] = handed' + i - (readPos' + processLen')
      <4>. HIDE DEF IInv
      <4>1. /\ readPos \in Nat /\ writePos \in Nat /\ processLen \in Nat
            /\ handed \in Nat /\ received \in Nat
        BY DEF IInv
      <4>. QED
        BY <2>1, <2>2, <4>1, RestOfData DEF Indices
    <3>. QED
      BY <2>1, <2>2, <3>1
  <2>6. TypeOK' /\ CursorBounds' /\ RoomToReceive' /\ ReadWithinData'
    BY <2>1, <2>2, <2>3
  <2>. QED
    BY <2>4, <2>5, <2>6
<1>8. CASE OnRecvReturns
  <2>1. /\ phase = "OnRecv" /\ phase' = "RegisterRecv" /\ ~PacketComplete
        /\ Clean(readPos + processLen)
        /\ UNCHANGED <<connected, locals, kernel, history>>
    BY <1>8 DEF OnRecvReturns
  <2>2. dataSize - processLen < BufferSize
    BY <2>1, RestIsShort
  <2>. DEFINE rest == dataSize - processLen
  <2>3. /\ readPos' \in Nat /\ writePos' \in Nat
        /\ buffer' \in [Indices -> Nat]
        /\ writePos' - readPos' = rest
        /\ readPos' <= writePos' /\ writePos' <= Capacity
        /\ Capacity - writePos' >= BufferSize
        /\ \A i \in Indices : readPos' <= i /\ i < writePos' =>
             buffer'[i] = handed + i - readPos'
    BY <2>1, CleanRest
  <2>4. rest \in Nat /\ received = handed + rest
    BY <2>1, RestOfData
  <2>. HIDE DEF IInv, rest
  <2>5. TypeOK /\ RoomToReceive /\ ReadWithinData /\ StreamShape
    BY DEF IInv
  <2>6. TypeOK'
    BY <2>1, <2>3, <2>5
  <2>7. RoomToReceive' /\ ReadWithinData' /\ StreamShape'
    BY <2>1, <2>5
  <2>8. CursorBounds'
    <3>1. rest < BufferSize
      BY <2>2 DEF rest
    <3>. QED
      BY <2>1, <2>3, <3>1
  <2>9. BufferFaithful'
    <3>1. received' = handed' + (writePos' - readPos')
      BY <2>1, <2>3, <2>4
    <3>2. phase' = "RegisterRecv" /\ handed' = handed
      BY <2>1
    <3>. QED
      BY <2>3, <2>5, <3>1, <3>2
  <2>. QED
    BY <2>6, <2>7, <2>8, <2>9 DEF IInv
<1>9. CASE UNCHANGED vars
  BY <1>9 DEF vars
<1>. QED
  BY <1>1, <1>2, <1>3, <1>4, <1>5, <1>6, <1>7, <1>8, <1>9 DEF Next, Worker

\* A posted receive has room for any packet, and what arrives always fits.
THEOREM AlwaysRoom == Spec => []RoomToReceive
<1>1. IInv => RoomToReceive
  BY DEF IInv
<1>. QED
  BY InitInv, Step, <1>1, PTL DEF Spec

\* OnRead never refuses, and the unread bytes are the stream's.
THEOREM Faithful == Spec => [](ReadWithinData /\ BufferFaithful)
<1>1. IInv => ReadWithinData /\ BufferFaithful
  BY DEF IInv
<1>. QED
  BY InitInv, Step, <1>1, PTL DEF Spec

\* Clean's memcpy never copies between overlapping regions.
THEOREM DisjointMoves == Spec => MoveIsDisjoint
<1>1. IInv /\ [Next]_vars =>
        [0 < writePos' /\ writePos' < writePos => writePos' <= writePos - writePos']_vars
  <2>. SUFFICES ASSUME IInv, Next, 0 < writePos', writePos' < writePos
                PROVE  writePos' <= writePos - writePos'
    OBVIOUS
  <2>1. OnRecvReturns /\ writePos' # writePos
    BY DEF Next, Worker, PeerWrites, Arrive, RecvEnd, Disconnected, RegisterRecv, ProcessRecv,
       OnRecvPacket, cursors, IInv, TypeOK
  <2>2. phase = "OnRecv" /\ ~PacketComplete /\ Clean(readPos + processLen)
    BY <2>1 DEF OnRecvReturns, cursors
  <2>. QED
    BY <2>2, CleanRest
<1>. QED
  BY InitInv, Step, <1>1, PTL DEF Spec, MoveIsDisjoint

\* The packets handed on are the packets written, whole and in order.
THEOREM HandsOnTheStream == Spec => ImplementsStream
<1>1. Init => Stream!Init
  BY DEF Init, Stream!Init
<1>2. IInv /\ [Next]_vars => [Stream!Next]_(Stream!streamVars)
  <2>. SUFFICES ASSUME IInv, [Next]_vars
                PROVE  [Stream!Next]_(Stream!streamVars)
    OBVIOUS
  <2>1. CASE PeerWrites
    BY <2>1 DEF PeerWrites, history, Stream!Next, Stream!Write
  <2>2. CASE OnRecvPacket
    <3>. DEFINE size == packets[handed]
    <3>1. /\ handed \in DOMAIN packets /\ size \in Nat
          /\ handed' = handed + size
          /\ frame' = [i \in 1..size |-> buffer[readPos + processLen + i - 1]]
          /\ Assembled(size) /\ phase = "OnRecv"
          /\ UNCHANGED <<packets, written>>
      BY <2>2, HeaderIsNext, Sizes DEF OnRecvPacket, PacketComplete, kernel, IInv, TypeOK
    <3>2. \A i \in 1..size : buffer[readPos + processLen + i - 1] = handed + i - 1
      <4>. SUFFICES ASSUME NEW i \in 1..size
                    PROVE  buffer[readPos + processLen + i - 1] = handed + i - 1
        OBVIOUS
      <4>1. /\ readPos + processLen + i - 1 \in Indices
            /\ readPos + processLen + i - 1 < writePos
        BY <3>1, Sizes DEF IInv, TypeOK, ReadWithinData, CursorBounds, DataSize,
           Assembled, Indices
      <4>. QED
        <5>1. \A j \in Indices : readPos + processLen <= j /\ j < writePos =>
                buffer[j] = handed + j - (readPos + processLen)
          BY <3>1, RestOfData
        <5>2. /\ readPos \in Nat /\ processLen \in Nat /\ handed \in Nat
              /\ readPos + processLen <= readPos + processLen + i - 1
          BY DEF IInv, TypeOK
        <5>. QED
          BY <4>1, <5>1, <5>2
    <3>3. frame' = [i \in 1..size |-> handed + i - 1]
      BY <3>1, <3>2
    <3>. QED
      BY <3>1, <3>3 DEF Stream!Next, Stream!HandOn
  <2>3. CASE Arrive \/ RecvEnd \/ Disconnected \/ RegisterRecv \/ ProcessRecv \/ OnRecvReturns
    BY <2>3 DEF Arrive, RecvEnd, Disconnected, RegisterRecv, ProcessRecv, OnRecvReturns,
       kernel, history, Stream!streamVars
  <2>4. CASE UNCHANGED vars
    BY <2>4 DEF vars, kernel, history, Stream!streamVars
  <2>. QED
    BY <2>1, <2>2, <2>3, <2>4 DEF Next, Worker
<1>. QED
  BY InitInv, Step, <1>1, <1>2, PTL DEF Spec, ImplementsStream, Stream!Spec

-----------------------------------------------------------------------------
(* Listener.                                                               *)

\* The types TypeOK leaves to the shape of the model: the functions it gives
\* only the values or the domain of, and the clients at the end of a socket.
Shapes ==
  /\ made \in Nat
  /\ step \in [Workers -> {"none", "ProcessAccept", "RegisterAccept"}]
  /\ peer \in [DOMAIN peer -> Clients]

\* A handled event is in the hands of a worker, and of no other.
HeldByOne ==
  /\ \A w \in Workers : handler[w] # NoEvent => event[handler[w]] = "handled"
  /\ \A w, u \in Workers : handler[w] = handler[u] /\ handler[w] # NoEvent => w = u
  /\ \A e \in AcceptEvents : event[e] = "handled" => \E w \in Workers : handler[w] = e

\* A posted accept has a session.
PostedWithSession == \A e \in AcceptEvents : event[e] = "posted" => session[e] # 0

LIInv == LTypeOK /\ Shapes /\ HeldByOne /\ PostedWithSession /\ SessionsApart

-----------------------------------------------------------------------------
\* The peer of a socket, if there is one, is a client, and then the event has
\* a session.
LEMMA PeerIsClient ==
  ASSUME LTypeOK, Shapes, NEW e \in AcceptEvents, PeerOf(e) # NoClient
  PROVE  PeerOf(e) \in Clients /\ session[e] \in 1..made
BY DEF PeerOf, LTypeOK, Shapes

\* What the worker in a function of the accept event holds.
LEMMA WorkerHolds ==
  ASSUME LTypeOK, NEW w \in Workers, step[w] # "none"
  PROVE  handler[w] \in AcceptEvents
BY DEF LTypeOK

\* Every step preserves the types.
LEMMA AcceptTypeStep ==
  ASSUME LTypeOK, Shapes, PostedWithSession, [LNext]_lvars
  PROVE  LTypeOK' /\ Shapes'
<1>. USE ListenerAssumption DEF LTypeOK, Shapes, Fail
<1>1. CASE Start
  <2>1. CASE NDebug
    BY <1>1, <2>1 DEF Start
  <2>2. CASE ~NDebug
    <3>1. /\ main' \in {"StartAccept", "aborted"}
          /\ failures' \in 0..MaxFailures
          /\ UNCHANGED <<event, session, handler, step, sessions, made, client, peer>>
      BY <1>1, <2>2 DEF Start
    <3>2. listening' = TRUE \/ listening' = listening
      BY <1>1, <2>2, Zenon DEF Start
    <3>. QED
      BY <3>1, <3>2
  <2>. QED
    BY <2>1, <2>2
<1>2. CASE StartAccept
  BY <1>2 DEF StartAccept
<1>3. CASE StartReturns
  BY <1>3 DEF StartReturns
<1>4. ASSUME NEW w \in Workers, Dispatch(w)
      PROVE  LTypeOK' /\ Shapes'
  BY <1>4 DEF Dispatch
<1>5. ASSUME NEW w \in Workers, ProcessAccept(w)
      PROVE  LTypeOK' /\ Shapes'
  <2>1. handler[w] \in AcceptEvents
    BY <1>5, WorkerHolds DEF ProcessAccept
  <2>2. PeerOf(handler[w]) # NoClient =>
          PeerOf(handler[w]) \in Clients /\ session[handler[w]] \in 1..made
    BY <2>1, PeerIsClient
  <2>. QED
    BY <1>5, <2>1, <2>2 DEF ProcessAccept
<1>6. ASSUME NEW w \in Workers, RegisterAccept(w)
      PROVE  LTypeOK' /\ Shapes'
  <2>1. handler[w] \in AcceptEvents
    BY <1>6, WorkerHolds DEF RegisterAccept
  <2>2. session' \in [AcceptEvents -> 0..made'] /\ made' \in Nat
    BY <1>6, <2>1 DEF RegisterAccept
  <2>3. client' \in [Clients -> {"idle", "refused", "waiting", "accepted", "served", "closed"}]
    BY <1>6 DEF RegisterAccept
  <2>4. /\ event' \in [AcceptEvents -> {"none", "posted", "completed", "handled"}]
        /\ handler' \in [Workers -> AcceptEvents \cup {NoEvent}]
        /\ step' \in [Workers -> {"none", "ProcessAccept", "RegisterAccept"}]
        /\ \A u \in Workers :
             step'[u] \in IF handler'[u] = NoEvent THEN {"none"}
                          ELSE {"ProcessAccept", "RegisterAccept"}
    BY <1>6, <2>1 DEF RegisterAccept
  <2>5. sessions' \subseteq 1..made' /\ DOMAIN peer' \subseteq 1..made'
    BY <1>6 DEF RegisterAccept
  <2>. QED
    BY <1>6, <2>2, <2>3, <2>4, <2>5 DEF RegisterAccept
<1>7. ASSUME NEW c \in Clients, Connect(c)
      PROVE  LTypeOK' /\ Shapes'
  BY <1>7 DEF Connect
<1>8. ASSUME NEW e \in AcceptEvents, AcceptEx(e)
      PROVE  LTypeOK' /\ Shapes'
  <2>1. session[e] \in 1..made
    BY <1>8 DEF AcceptEx, PostedWithSession
  <2>. QED
    BY <1>8, <2>1 DEF AcceptEx
<1>9. CASE UNCHANGED lvars
  BY <1>9 DEF lvars
<1>. QED
  BY <1>1, <1>2, <1>3, <1>4, <1>5, <1>6, <1>7, <1>8, <1>9 DEF LNext, Thread

\* Every step keeps each handled event with exactly one worker.
LEMMA HeldStep ==
  ASSUME LTypeOK, Shapes, HeldByOne, [LNext]_lvars
  PROVE  HeldByOne'
<1>. USE ListenerAssumption DEF LTypeOK, Shapes, HeldByOne
<1>1. CASE Start
  BY <1>1 DEF Start
<1>2. CASE StartAccept
  BY <1>2 DEF StartAccept
<1>3. CASE StartReturns
  BY <1>3 DEF StartReturns
<1>4. ASSUME NEW w \in Workers, Dispatch(w)
      PROVE  HeldByOne'
  BY <1>4 DEF Dispatch
<1>5. ASSUME NEW w \in Workers, ProcessAccept(w)
      PROVE  HeldByOne'
  BY <1>5 DEF ProcessAccept
<1>6. ASSUME NEW w \in Workers, RegisterAccept(w)
      PROVE  HeldByOne'
  BY <1>6, WorkerHolds DEF RegisterAccept
<1>7. ASSUME NEW c \in Clients, Connect(c)
      PROVE  HeldByOne'
  BY <1>7 DEF Connect
<1>8. ASSUME NEW e \in AcceptEvents, AcceptEx(e)
      PROVE  HeldByOne'
  BY <1>8 DEF AcceptEx
<1>9. CASE UNCHANGED lvars
  BY <1>9 DEF lvars
<1>. QED
  BY <1>1, <1>2, <1>3, <1>4, <1>5, <1>6, <1>7, <1>8, <1>9 DEF LNext, Thread

\* Every step keeps the sessions of the accept events apart: RegisterAccept
\* takes a session that never was, and the two ways a session gets into use
\* concern an event that is not, or no longer, posted.
LEMMA ApartStep ==
  ASSUME LIInv, [LNext]_lvars
  PROVE  PostedWithSession' /\ SessionsApart'
<1>. USE ListenerAssumption DEF LIInv, LTypeOK, Shapes, PostedWithSession, SessionsApart
<1>1. CASE Start
  BY <1>1 DEF Start
<1>2. CASE StartAccept
  BY <1>2 DEF StartAccept
<1>3. CASE StartReturns
  BY <1>3 DEF StartReturns
<1>4. ASSUME NEW w \in Workers, Dispatch(w)
      PROVE  PostedWithSession' /\ SessionsApart'
  BY <1>4 DEF Dispatch
<1>5. ASSUME NEW w \in Workers, ProcessAccept(w)
      PROVE  PostedWithSession' /\ SessionsApart'
  <2>1. handler[w] \in AcceptEvents /\ event[handler[w]] = "handled"
    BY <1>5, WorkerHolds DEF ProcessAccept, HeldByOne
  <2>2. CASE PeerOf(handler[w]) # NoClient /\ sessions' = sessions \cup {session[handler[w]]}
    <3>1. session[handler[w]] # 0
      BY <2>1, <2>2, PeerIsClient
    <3>. QED
      BY <1>5, <2>1, <2>2, <3>1 DEF ProcessAccept
  <2>3. CASE UNCHANGED sessions
    BY <1>5, <2>3 DEF ProcessAccept
  <2>. QED
    BY <1>5, <2>2, <2>3 DEF ProcessAccept
<1>6. ASSUME NEW w \in Workers, RegisterAccept(w)
      PROVE  PostedWithSession' /\ SessionsApart'
  <2>1. handler[w] \in AcceptEvents
    BY <1>6, WorkerHolds DEF RegisterAccept
  <2>2. made + 1 \notin sessions \cup DOMAIN peer /\ made + 1 # 0
    OBVIOUS
  <2>3. \A f \in AcceptEvents : session[f] # made + 1
    OBVIOUS
  <2>. QED
    BY <1>6, <2>1, <2>2, <2>3 DEF RegisterAccept
<1>7. ASSUME NEW c \in Clients, Connect(c)
      PROVE  PostedWithSession' /\ SessionsApart'
  BY <1>7 DEF Connect
<1>8. ASSUME NEW e \in AcceptEvents, AcceptEx(e)
      PROVE  PostedWithSession' /\ SessionsApart'
  <2>1. session[e] # 0
    BY <1>8 DEF AcceptEx
  <2>2. DOMAIN peer' \subseteq DOMAIN peer \cup {session[e]}
    BY <1>8 DEF AcceptEx
  <2>3. \A f \in AcceptEvents : event'[f] = "posted" => f # e /\ event[f] = "posted"
    BY <1>8 DEF AcceptEx
  <2>. QED
    BY <1>8, <2>1, <2>2, <2>3 DEF AcceptEx
<1>9. CASE UNCHANGED lvars
  BY <1>9 DEF lvars
<1>. QED
  BY <1>1, <1>2, <1>3, <1>4, <1>5, <1>6, <1>7, <1>8, <1>9 DEF LNext, Thread

\* Before Start there is no session, no handled event and no connection.
LEMMA LInitInv == LInit => LIInv
<1>. SUFFICES ASSUME LInit
              PROVE  LIInv
  OBVIOUS
<1>1. DOMAIN peer = {} /\ peer \in [DOMAIN peer -> Clients]
  BY DEF LInit
<1>2. LTypeOK
  <2>1. /\ event \in [AcceptEvents -> {"none", "posted", "completed", "handled"}]
        /\ session \in [AcceptEvents -> 0..made]
        /\ handler \in [Workers -> AcceptEvents \cup {NoEvent}]
        /\ client \in [Clients -> {"idle", "refused", "waiting", "accepted", "served", "closed"}]
    BY DEF LInit
  <2>2. \A w \in Workers : handler[w] = NoEvent /\ step[w] = "none"
    BY DEF LInit
  <2>3. main = "Start" /\ sessions = {} /\ failures \in 0..MaxFailures
    BY ListenerAssumption DEF LInit
  <2>4. listening \in BOOLEAN
    BY Zenon DEF LInit
  <2>. QED
    BY <1>1, <2>1, <2>2, <2>3, <2>4 DEF LTypeOK
<1>3. Shapes /\ HeldByOne /\ PostedWithSession /\ SessionsApart
  BY <1>1 DEF LInit, Shapes, HeldByOne, PostedWithSession, SessionsApart
<1>. QED
  BY <1>2, <1>3 DEF LIInv

LEMMA ListenerInductive == LSpec => []LIInv
<1>1. LIInv /\ [LNext]_lvars => LIInv'
  BY AcceptTypeStep, HeldStep, ApartStep DEF LIInv
<1>. QED
  BY LInitInv, <1>1, PTL DEF LSpec

-----------------------------------------------------------------------------
\* Every variable of the listener keeps its type, for any number of accept
\* events, workers, clients and failures (Listener.cpp, Service.cpp).
THEOREM ListenerTypes == LSpec => []LTypeOK
<1>1. LIInv => LTypeOK
  BY DEF LIInv
<1>. QED
  BY ListenerInductive, <1>1, PTL

\* Whatever fails in ProcessAccept and RegisterAccept, and whichever workers
\* run them, an accept event is never lost, and never handled by two threads
\* (Listener.cpp:80-130).
THEOREM EventsHeld == LSpec => []EventHeld
<1>1. ASSUME LIInv, NEW e \in AcceptEvents
      PROVE  Cardinality({w \in Workers : handler[w] = e})
               = IF event[e] = "handled" THEN 1 ELSE 0
  <2>. USE ListenerAssumption, <1>1 DEF LIInv, HeldByOne
  <2>1. CASE event[e] = "handled"
    <3>1. PICK w \in Workers : handler[w] = e
      BY <2>1
    <3>2. {u \in Workers : handler[u] = e} = {w}
      BY <3>1
    <3>. QED
      BY <2>1, <3>2, FS_Singleton
  <2>2. CASE event[e] # "handled"
    <3>1. {u \in Workers : handler[u] = e} = {}
      BY <2>2
    <3>. QED
      BY <2>2, <3>1, FS_EmptySet
  <2>. QED
    BY <2>1, <2>2
<1>2. LIInv => EventHeld
  BY <1>1 DEF EventHeld
<1>. QED
  BY ListenerInductive, <1>2, PTL

\* No two accept events share a session, and a posted AcceptEx never has the
\* session of a client: what Listener.cpp:82-85 makes a new session for.
THEOREM AcceptsApart == LSpec => []SessionsApart
<1>1. LIInv => SessionsApart
  BY DEF LIInv
<1>. QED
  BY ListenerInductive, <1>1, PTL
=============================================================================
