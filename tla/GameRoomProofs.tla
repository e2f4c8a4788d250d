---------------------------- MODULE GameRoomProofs ----------------------------
(***************************************************************************)
(* Theorems about GameRoom and Replication, for any sessions, ids,         *)
(* monsters and contents of packets.  IInv is inductive however            *)
(* connections break; while they end in order and the ids last, OInv is    *)
(* inductive relative to it.  What the clients do is to the room a step of *)
(* GameRoom (ClientsAreClients), so both hold in Replication, and RInv is  *)
(* inductive there.  While, besides, nobody leaves the game scene, SInv    *)
(* and then TInv and VInv are inductive relative to those.  Last, an       *)
(* induction over the packets on their way to a client (AfterAll) says     *)
(* what these invariants come to once it has handled them all.             *)
(***************************************************************************)
EXTENDS Replication, FiniteSets, SequenceTheorems, FiniteSetTheorems, WellFoundedInduction, TLAPS

\* A function changed at one argument keeps its type.
LEMMA FunUpdate ==
  ASSUME NEW S, NEW T, NEW f \in [S -> T], NEW s \in S, NEW v \in T
  PROVE  [f EXCEPT ![s] = v] \in [S -> T]
OBVIOUS

\* A map with one more entry.
LEMMA InsertEntry ==
  ASSUME NEW f, NEW k, NEW v
  PROVE  /\ DOMAIN Insert(f, k, v) = DOMAIN f \cup {k}
         /\ Insert(f, k, v)[k] = v
         /\ \A x \in DOMAIN f : x # k => Insert(f, k, v)[x] = f[x]
BY DEF Insert

\* What Arrive does with a sequence of packets.
LEMMA Cut ==
  ASSUME NEW S, NEW q \in Seq(S), NEW n \in 1..Len(q)
  PROVE  /\ SubSeq(q, 1, n) \in Seq(S)
         /\ Len(SubSeq(q, 1, n)) = n
         /\ \A k \in 1..n : SubSeq(q, 1, n)[k] = q[k]
         /\ SubSeq(q, n + 1, Len(q)) \in Seq(S)
         /\ Len(SubSeq(q, n + 1, Len(q))) = Len(q) - n
         /\ \A k \in 1..Len(q) - n : SubSeq(q, n + 1, Len(q))[k] = q[n + k]
OBVIOUS

\* What HandleMove takes off the packets, ...
LEMMA NonEmptySeq ==
  ASSUME NEW S, NEW q \in Seq(S), q # <<>>
  PROVE  /\ Len(q) \in Nat /\ Len(q) > 0 /\ Head(q) = q[1]
         /\ Len(Tail(q)) = Len(q) - 1
         /\ \A k \in 1..Len(Tail(q)) : Tail(q)[k] = q[k + 1]
OBVIOUS

\* ... and what ClientMoves adds.
LEMMA Appended ==
  ASSUME NEW S, NEW q \in Seq(S), NEW p, NEW i
  PROVE  LET a == Append(q, [id |-> p, info |-> i])
         IN /\ Len(a) = Len(q) + 1
            /\ \A k \in 1..Len(q) : a[k] = q[k]
            /\ a[Len(q) + 1].id = p
OBVIOUS

-----------------------------------------------------------------------------
\* The room as GameRoom::Init leaves it.
LEMMA TypeInit == Init => TypeOK
<1>. SUFFICES ASSUME Init PROVE TypeOK
  OBVIOUS
<1>1. \A s \in Sessions : <<>> \in Seq([id : Nat, info : Infos])
  OBVIOUS
<1>2. arrived \in [Sessions -> Seq([id : Nat, info : Infos])]
      /\ toServer \in [Sessions -> Seq([id : Nat, info : Infos])]
  BY <1>1 DEF Init
<1>3. DOMAIN info = MonsterIds \cup 1..nextId - 1
  BY DEF Init
<1>4. \A id \in DOMAIN players : players[id] \in Sessions \cup {NoSession}
      /\ DOMAIN players \subseteq Nat
  BY DEF Init
<1>5. \A o \in DOMAIN info : info[o] \in Infos
  BY GameRoomAssumption DEF Init
<1>6. changes \in 0..MaxChanges /\ nextId \in Nat \ {0} /\ monsters \subseteq Nat
  BY GameRoomAssumption DEF Init
<1>7. /\ conn \in [Sessions -> {"none", "connected", "closed"}]
      /\ sending \in [Sessions -> BOOLEAN]
      /\ recv \in [Sessions -> {"none", "posted", "data", "end"}]
      /\ player \in [Sessions -> Nat \cup {NoPlayer}]
  BY DEF Init
<1>. QED
  BY <1>2, <1>3, <1>4, <1>5, <1>6, <1>7 DEF Init, TypeOK

\* FunUpdate for the sessions' state.
LEMMA SessionUpdate ==
  ASSUME TypeOK, NEW s \in Sessions
  PROVE  /\ \A c \in {"none", "connected", "closed"} :
              [conn EXCEPT ![s] = c] \in [Sessions -> {"none", "connected", "closed"}]
         /\ \A b \in BOOLEAN : [sending EXCEPT ![s] = b] \in [Sessions -> BOOLEAN]
         /\ \A r \in {"none", "posted", "data", "end"} :
              [recv EXCEPT ![s] = r] \in [Sessions -> {"none", "posted", "data", "end"}]
BY FunUpdate DEF TypeOK

\* Disconnect, with LeaveRoom, keeps the types and returns to Update.
LEMMA LeaveType ==
  ASSUME TypeOK, NEW s \in Sessions, Disconnect(s)
  PROVE  /\ conn' \in [Sessions -> {"none", "connected", "closed"}]
         /\ sessions' \subseteq Sessions
         /\ DOMAIN players' \subseteq Nat
         /\ \A id \in DOMAIN players' : players'[id] \in Sessions \cup {NoSession}
         /\ loop' \in {"Update", "Broadcast"}
         /\ after' \in {"RegisterRecv", "OnRecv", "Update"}
         /\ loop' = "Broadcast" => after' = "Update"
<1>1. conn' \in [Sessions -> {"none", "connected", "closed"}]
  <2>1. conn' = conn \/ conn' = [conn EXCEPT ![s] = "closed"]
    BY DEF Disconnect
  <2>. QED
    BY <2>1, SessionUpdate DEF TypeOK
<1>2. sessions' \subseteq Sessions
  BY DEF Disconnect, TypeOK
<1>3. players' = players \/ players' = Erase(players, player[s])
  BY DEF Disconnect, LeaveRoom
<1>4. DOMAIN players' \subseteq Nat
      /\ \A id \in DOMAIN players' : players'[id] \in Sessions \cup {NoSession}
  <2>1. CASE players' = players
    BY <2>1 DEF TypeOK
  <2>2. CASE players' = Erase(players, player[s])
    BY <2>2 DEF Erase, TypeOK
  <2>. QED
    BY <1>3, <2>1, <2>2
<1>5. loop' \in {"Update", "Broadcast"} /\ after' \in {"RegisterRecv", "OnRecv", "Update"}
      /\ (loop' = "Broadcast" => after' = "Update")
  BY DEF Disconnect, LeaveRoom, StartBroadcast, TypeOK
<1>. QED
  BY <1>1, <1>2, <1>4, <1>5

\* One step keeps the types; IdsGiven tells what current and player are.
LEMMA TypeStep ==
  ASSUME TypeOK, IdsGiven, [Next]_vars
  PROVE  TypeOK'
<1>. USE DEF vars, sessionVars, roomVars, loopVars, netVars, Running
<1>1. CASE UNCHANGED vars
  BY <1>1 DEF TypeOK
<1>2. ASSUME NEW s \in Sessions, OnConnected(s) PROVE TypeOK'
  BY <1>2, SessionUpdate DEF OnConnected, TypeOK
<1>3. ASSUME NEW s \in Sessions, ProcessRecv(s) PROVE TypeOK'
  BY <1>3, SessionUpdate DEF ProcessRecv, TypeOK
<1>4. ASSUME NEW s \in Sessions, RecvZero(s) PROVE TypeOK'
  BY <1>4, SessionUpdate, LeaveType DEF RecvZero, TypeOK
<1>5. ASSUME NEW s \in Sessions, ProcessSend(s) PROVE TypeOK'
  <2>1. CASE Disconnect(s) /\ UNCHANGED sending
    BY <1>5, <2>1, LeaveType DEF ProcessSend, TypeOK
  <2>2. CASE /\ sending' = [sending EXCEPT ![s] = FALSE]
             /\ loop' = "Update"
             /\ UNCHANGED <<conn, sessions, players, message, after>>
    BY <1>5, <2>2, SessionUpdate DEF ProcessSend, TypeOK
  <2>. QED
    BY <1>5, <2>1, <2>2 DEF ProcessSend
<1>6. ASSUME NEW s \in Sessions, ProcessDisconnect(s) PROVE TypeOK'
  BY <1>6 DEF ProcessDisconnect, TypeOK
<1>7. ASSUME EnterRoom PROVE TypeOK'
  <2>1. current \in Sessions
    BY <1>7 DEF EnterRoom, IdsGiven, Serving
  <2>2. sending' \in [Sessions -> BOOLEAN]
    BY <1>7, <2>1, SessionUpdate DEF EnterRoom, SendTo
  <2>3. player' \in [Sessions -> Nat \cup {NoPlayer}]
    BY <1>7, <2>1 DEF EnterRoom, TypeOK
  <2>4. nextId' \in Nat \ {0}
    BY <1>7 DEF EnterRoom, TypeOK
  <2>5. DOMAIN info' = MonsterIds \cup 1..nextId' - 1
    <3>1. DOMAIN info' = DOMAIN info \cup {nextId}
      BY <1>7, InsertEntry DEF EnterRoom
    <3>2. nextId' = nextId + 1 /\ nextId \in Nat \ {0}
      BY <1>7 DEF EnterRoom, TypeOK
    <3>3. 1..nextId' - 1 = 1..nextId - 1 \cup {nextId}
      BY <3>2
    <3>. QED
      BY <3>1, <3>3 DEF TypeOK
  <2>6. \A o \in DOMAIN info' : info'[o] \in Infos
    BY <1>7, GameRoomAssumption DEF EnterRoom, Insert, TypeOK
  <2>7. undefined' \in BOOLEAN
    BY <1>7 DEF EnterRoom
  <2>. QED
    BY <1>7, <2>2, <2>3, <2>4, <2>5, <2>6, <2>7 DEF EnterRoom, TypeOK
<1>8. ASSUME AddObject PROVE TypeOK'
  <2>1. current \in Sessions /\ player[current] \in Nat
    BY <1>8 DEF AddObject, IdsGiven, Serving, TypeOK
  <2>2. DOMAIN players' \subseteq Nat
        /\ \A id \in DOMAIN players' : players'[id] \in Sessions \cup {NoSession}
    <3>1. players' = players \/ players' = Insert(players, player[current], current)
      BY <1>8 DEF AddObject
    <3>. QED
      BY <2>1, <3>1 DEF Insert, TypeOK
  <2>3. monsters' \subseteq Nat
    BY <1>8, <2>1 DEF AddObject, TypeOK
  <2>. QED
    BY <1>8, <2>2, <2>3 DEF AddObject, StartBroadcast, TypeOK
<1>9. ASSUME Broadcast PROVE TypeOK'
  <2>1. sending' \in [Sessions -> BOOLEAN]
    BY <1>9, Zenon DEF Broadcast, TypeOK
  <2>2. undefined' \in BOOLEAN
    BY <1>9, Zenon DEF Broadcast
  <2>. QED
    BY <1>9, <2>1, <2>2 DEF Broadcast, TypeOK
<1>10. ASSUME RegisterRecv PROVE TypeOK'
  <2>1. current \in Sessions
    BY <1>10 DEF RegisterRecv, IdsGiven, Serving
  <2>. QED
    BY <1>10, <2>1, SessionUpdate DEF RegisterRecv, TypeOK
<1>11. ASSUME HandleMove PROVE TypeOK'
  <2>1. current \in Sessions /\ arrived[current] \in Seq([id : Nat, info : Infos])
        /\ arrived[current] # <<>>
    BY <1>11 DEF HandleMove, IdsGiven, Serving, TypeOK
  <2>2. Head(arrived[current]) \in [id : Nat, info : Infos]
        /\ Tail(arrived[current]) \in Seq([id : Nat, info : Infos])
    BY <2>1, HeadTailProperties, Zenon
  <2>3. arrived' \in [Sessions -> Seq([id : Nat, info : Infos])]
    BY <1>11, <2>1, <2>2 DEF HandleMove, TypeOK
  <2>4. DOMAIN players' \subseteq Nat
        /\ \A id \in DOMAIN players' : players'[id] \in Sessions \cup {NoSession}
    <3>1. players' = players \/ players' = Insert(players, Head(arrived[current]).id, NoSession)
      BY <1>11 DEF HandleMove, FindObject
    <3>. QED
      BY <2>2, <3>1 DEF Insert, TypeOK
  <2>5. DOMAIN info' = DOMAIN info /\ \A o \in DOMAIN info' : info'[o] \in Infos
    BY <1>11, <2>2 DEF HandleMove, TypeOK
  <2>6. loop' \in {"Broadcast", "OnRecv"} /\ after' \in {"RegisterRecv", "OnRecv", "Update"}
    BY <1>11 DEF HandleMove, StartBroadcast, TypeOK
  <2>7. UNCHANGED <<conn, sending, recv, sessions, player, monsters, nextId, current,
                    todo, undefined, netVars>>
    BY <1>11 DEF HandleMove
  <2>. QED
    BY <2>3, <2>4, <2>5, <2>6, <2>7 DEF TypeOK
<1>12. ASSUME OnRecvReturns PROVE TypeOK'
  BY <1>12 DEF OnRecvReturns, TypeOK
<1>13. ASSUME UpdateMonster PROVE TypeOK'
  <2>1. DOMAIN info' = DOMAIN info /\ \A o \in DOMAIN info' : info'[o] \in Infos
    BY <1>13 DEF UpdateMonster, TypeOK
  <2>2. todo' \subseteq Nat /\ undefined' \in BOOLEAN
    BY <1>13 DEF UpdateMonster, TypeOK
  <2>3. changes' \in 0..MaxChanges
    BY <1>13, GameRoomAssumption DEF UpdateMonster, TypeOK
  <2>4. loop' \in {"Broadcast", "Update"} /\ after' \in {"RegisterRecv", "OnRecv", "Update"}
    BY <1>13 DEF UpdateMonster, StartBroadcast, TypeOK
  <2>5. UNCHANGED <<sessionVars, player, players, monsters, nextId, current, toServer>>
    BY <1>13 DEF UpdateMonster
  <2>. QED
    BY <2>1, <2>2, <2>3, <2>4, <2>5 DEF TypeOK
<1>14. ASSUME UpdateReturns PROVE TypeOK'
  BY <1>14 DEF UpdateReturns, TypeOK
<1>15. ASSUME NEW s \in Sessions, Arrive(s) PROVE TypeOK'
  <2>1. PICK n \in 1..Len(toServer[s]) :
          /\ arrived' = [arrived EXCEPT ![s] = SubSeq(toServer[s], 1, n)]
          /\ toServer' = [toServer EXCEPT ![s] = SubSeq(@, n + 1, Len(@))]
    BY <1>15 DEF Arrive
  <2>2. toServer[s] \in Seq([id : Nat, info : Infos])
    BY DEF TypeOK
  <2>3. SubSeq(toServer[s], 1, n) \in Seq([id : Nat, info : Infos])
        /\ SubSeq(toServer[s], n + 1, Len(toServer[s])) \in Seq([id : Nat, info : Infos])
    BY <2>2, Cut, Zenon
  <2>4. arrived' \in [Sessions -> Seq([id : Nat, info : Infos])]
        /\ toServer' \in [Sessions -> Seq([id : Nat, info : Infos])]
    BY <2>1, <2>3 DEF TypeOK
  <2>. QED
    BY <1>15, <2>4, SessionUpdate DEF Arrive, TypeOK
<1>16. ASSUME NEW s \in Sessions, RecvEnd(s) PROVE TypeOK'
  BY <1>16, SessionUpdate DEF RecvEnd, TypeOK
<1>17. ASSUME NEW s \in Sessions, ClientReads(s) PROVE TypeOK'
  BY <1>17 DEF ClientReads, TypeOK
<1>18. ASSUME NEW s \in Sessions, NEW i \in Infos, MyPlayerRead(s), ClientMoves(s, i)
       PROVE  TypeOK'
  <2>1. [id |-> player[s], info |-> i] \in [id : Nat, info : Infos]
    BY <1>18 DEF MyPlayerRead, TypeOK
  <2>2. Append(toServer[s], [id |-> player[s], info |-> i]) \in Seq([id : Nat, info : Infos])
    <3>1. toServer[s] \in Seq([id : Nat, info : Infos])
      BY DEF TypeOK
    <3>. QED
      BY <2>1, <3>1, AppendProperties, Zenon
  <2>3. toServer' \in [Sessions -> Seq([id : Nat, info : Infos])]
    BY <1>18, <2>2 DEF ClientMoves, TypeOK
  <2>4. changes' \in 0..MaxChanges
    BY <1>18, GameRoomAssumption DEF ClientMoves, TypeOK
  <2>. QED
    BY <1>18, <2>3, <2>4 DEF ClientMoves, TypeOK
<1>. QED
  BY <1>1, <1>2, <1>3, <1>4, <1>5, <1>6, <1>7, <1>8, <1>9, <1>10, <1>11, <1>12, <1>13,
     <1>14, <1>15, <1>16, <1>17, <1>18 DEF Next, Server, Network

-----------------------------------------------------------------------------
\* EnterRoom gives an id that nobody has; no other step changes a player's.
LEMMA IdsStep ==
  ASSUME TypeOK, IdsGiven, [Next]_vars
  PROVE  IdsGiven'
<1>. USE DEF vars, sessionVars, roomVars, loopVars, netVars, Running, Serving, Entering
<1>1. CASE UNCHANGED vars
  BY <1>1 DEF IdsGiven
<1>2. ASSUME NEW s \in Sessions, OnConnected(s) PROVE IdsGiven'
  <2>1. \A t \in Sessions : conn'[t] = "none" => conn[t] = "none"
    BY <1>2 DEF OnConnected, TypeOK
  <2>2. conn'[s] # "none"
    BY <1>2 DEF OnConnected, TypeOK
  <2>3. loop' = "EnterRoom" /\ current' = s /\ UNCHANGED <<player, nextId>>
    BY <1>2 DEF OnConnected
  <2>4. player[s] = NoPlayer
    BY <1>2 DEF OnConnected, IdsGiven
  <2>. QED
    BY <2>1, <2>2, <2>3, <2>4 DEF IdsGiven
<1>3. ASSUME NEW s \in Sessions, ProcessRecv(s) PROVE IdsGiven'
  BY <1>3 DEF ProcessRecv, IdsGiven
<1>4. ASSUME NEW s \in Sessions, Disconnect(s), UNCHANGED <<player, nextId, current>>
      PROVE  IdsGiven'
  <2>1. loop' \in {"Update", "Broadcast"} /\ (loop' = "Broadcast" => after' = "Update")
    BY <1>4, LeaveType
  <2>2. \A t \in Sessions : conn'[t] = "none" => conn[t] = "none"
    BY <1>4 DEF Disconnect, TypeOK
  <2>. QED
    BY <1>4, <2>1, <2>2 DEF IdsGiven
<1>5. ASSUME NEW s \in Sessions, RecvZero(s) PROVE IdsGiven'
  BY <1>4, <1>5 DEF RecvZero
<1>6. ASSUME NEW s \in Sessions, ProcessSend(s) PROVE IdsGiven'
  <2>1. CASE Disconnect(s)
    BY <1>4, <1>6, <2>1 DEF ProcessSend
  <2>2. CASE loop' = "Update" /\ UNCHANGED conn
    BY <1>6, <2>2 DEF ProcessSend, IdsGiven
  <2>. QED
    BY <1>6, <2>1, <2>2 DEF ProcessSend
<1>7. ASSUME NEW s \in Sessions, ProcessDisconnect(s) PROVE IdsGiven'
  BY <1>7 DEF ProcessDisconnect, IdsGiven
<1>8. ASSUME EnterRoom PROVE IdsGiven'
  <2>1. /\ current \in Sessions /\ conn[current] # "none" /\ player[current] = NoPlayer
        /\ loop' = "AddObject" /\ UNCHANGED <<conn, current>>
        /\ nextId \in Nat \ {0} /\ nextId' = nextId + 1 /\ NoPlayer \notin Nat
        /\ player' = [player EXCEPT ![current] = nextId]
    BY <1>8, GameRoomAssumption DEF EnterRoom, IdsGiven, TypeOK
  <2>2. \A s \in Sessions : player'[s] = IF s = current THEN nextId ELSE player[s]
    BY <2>1 DEF TypeOK
  <2>3. \A s \in Sessions : player[s] # NoPlayer => player[s] \in 1..nextId - 1
    BY DEF IdsGiven
  <2>4. \A s \in Sessions : player'[s] # NoPlayer => player'[s] \in 1..nextId' - 1
    BY <2>1, <2>2, <2>3
  <2>5. \A s, t \in Sessions : player'[s] # NoPlayer /\ player'[s] = player'[t] => s = t
    <3>1. \A s \in Sessions : player[s] # nextId
      BY <2>1, <2>3
    <3>. QED
      BY <2>2, <3>1 DEF IdsGiven
  <2>6. \A s \in Sessions : conn'[s] = "none" => player'[s] = NoPlayer
    BY <2>1, <2>2 DEF IdsGiven
  <2>7. player'[current'] # NoPlayer
    BY <2>1, <2>2
  <2>. QED
    BY <2>1, <2>4, <2>5, <2>6, <2>7 DEF IdsGiven
<1>9. ASSUME AddObject PROVE IdsGiven'
  BY <1>9 DEF AddObject, StartBroadcast, IdsGiven
<1>10. ASSUME Broadcast PROVE IdsGiven'
  BY <1>10 DEF Broadcast, IdsGiven, TypeOK
<1>11. ASSUME RegisterRecv PROVE IdsGiven'
  BY <1>11 DEF RegisterRecv, IdsGiven
<1>12. ASSUME HandleMove PROVE IdsGiven'
  <2>1. /\ current \in Sessions
        /\ loop' \in {"Broadcast", "OnRecv"}
        /\ UNCHANGED <<conn, player, nextId, current>>
    BY <1>12 DEF HandleMove, StartBroadcast, IdsGiven
  <2>. QED
    BY <2>1 DEF IdsGiven
<1>13. ASSUME OnRecvReturns PROVE IdsGiven'
  BY <1>13 DEF OnRecvReturns, IdsGiven
<1>14. ASSUME UpdateMonster PROVE IdsGiven'
  <2>1. /\ loop' = "Update" \/ (loop' = "Broadcast" /\ after' = "Update")
        /\ UNCHANGED <<conn, player, nextId, current>>
    BY <1>14 DEF UpdateMonster, StartBroadcast
  <2>. QED
    BY <2>1 DEF IdsGiven
<1>15. ASSUME UpdateReturns PROVE IdsGiven'
  BY <1>15 DEF UpdateReturns, IdsGiven
<1>16. ASSUME NEW s \in Sessions,
              Arrive(s) \/ RecvEnd(s) \/ ClientReads(s) \/ \E i \in Infos : ClientMoves(s, i)
       PROVE  IdsGiven'
  <2>1. UNCHANGED <<conn, player, nextId, loop, current, after>>
    BY <1>16 DEF Arrive, RecvEnd, ClientReads, ClientMoves
  <2>. QED
    BY <2>1 DEF IdsGiven
<1>. QED
  BY <1>1, <1>2, <1>3, <1>5, <1>6, <1>7, <1>8, <1>9, <1>10, <1>11, <1>12, <1>13, <1>14,
     <1>15, <1>16 DEF Next, Server, Network

-----------------------------------------------------------------------------
\* A session that leaves takes its own entry only.
LEMMA LeaveStep ==
  ASSUME TypeOK, IdsGiven, LiveEntered, ~Entering, NEW s \in Sessions, Disconnect(s),
         UNCHANGED player
  PROVE  LiveEntered'
<1>. SUFFICES ASSUME NEW t \in Sessions, conn'[t] = "connected"
              PROVE  /\ player[t] # NoPlayer
                     /\ player[t] <= MaxPlayerId =>
                          player[t] \in DOMAIN players' /\ players'[player[t]] = t
  BY DEF LiveEntered
<1>1. conn[t] = "connected" /\ (t = s => UNCHANGED players)
  BY DEF Disconnect, TypeOK
<1>2. /\ player[t] # NoPlayer
      /\ player[t] <= MaxPlayerId => player[t] \in DOMAIN players /\ players[player[t]] = t
  BY <1>1 DEF LiveEntered
<1>3. CASE UNCHANGED players
  BY <1>2, <1>3
<1>4. CASE players' = Erase(players, player[s]) /\ t # s
  <2>1. player[t] # player[s]
    BY <1>2, <1>4 DEF IdsGiven
  <2>. QED
    BY <1>2, <1>4, <2>1 DEF Erase
<1>. QED
  BY <1>1, <1>3, <1>4 DEF Disconnect, LeaveRoom

\* No step but its own end takes a connected player out of the room.
LEMMA LiveStep ==
  ASSUME TypeOK, IdsGiven, LiveEntered, [Next]_vars
  PROVE  LiveEntered'
<1>. USE DEF vars, sessionVars, roomVars, loopVars, netVars, Running
<1>1. CASE UNCHANGED <<conn, player, players>> /\ ~Entering
  BY <1>1 DEF LiveEntered
<1>2. ASSUME NEW s \in Sessions, OnConnected(s) PROVE LiveEntered'
  <2>1. ~Entering /\ loop' = "EnterRoom" /\ current' = s /\ UNCHANGED <<player, players>>
    BY <1>2 DEF OnConnected, Entering
  <2>2. \A t \in Sessions : t # s => conn'[t] = conn[t]
    BY <1>2 DEF OnConnected, TypeOK
  <2>. QED
    BY <2>1, <2>2 DEF LiveEntered, Entering
<1>3. ASSUME NEW s \in Sessions, RecvZero(s) PROVE LiveEntered'
  BY <1>3, LeaveStep DEF RecvZero, Entering
<1>4. ASSUME NEW s \in Sessions, ProcessSend(s) PROVE LiveEntered'
  <2>1. ~Entering /\ UNCHANGED player
    BY <1>4 DEF ProcessSend, Entering
  <2>2. Disconnect(s) \/ UNCHANGED <<conn, players>>
    BY <1>4 DEF ProcessSend
  <2>. QED
    BY <1>1, <2>1, <2>2, LeaveStep
<1>5. ASSUME EnterRoom PROVE LiveEntered'
  <2>1. /\ loop = "EnterRoom" /\ loop' = "AddObject" /\ UNCHANGED <<conn, players, current>>
        /\ player' = [player EXCEPT ![current] = nextId]
    BY <1>5 DEF EnterRoom
  <2>2. \A t \in Sessions : t # current => player'[t] = player[t]
    BY <2>1 DEF TypeOK
  <2>. QED
    BY <2>1, <2>2 DEF LiveEntered, Entering
<1>6. ASSUME AddObject PROVE LiveEntered'
  <2>1. /\ current \in Sessions /\ player[current] # NoPlayer
        /\ loop = "AddObject" /\ loop' = "Broadcast" /\ UNCHANGED <<conn, player>>
        /\ IF player[current] \in 1..MaxPlayerId
             THEN players' = Insert(players, player[current], current) ELSE UNCHANGED players
    BY <1>6 DEF AddObject, StartBroadcast, IdsGiven, Serving
  <2>2. player[current] \in Nat /\ player[current] > 0
    BY <2>1 DEF IdsGiven, TypeOK
  <2>. SUFFICES ASSUME NEW t \in Sessions, conn[t] = "connected"
                PROVE  /\ player[t] # NoPlayer
                       /\ player[t] <= MaxPlayerId =>
                            player[t] \in DOMAIN players' /\ players'[player[t]] = t
    BY <2>1 DEF LiveEntered
  <2>3. CASE t = current
    BY <2>1, <2>2, <2>3, GameRoomAssumption DEF Insert
  <2>4. CASE t # current
    <3>1. /\ player[t] # NoPlayer
          /\ player[t] <= MaxPlayerId =>
               player[t] \in DOMAIN players /\ players[player[t]] = t
      BY <2>4 DEF LiveEntered
    <3>2. player[t] # player[current]
      BY <2>1, <2>4, <3>1 DEF IdsGiven
    <3>. QED
      BY <2>1, <3>1, <3>2 DEF Insert
  <2>. QED
    BY <2>3, <2>4
<1>7. ASSUME HandleMove PROVE LiveEntered'
  <2>1. ~Entering /\ UNCHANGED <<conn, player>> /\ FindObject(Head(arrived[current]).id)
    BY <1>7 DEF HandleMove, Entering
  <2>2. \A id \in DOMAIN players : id \in DOMAIN players' /\ players'[id] = players[id]
    BY <2>1 DEF FindObject, Insert
  <2>. QED
    BY <2>1, <2>2 DEF LiveEntered
<1>8. CASE /\ UNCHANGED <<conn, player, players, loop, current>>
  BY <1>8 DEF LiveEntered, Entering
<1>9. CASE \/ Broadcast \/ RegisterRecv \/ OnRecvReturns \/ UpdateMonster \/ UpdateReturns
           \/ \E s \in Sessions : ProcessRecv(s) \/ ProcessDisconnect(s)
  BY <1>1, <1>9 DEF Broadcast, RegisterRecv, OnRecvReturns, UpdateMonster, UpdateReturns,
     ProcessRecv, ProcessDisconnect, Entering
<1>10. CASE \E s \in Sessions :
              Arrive(s) \/ RecvEnd(s) \/ ClientReads(s) \/ \E i \in Infos : ClientMoves(s, i)
  BY <1>8, <1>10 DEF Arrive, RecvEnd, ClientReads, ClientMoves
<1>11. CASE UNCHANGED vars
  BY <1>8, <1>11
<1>. QED
  BY <1>2, <1>3, <1>4, <1>5, <1>6, <1>7, <1>9, <1>10, <1>11 DEF Next, Server, Network
-----------------------------------------------------------------------------
\* A server without sessions.
LEMMA InitInv == Init => IInv
<1>. SUFFICES ASSUME Init PROVE IInv
  OBVIOUS
<1>1. IdsGiven
  BY DEF Init, IdsGiven, Serving, Entering
<1>2. LiveEntered
  BY DEF Init, LiveEntered
<1>. QED
  BY <1>1, <1>2, TypeInit DEF IInv

\* IInv is inductive.
LEMMA InvStep == IInv /\ [Next]_vars => IInv'
BY TypeStep, IdsStep, LiveStep DEF IInv

\* The state of the server keeps its types: every id it uses is one it gave.
THEOREM TypeCorrect == Spec => []TypeOK
<1>1. IInv => TypeOK
  BY DEF IInv
<1>. QED
  BY <1>1, InitInv, InvStep, PTL DEF Spec

\* GameRoom.cpp:86-96, 135-157, 167-176: however connections break, a
\* connected player stays in the room, as long as the ids last.
THEOREM LiveStay == Spec => [](IdsLast => LivePlayersStay)
<1>1. IInv => (IdsLast => LivePlayersStay)
  <2>. SUFFICES ASSUME IInv, IdsLast, loop = "Dispatch", NEW s \in Sessions,
                       conn[s] = "connected"
                PROVE  player[s] \in DOMAIN players /\ players[player[s]] = s
    BY DEF LivePlayersStay
  <2>1. player[s] # NoPlayer
        /\ (player[s] <= MaxPlayerId => player[s] \in DOMAIN players /\ players[player[s]] = s)
    BY DEF IInv, LiveEntered, Entering
  <2>2. player[s] \in 1..nextId - 1 /\ nextId \in Nat
    BY <2>1 DEF IInv, IdsGiven, TypeOK
  <2>3. player[s] <= MaxPlayerId
    BY <2>2, GameRoomAssumption DEF IdsLast
  <2>. QED
    BY <2>1, <2>3
<1>. QED
  BY <1>1, InitInv, InvStep, PTL DEF Spec

-----------------------------------------------------------------------------
(* Connections that end in order.                                          *)

\* While the ids last, whoever is connected and not entering is in the room.
LEMMA InTheRoom ==
  ASSUME IInv, IdsLast, NEW s \in Sessions, conn[s] = "connected",
         ~(Entering /\ current = s)
  PROVE  /\ player[s] \in Nat /\ player[s] \in 1..MaxPlayerId
         /\ player[s] \in DOMAIN players /\ players[player[s]] = s
<1>1. player[s] # NoPlayer
      /\ (player[s] <= MaxPlayerId => player[s] \in DOMAIN players /\ players[player[s]] = s)
  BY DEF IInv, LiveEntered
<1>2. player[s] \in 1..nextId - 1 /\ nextId \in Nat
  BY <1>1 DEF IInv, IdsGiven, TypeOK
<1>3. player[s] \in 1..MaxPlayerId
  BY <1>2, GameRoomAssumption DEF IdsLast
<1>. QED
  BY <1>1, <1>3

\* An empty room is orderly.
LEMMA OrderlyInit == Init => OInv
<1>. SUFFICES ASSUME Init PROVE Orderly
  BY DEF OInv
<1>1. /\ \A s \in Sessions : Len(arrived[s]) = 0
      /\ \A s \in Sessions : Len(toServer[s]) = 0
  BY DEF Init
<1>. QED
  BY <1>1 DEF Init, Orderly, Serving

\* The order of an orderly end: the session leaves with its entry.
LEMMA OrderlyLeave ==
  ASSUME IInv, Orderly, ~Serving, NEW s \in Sessions, Disconnect(s), recv' = [recv EXCEPT ![s] = "none"],
         todo' = monsters,
         UNCHANGED <<arrived, player, monsters, current, undefined, toServer>>
  PROVE  Orderly'
<1>. USE DEF Serving
<1>1. loop' \in {"Update", "Broadcast"} /\ (loop' = "Broadcast" => after' = "Update")
  BY LeaveType DEF IInv
<1>2. sessions' = {t \in Sessions : conn'[t] = "connected"}
  <2>1. CASE conn[s] = "connected"
    <3>1. sessions' = sessions \ {s} /\ conn' = [conn EXCEPT ![s] = "closed"]
      BY <2>1 DEF Disconnect
    <3>2. \A t \in Sessions : conn'[t] = IF t = s THEN "closed" ELSE conn[t]
      BY <3>1 DEF IInv, TypeOK
    <3>. QED
      BY <3>1, <3>2 DEF Orderly
  <2>2. CASE conn[s] # "connected"
    BY <2>2 DEF Disconnect, Orderly
  <2>. QED
    BY <2>1, <2>2
<1>3. \A t \in Sessions : recv'[t] # "none" => conn'[t] = "connected" /\ player'[t] # NoPlayer
  BY DEF Disconnect, Orderly, IInv, TypeOK
<1>4. \A id \in DOMAIN players' : players'[id] \in sessions' /\ player'[players'[id]] = id
  <2>1. CASE conn[s] = "connected" /\ player[s] = NoPlayer
    <3>1. UNCHANGED players /\ sessions' = sessions \ {s}
      BY <2>1 DEF Disconnect, LeaveRoom
    <3>2. \A id \in DOMAIN players : players[id] # s
      BY <2>1, GameRoomAssumption DEF Orderly, IInv, TypeOK
    <3>. QED
      BY <3>1, <3>2 DEF Orderly
  <2>2. CASE conn[s] = "connected" /\ player[s] # NoPlayer
    <3>1. players' = Erase(players, player[s]) /\ sessions' = sessions \ {s}
      BY <2>2 DEF Disconnect, LeaveRoom
    <3>. QED
      BY <3>1 DEF Erase, Orderly
  <2>3. CASE conn[s] # "connected"
    BY <2>3 DEF Disconnect, Orderly
  <2>. QED
    BY <2>1, <2>2, <2>3
<1>. QED
  BY <1>1, <1>2, <1>3, <1>4 DEF Orderly

\* While connections end in order and the ids last, the room stays orderly.
LEMMA OrderlyStep ==
  ASSUME Faults = {}, IInv, OInv, [Next]_vars
  PROVE  OInv'
<1>. USE DEF vars, sessionVars, roomVars, loopVars, netVars, Running, Serving, Entering
<1>1. SUFFICES ASSUME IdsLast' PROVE Orderly'
  BY DEF OInv
<1>2. nextId' = nextId \/ nextId' = nextId + 1
  BY DEF Next, Server, Network, OnConnected, ProcessRecv, RecvZero, ProcessSend,
     ProcessDisconnect, EnterRoom, AddObject, Broadcast, RegisterRecv, HandleMove,
     OnRecvReturns, UpdateMonster, UpdateReturns, Arrive, RecvEnd, ClientReads, ClientMoves
<1>3. IdsLast
  <2>1. nextId \in Nat /\ MaxPlayerId \in Nat
    BY GameRoomAssumption DEF IInv, TypeOK
  <2>. QED
    BY <1>1, <1>2, <2>1 DEF IdsLast
<1>4. Orderly
  BY <1>3 DEF OInv
<1>5. CASE UNCHANGED vars
  BY <1>4, <1>5 DEF Orderly
<1>6. ASSUME NEW s \in Sessions, OnConnected(s) PROVE Orderly'
  <2>1. /\ conn' = [conn EXCEPT ![s] = "connected"] /\ sessions' = sessions \cup {s}
        /\ loop' = "EnterRoom" /\ current' = s /\ conn[s] = "none"
        /\ UNCHANGED <<recv, arrived, roomVars, message, after, todo, undefined, toServer>>
    BY <1>6 DEF OnConnected
  <2>2. \A t \in Sessions : conn'[t] = IF t = s THEN "connected" ELSE conn[t]
    BY <2>1 DEF IInv, TypeOK
  <2>. QED
    BY <1>4, <2>1, <2>2 DEF Orderly
<1>7. ASSUME NEW s \in Sessions, ProcessRecv(s) PROVE Orderly'
  <2>1. /\ recv[s] = "data" /\ recv' = [recv EXCEPT ![s] = "none"]
        /\ loop' = "OnRecv" /\ current' = s
        /\ UNCHANGED <<conn, sending, arrived, sessions, roomVars, message, after, todo,
                       undefined, netVars>>
    BY <1>7 DEF ProcessRecv
  <2>2. \A t \in Sessions : recv'[t] # "none" => recv[t] # "none"
    BY <2>1 DEF IInv, TypeOK
  <2>. QED
    BY <1>4, <2>1, <2>2 DEF Orderly
<1>8. ASSUME NEW s \in Sessions, RecvZero(s) PROVE Orderly'
  BY <1>4, <1>8, OrderlyLeave DEF RecvZero
<1>9. ASSUME NEW s \in Sessions, ProcessSend(s) PROVE Orderly'
  BY <1>4, <1>9 DEF ProcessSend, Orderly
<1>10. ASSUME NEW s \in Sessions, ProcessDisconnect(s) PROVE Orderly'
  BY <1>4, <1>10 DEF ProcessDisconnect, Orderly
<1>11. ASSUME EnterRoom PROVE Orderly'
  <2>1. /\ loop = "EnterRoom" /\ current \in Sessions /\ player[current] = NoPlayer
        /\ conn[current] = "connected"
    BY <1>4, <1>11 DEF EnterRoom, IInv, IdsGiven, Orderly
  <2>2. /\ player' = [player EXCEPT ![current] = nextId]
        /\ undefined' = (\E id \in DOMAIN players : players[id] = NoSession)
        /\ loop' = "AddObject"
        /\ UNCHANGED <<conn, recv, arrived, sessions, players, monsters, current,
                       message, after, todo, toServer>>
    BY <1>11 DEF EnterRoom
  <2>3. \A s \in Sessions : s # current => player'[s] = player[s]
    BY <2>2 DEF IInv, TypeOK
  <2>4. \A id \in DOMAIN players : players[id] # current /\ players[id] # NoSession
                                   /\ players[id] \in Sessions
    BY <1>4, <2>1, GameRoomAssumption DEF Orderly, IInv, TypeOK
  <2>5. \A id \in DOMAIN players' : players'[id] \in sessions' /\ player'[players'[id]] = id
    BY <1>4, <2>2, <2>3, <2>4 DEF Orderly
  <2>6. ~undefined'
    BY <2>2, <2>4
  <2>7. \A s \in Sessions : recv'[s] # "none" => conn'[s] = "connected" /\ player'[s] # NoPlayer
    <3>1. recv[current] = "none"
      BY <1>4, <2>1 DEF Orderly
    <3>. QED
      BY <1>4, <2>2, <2>3, <3>1 DEF Orderly
  <2>8. Len(arrived[current]) = 0 /\ Len(toServer[current]) = 0
    <3>1. /\ arrived[current] \in Seq([id : Nat, info : Infos])
          /\ toServer[current] \in Seq([id : Nat, info : Infos])
      BY <2>1 DEF IInv, TypeOK
    <3>2. /\ \A k \in 1..Len(arrived[current]) : FALSE
          /\ \A k \in 1..Len(toServer[current]) : FALSE
      <4>1. /\ \A k \in 1..Len(arrived[current]) : arrived[current][k] \in [id : Nat, info : Infos]
            /\ \A k \in 1..Len(toServer[current]) : toServer[current][k] \in [id : Nat, info : Infos]
        BY <3>1, ElementOfSeq, Zenon
      <4>. QED
        BY <1>4, <2>1, <4>1, GameRoomAssumption DEF Orderly
    <3>3. Len(arrived[current]) \in Nat /\ Len(toServer[current]) \in Nat
      BY <3>1, LenProperties, Zenon
    <3>. QED
      BY <3>2, <3>3
  <2>9. /\ \A s \in Sessions : \A k \in 1..Len(arrived'[s]) : arrived'[s][k].id = player'[s]
        /\ \A s \in Sessions : \A k \in 1..Len(toServer'[s]) : toServer'[s][k].id = player'[s]
    BY <1>4, <2>2, <2>3, <2>8 DEF Orderly
  <2>. QED
    BY <1>4, <2>1, <2>2, <2>5, <2>6, <2>7, <2>9 DEF Orderly
<1>12. ASSUME AddObject PROVE Orderly'
  <2>1. /\ loop = "AddObject" /\ current \in Sessions /\ player[current] # NoPlayer
        /\ conn[current] = "connected"
    BY <1>4, <1>12 DEF AddObject, IInv, IdsGiven, Orderly
  <2>2. player[current] \in 1..MaxPlayerId
    <3>1. player[current] \in 1..nextId - 1 /\ nextId \in Nat
      BY <2>1 DEF IInv, IdsGiven, TypeOK
    <3>. QED
      BY <1>3, <3>1, GameRoomAssumption DEF IdsLast
  <2>3. /\ players' = Insert(players, player[current], current) /\ UNCHANGED monsters
        /\ loop' = "Broadcast"
        /\ UNCHANGED <<sessionVars, player, info, nextId, current, todo, undefined, netVars>>
    BY <1>12, <2>2 DEF AddObject, StartBroadcast
  <2>4. \A id \in DOMAIN players' : players'[id] \in sessions' /\ player'[players'[id]] = id
    BY <1>4, <2>1, <2>3 DEF Orderly, Insert
  <2>. QED
    BY <1>4, <2>1, <2>3, <2>4 DEF Orderly
<1>13. ASSUME Broadcast PROVE Orderly'
  <2>1. /\ loop' = after
        /\ undefined' = (\E id \in DOMAIN players : players[id] = NoSession)
        /\ UNCHANGED <<conn, recv, arrived, sessions, roomVars, current, message,
                       after, todo, toServer, changes>>
    BY <1>13 DEF Broadcast
  <2>2. ~undefined'
    BY <1>4, <2>1, GameRoomAssumption DEF Orderly, IInv, TypeOK
  <2>3. Serving' => Serving
    BY <1>13, <2>1 DEF Broadcast, IInv, TypeOK
  <2>. QED
    BY <1>4, <2>1, <2>2, <2>3 DEF Orderly
<1>14. ASSUME RegisterRecv PROVE Orderly'
  <2>1. /\ loop = "RegisterRecv" /\ current \in Sessions /\ conn[current] = "connected"
    BY <1>4, <1>14 DEF RegisterRecv, IInv, IdsGiven, Orderly
  <2>2. player[current] \in Nat
    BY <1>3, <2>1, InTheRoom
  <2>3. /\ recv' = [recv EXCEPT ![current] = "posted"]
        /\ loop' = "Update" /\ todo' = monsters
        /\ UNCHANGED <<conn, sending, arrived, sessions, roomVars, message, after, undefined, netVars>>
    BY <1>14, <2>1 DEF RegisterRecv
  <2>4. \A s \in Sessions : recv'[s] # "none" => conn'[s] = "connected" /\ player'[s] # NoPlayer
    BY <1>4, <2>1, <2>2, <2>3, GameRoomAssumption DEF Orderly, IInv, TypeOK
  <2>. QED
    BY <1>4, <2>3, <2>4 DEF Orderly
<1>15. ASSUME HandleMove PROVE Orderly'
  <2>1. /\ loop = "OnRecv" /\ current \in Sessions /\ conn[current] = "connected"
        /\ arrived[current] # <<>>
    BY <1>4, <1>15 DEF HandleMove, IInv, IdsGiven, Orderly
  <2>2. arrived[current] \in Seq([id : Nat, info : Infos])
    BY <2>1 DEF IInv, TypeOK
  <2>3. /\ Len(arrived[current]) \in Nat /\ Len(arrived[current]) > 0
        /\ Head(arrived[current]) = arrived[current][1]
        /\ Len(Tail(arrived[current])) = Len(arrived[current]) - 1
        /\ \A k \in 1..Len(Tail(arrived[current])) :
             Tail(arrived[current])[k] = arrived[current][k + 1]
    BY <2>1, <2>2, NonEmptySeq
  <2>4. Head(arrived[current]).id = player[current]
    BY <1>4, <2>1, <2>3 DEF Orderly
  <2>5. player[current] \in DOMAIN players
    BY <1>3, <2>1, InTheRoom
  <2>6. UNCHANGED players
    BY <1>15, <2>4, <2>5 DEF HandleMove, FindObject
  <2>7. /\ arrived' = [arrived EXCEPT ![current] = Tail(@)]
        /\ loop' \in {"Broadcast", "OnRecv"}
        /\ UNCHANGED <<conn, recv, sessions, player, monsters, current, todo, undefined, toServer>>
    BY <1>15 DEF HandleMove, StartBroadcast
  <2>8. \A s \in Sessions : \A k \in 1..Len(arrived'[s]) : arrived'[s][k].id = player'[s]
    <3>. SUFFICES ASSUME NEW s \in Sessions, NEW k \in 1..Len(arrived'[s])
                  PROVE  arrived'[s][k].id = player[s]
      BY <2>7
    <3>1. CASE s = current
      <4>1. arrived'[s] = Tail(arrived[current])
        BY <2>7, <3>1 DEF IInv, TypeOK
      <4>2. k + 1 \in 1..Len(arrived[current]) /\ arrived'[s][k] = arrived[current][k + 1]
        BY <2>3, <4>1
      <4>. QED
        BY <1>4, <3>1, <4>2 DEF Orderly
    <3>2. CASE s # current
      <4>1. arrived'[s] = arrived[s]
        BY <2>7, <3>2 DEF IInv, TypeOK
      <4>. QED
        BY <1>4, <4>1 DEF Orderly
    <3>. QED
      BY <3>1, <3>2
  <2>. QED
    BY <1>4, <2>1, <2>6, <2>7, <2>8 DEF Orderly
<1>16. ASSUME OnRecvReturns PROVE Orderly'
  BY <1>4, <1>16 DEF OnRecvReturns, Orderly
<1>17. ASSUME UpdateMonster PROVE Orderly'
  <2>1. /\ todo' \subseteq todo /\ (todo \subseteq MonsterIds => ~undefined')
        /\ loop' = "Update" \/ (loop' = "Broadcast" /\ after' = "Update")
        /\ UNCHANGED <<sessionVars, player, players, monsters, nextId, current, toServer>>
    BY <1>17 DEF UpdateMonster, StartBroadcast
  <2>. QED
    BY <1>4, <2>1 DEF Orderly
<1>18. ASSUME UpdateReturns PROVE Orderly'
  BY <1>4, <1>18 DEF UpdateReturns, Orderly
<1>19. ASSUME NEW s \in Sessions, Arrive(s) PROVE Orderly'
  <2>1. PICK n \in 1..Len(toServer[s]) :
          /\ arrived' = [arrived EXCEPT ![s] = SubSeq(toServer[s], 1, n)]
          /\ toServer' = [toServer EXCEPT ![s] = SubSeq(toServer[s], n + 1, Len(toServer[s]))]
    BY <1>19 DEF Arrive
  <2>2. toServer[s] \in Seq([id : Nat, info : Infos])
    BY DEF IInv, TypeOK
  <2>3. /\ Len(SubSeq(toServer[s], 1, n)) = n
        /\ \A k \in 1..n : SubSeq(toServer[s], 1, n)[k] = toServer[s][k]
        /\ Len(SubSeq(toServer[s], n + 1, Len(toServer[s]))) = Len(toServer[s]) - n
        /\ \A k \in 1..Len(toServer[s]) - n :
             SubSeq(toServer[s], n + 1, Len(toServer[s]))[k] = toServer[s][n + k]
    BY <2>2, Cut
  <2>4. Len(toServer[s]) \in Nat
    BY <2>2, LenProperties, Zenon
  <2>5. UNCHANGED <<conn, sessions, player, players, monsters, loop, current, after, todo,
                    undefined>>
    BY <1>19 DEF Arrive
  <2>6. \A t \in Sessions : recv'[t] # "none" => recv[t] # "none"
    BY <1>19 DEF Arrive, IInv, TypeOK
  <2>7. \A t \in Sessions : \A k \in 1..Len(arrived'[t]) : arrived'[t][k].id = player[t]
    <3>1. \A t \in Sessions : t # s => arrived'[t] = arrived[t]
      BY <2>1 DEF IInv, TypeOK
    <3>2. arrived'[s] = SubSeq(toServer[s], 1, n)
      BY <2>1 DEF IInv, TypeOK
    <3>3. \A k \in 1..n : toServer[s][k].id = player[s]
      BY <1>4, <2>4 DEF Orderly
    <3>4. \A k \in 1..Len(arrived'[s]) : arrived'[s][k].id = player[s]
      BY <2>3, <3>2, <3>3
    <3>. QED
      BY <1>4, <3>1, <3>4 DEF Orderly
  <2>8. \A t \in Sessions : \A k \in 1..Len(toServer'[t]) : toServer'[t][k].id = player[t]
    <3>1. \A t \in Sessions : t # s => toServer'[t] = toServer[t]
      BY <2>1 DEF IInv, TypeOK
    <3>2. toServer'[s] = SubSeq(toServer[s], n + 1, Len(toServer[s]))
      BY <2>1 DEF IInv, TypeOK
    <3>3. ASSUME NEW k \in 1..Len(toServer[s]) - n
          PROVE  toServer[s][n + k].id = player[s]
      <4>1. n + k \in 1..Len(toServer[s])
        BY <2>4
      <4>. QED
        BY <1>4, <4>1 DEF Orderly
    <3>4. \A k \in 1..Len(toServer'[s]) : toServer'[s][k].id = player[s]
      <4>1. Len(toServer'[s]) = Len(toServer[s]) - n
        BY <2>3, <3>2
      <4>2. \A k \in 1..Len(toServer[s]) - n : toServer'[s][k] = toServer[s][n + k]
        BY <2>3, <3>2
      <4>. QED
        BY <3>3, <4>1, <4>2
    <3>. QED
      BY <1>4, <3>1, <3>4 DEF Orderly
  <2>. QED
    BY <1>4, <2>5, <2>6, <2>7, <2>8 DEF Orderly
<1>20. ASSUME NEW s \in Sessions, RecvEnd(s) PROVE Orderly'
  <2>1. \A t \in Sessions : recv'[t] # "none" => recv[t] # "none"
    BY <1>20 DEF RecvEnd, IInv, TypeOK
  <2>. QED
    BY <1>4, <1>20, <2>1 DEF RecvEnd, Orderly
<1>21. ASSUME NEW s \in Sessions, ClientReads(s) PROVE Orderly'
  BY <1>4, <1>21 DEF ClientReads, Orderly
<1>22. ASSUME NEW s \in Sessions, NEW i \in Infos, ClientMoves(s, i) PROVE Orderly'
  <2>1. toServer[s] \in Seq([id : Nat, info : Infos])
    BY DEF IInv, TypeOK
  <2>2. toServer' = [toServer EXCEPT ![s] = Append(toServer[s], [id |-> player[s], info |-> i])]
    BY <1>22 DEF ClientMoves
  <2>3. /\ Len(Append(toServer[s], [id |-> player[s], info |-> i])) = Len(toServer[s]) + 1
        /\ \A k \in 1..Len(toServer[s]) :
             Append(toServer[s], [id |-> player[s], info |-> i])[k] = toServer[s][k]
        /\ Append(toServer[s], [id |-> player[s], info |-> i])[Len(toServer[s]) + 1].id = player[s]
    BY <2>1, Appended
  <2>4. \A t \in Sessions : \A k \in 1..Len(toServer'[t]) : toServer'[t][k].id = player[t]
    <3>1. \A t \in Sessions : t # s => toServer'[t] = toServer[t]
      BY <2>2 DEF IInv, TypeOK
    <3>2. toServer'[s] = Append(toServer[s], [id |-> player[s], info |-> i])
      BY <2>2 DEF IInv, TypeOK
    <3>3. Len(toServer[s]) \in Nat
      BY <2>1, LenProperties, Zenon
    <3>4. \A k \in 1..Len(toServer'[s]) : toServer'[s][k].id = player[s]
      <4>. SUFFICES ASSUME NEW k \in 1..Len(toServer[s]) + 1
                    PROVE  toServer'[s][k].id = player[s]
        BY <2>3, <3>2
      <4>1. CASE k = Len(toServer[s]) + 1
        BY <2>3, <3>2, <4>1
      <4>2. CASE k \in 1..Len(toServer[s])
        BY <1>4, <2>3, <3>2, <4>2 DEF Orderly
      <4>. QED
        BY <3>3, <4>1, <4>2
    <3>. QED
      BY <1>4, <3>1, <3>4 DEF Orderly
  <2>. QED
    BY <1>4, <1>22, <2>4 DEF ClientMoves, Orderly
<1>. QED
  BY <1>5, <1>6, <1>7, <1>8, <1>9, <1>10, <1>11, <1>12, <1>13, <1>14, <1>15, <1>16, <1>17,
     <1>18, <1>19, <1>20, <1>21, <1>22 DEF Next, Server, Network

\* GameRoom.cpp:98-176, GameSession.cpp:7-23: while connections end in order and
\* the ids last, the room is the players of the connected sessions, nothing
\* undefined is done, and monsters are monsters.
THEOREM OrderlyRoom ==
  ASSUME Faults = {}
  PROVE  Spec => [](IdsLast => /\ RoomIsSessions /\ NoUndefined
                               /\ NoNullPlayer /\ MonstersAreMonsters)
<1>1. IInv /\ OInv => (IdsLast => /\ RoomIsSessions /\ NoUndefined
                                  /\ NoNullPlayer /\ MonstersAreMonsters)
  <2>. SUFFICES ASSUME IInv, IdsLast, Orderly
                PROVE  RoomIsSessions /\ NoUndefined /\ NoNullPlayer /\ MonstersAreMonsters
    BY DEF OInv
  <2>1. RoomIsSessions
    BY InTheRoom DEF RoomIsSessions, Orderly, Entering
  <2>2. NoNullPlayer
    BY GameRoomAssumption DEF NoNullPlayer, Orderly, IInv, TypeOK
  <2>. QED
    BY <2>1, <2>2 DEF Orderly, NoUndefined, MonstersAreMonsters
<1>2. IInv /\ OInv /\ [Next]_vars => OInv'
  BY OrderlyStep
<1>. QED
  BY <1>1, <1>2, InitInv, InvStep, OrderlyInit, PTL DEF Spec

-----------------------------------------------------------------------------
(* No more connections than ids.                                           *)

\* An id that was given has a session.
IdsHeld == \A n \in 1..nextId - 1 : \E s \in Sessions : player[s] = n

LEMMA IdsHeldStep ==
  ASSUME IInv, IdsHeld, [Next]_vars
  PROVE  IdsHeld'
<1>. USE DEF vars, sessionVars, roomVars, loopVars, netVars, Running
<1>1. CASE EnterRoom
  <2>1. /\ current \in Sessions /\ player[current] = NoPlayer
        /\ player' = [player EXCEPT ![current] = nextId] /\ nextId' = nextId + 1
        /\ player \in [Sessions -> Nat \cup {NoPlayer}] /\ nextId \in Nat \ {0}
    BY <1>1 DEF EnterRoom, IInv, IdsGiven, Serving, TypeOK
  <2>2. ASSUME NEW n \in 1..nextId' - 1 PROVE \E s \in Sessions : player'[s] = n
    <3>1. CASE n = nextId
      BY <2>1, <3>1
    <3>2. CASE n # nextId
      <4>1. n \in 1..nextId - 1 /\ n \in Nat
        BY <2>1, <2>2, <3>2
      <4>2. PICK s \in Sessions : player[s] = n
        BY <4>1 DEF IdsHeld
      <4>3. s # current
        BY <2>1, <4>1, <4>2, GameRoomAssumption
      <4>. QED
        BY <2>1, <4>2, <4>3
    <3>. QED
      BY <3>1, <3>2
  <2>. QED
    BY <2>2 DEF IdsHeld
<1>2. CASE UNCHANGED <<player, nextId>>
  BY <1>2 DEF IdsHeld
<1>3. ASSUME Next, ~EnterRoom PROVE UNCHANGED <<player, nextId>>
  BY <1>3 DEF Next, Server, Network, OnConnected, ProcessRecv, RecvZero, ProcessSend,
     ProcessDisconnect, AddObject, Broadcast, RegisterRecv, HandleMove, OnRecvReturns,
     UpdateMonster, UpdateReturns, Arrive, RecvEnd, ClientReads, ClientMoves
<1>. QED
  BY <1>1, <1>2, <1>3

LEMMA IdsSuffice ==
  ASSUME IsFiniteSet(Sessions), Cardinality(Sessions) <= MaxPlayerId, IInv, IdsHeld
  PROVE  IdsLast
<1>. DEFINE Named == {s \in Sessions : player[s] # NoPlayer}
            ids == [s \in Named |-> player[s]]
<1>1. nextId \in Nat \ {0} /\ MaxPlayerId \in Nat
  BY GameRoomAssumption DEF IInv, TypeOK
<1>2. \A s \in Named : player[s] \in 1..nextId - 1
  BY DEF IInv, IdsGiven
<1>3. \A n \in 1..nextId - 1 : \E s \in Named : player[s] = n
  BY <1>1, GameRoomAssumption DEF IdsHeld
<1>4. ids \in Surjection(Named, 1..nextId - 1)
  BY <1>2, <1>3 DEF Surjection
<1>5. IsFiniteSet(Named) /\ Cardinality(Named) <= Cardinality(Sessions)
  BY FS_Subset
<1>. HIDE DEF Named, ids
<1>6. Cardinality(1..nextId - 1) <= Cardinality(Named)
  BY <1>4, <1>5, FS_Surjection DEF ExistsSurjection
<1>7. nextId - 1 \in Nat /\ Cardinality(1..nextId - 1) = nextId - 1
  BY <1>1, FS_Interval
<1>8. Cardinality(Named) \in Nat /\ Cardinality(Sessions) \in Nat
  BY <1>5, FS_CardinalityType
<1>. QED
  BY <1>1, <1>5, <1>6, <1>7, <1>8 DEF IdsLast

LEMMA IdsLastAlways ==
  ASSUME IsFiniteSet(Sessions), Cardinality(Sessions) <= MaxPlayerId
  PROVE  Spec => []IdsLast
<1>1. Init => IdsHeld
  BY DEF Init, IdsHeld
<1>2. IInv /\ IdsHeld /\ [Next]_vars => IdsHeld'
  BY IdsHeldStep
<1>3. IInv /\ IdsHeld => IdsLast
  BY IdsSuffice
<1>. QED
  BY <1>1, <1>2, <1>3, InitInv, InvStep, PTL DEF Spec

\* GameRoom.cpp:36-39, 161-164: a server that never meets more connections than
\* there are ids for players, all of which end in order, never advances an
\* erased iterator, meets a null player or takes a player for a monster.
THEOREM NothingUndefined ==
  ASSUME IsFiniteSet(Sessions), Cardinality(Sessions) <= MaxPlayerId, Faults = {}
  PROVE  Spec => []NoUndefined
BY IdsLastAlways, OrderlyRoom, PTL

\* GameRoom.cpp:86-96, 135-157, 167-176: on such a server, however connections
\* break, only its own session takes a connected player out of the room.
THEOREM EveryoneStays ==
  ASSUME IsFiniteSet(Sessions), Cardinality(Sessions) <= MaxPlayerId
  PROVE  Spec => []LivePlayersStay
BY IdsLastAlways, LiveStay, PTL

-----------------------------------------------------------------------------
(* Replication: what the room and the clients agree on.                    *)

Packets ==
  [type : {"S_EnterGame"}]
    \cup [type : {"S_MyPlayer", "S_Move"}, id : Nat, info : Infos]
    \cup [type : {"S_AddObject"}, objects : UNION {[I -> Infos] : I \in SUBSET Nat}]
    \cup [type : {"S_RemoveObject"}, id : Nat]

News(s) == DOMAIN toClient[s]

AddedAt(s, k, id) ==
  toClient[s][k].type = "S_AddObject" /\ id \in DOMAIN toClient[s][k].objects

\* The client has the object, or a packet on the way adds it.
Told(s, id) == id \in DOMAIN client[s].copies \/ \E k \in News(s) : AddedAt(s, k, id)

\* The object that the room is about to announce.
Announcing == loop = "AddObject" \/ (loop = "Broadcast" /\ message.type = "S_AddObject")

\* What goes to a client is a packet.
Posted ==
  /\ toClient \in [Sessions -> Seq(Packets)]
  /\ loop = "Broadcast" =>
       /\ message \in Packets
       /\ message.type \in {"S_AddObject", "S_RemoveObject", "S_Move"}
       /\ message.type = "S_AddObject" =>
            current \in Sessions /\ DOMAIN message.objects = {player[current]}

\* A client keeps the fields it began with.
Fields == DOMAIN client = Sessions /\ \A s \in Sessions : DOMAIN client[s] = DOMAIN NewScene

\* The room files everything under the id of its session.
Keyed ==
  /\ \A s \in Sessions : \A k \in 1 .. Len(toServer[s]) : toServer[s][k].id = player[s]
  /\ \A s \in Sessions : \A k \in 1 .. Len(arrived[s]) : arrived[s][k].id = player[s]
  /\ DOMAIN players \subseteq 1 .. nextId - 1
  /\ \A id \in DOMAIN players : players[id] # NoSession => player[players[id]] = id
  /\ monsters = MonsterIds /\ todo \subseteq MonsterIds
  /\ loop = "AddObject" => player[current] \notin DOMAIN players

\* A client is told once which player is its own.
Mine(s) ==
  /\ client[s].my \in {NoPlayer, player[s]}
  /\ \A k \in News(s) : toClient[s][k].type = "S_MyPlayer" =>
       /\ toClient[s][k].id = player[s] /\ client[s].my = NoPlayer
       /\ \A j \in News(s) : toClient[s][j].type = "S_MyPlayer" => j = k

\* A client is told of an object once, and not before the room announces it.
AddedOnce(s) ==
  /\ DOMAIN client[s].copies \subseteq Nat
  /\ \A id \in Nat : Told(s, id) =>
       /\ id \in 1 .. nextId - 1 \cup MonsterIds
       /\ player[s] # NoPlayer
       /\ Announcing => id # player[current]
  /\ \A id \in Nat : \A k \in News(s) : AddedAt(s, k, id) =>
       /\ id \notin DOMAIN client[s].copies
       /\ \A j \in News(s) : AddedAt(s, j, id) => j = k

\* One actor for each copy.
Single(copies) == \A id \in DOMAIN copies : copies[id] = <<copies[id][1]>>

\* A client has one actor for a copy, and none for its own player.
Copied(s) ==
  /\ Single(client[s].copies)
  /\ client[s].my \notin DOMAIN client[s].copies
  /\ client[s].my = NoPlayer => DOMAIN client[s].copies \cap 1 .. MaxPlayerId = {}

\* A step of a client that only counts a change, which is none of the room's.
Counts ==
  /\ UNCHANGED <<sessionVars, roomVars, loopVars, toClient, toServer>>
  /\ changes' \in 0 .. MaxChanges

RoomStep == [Next]_vars \/ Counts

RInv ==
  /\ Posted /\ Fields /\ Keyed
  /\ \A s \in Sessions : Mine(s) /\ AddedOnce(s) /\ Copied(s)

\* How a packet is made ...
LEMMA PacketsMade ==
  /\ [type |-> "S_EnterGame"] \in Packets
  /\ \A id \in Nat, i \in Infos :
       /\ [type |-> "S_MyPlayer", id |-> id, info |-> i] \in Packets
       /\ [type |-> "S_Move", id |-> id, info |-> i] \in Packets
  /\ \A id \in Nat : [type |-> "S_RemoveObject", id |-> id] \in Packets
  /\ \A I \in SUBSET Nat : \A f \in [I -> Infos] :
       [type |-> "S_AddObject", objects |-> f] \in Packets
<1>1. \A I \in SUBSET Nat : \A f \in [I -> Infos] :
        [type |-> "S_AddObject", objects |-> f] \in Packets
  <2>. SUFFICES ASSUME NEW I \in SUBSET Nat, NEW f \in [I -> Infos]
                PROVE  [type |-> "S_AddObject", objects |-> f] \in Packets
    OBVIOUS
  <2>1. f \in UNION {[J -> Infos] : J \in SUBSET Nat}
    OBVIOUS
  <2>. QED
    BY <2>1 DEF Packets
<1>. QED
  BY <1>1 DEF Packets

\* ... and what it holds.
LEMMA PacketHolds ==
  ASSUME NEW p \in Packets
  PROVE  /\ p.type \in {"S_EnterGame", "S_MyPlayer", "S_Move", "S_AddObject", "S_RemoveObject"}
         /\ p.type \in {"S_MyPlayer", "S_Move"} => p.id \in Nat /\ p.info \in Infos
         /\ p.type = "S_RemoveObject" => p.id \in Nat
         /\ p.type = "S_AddObject" => /\ DOMAIN p.objects \subseteq Nat
                                      /\ \A id \in DOMAIN p.objects : p.objects[id] \in Infos
BY DEF Packets

LEMMA NewFields == DOMAIN NewScene = {"scene", "my", "own", "dirty", "copies", "undefined"}
BY DEF NewScene

\* What Handle_S_AddObject spawns.
New(c, p) == (DOMAIN p.objects \cap (1 .. MaxPlayerId \cup MonsterIds)) \ {c.my}

\* How it leaves the client.
Added(c, p, d) ==
  /\ DOMAIN d = DOMAIN NewScene /\ d.my = c.my /\ d.scene = c.scene
  /\ IF c.scene # "game" THEN d = c
     ELSE IF c.my = NoPlayer /\ DOMAIN p.objects \cap 1 .. MaxPlayerId # {}
       THEN d.copies = c.copies /\ d.undefined = TRUE
     ELSE /\ d.undefined = c.undefined
          /\ DOMAIN d.copies = DOMAIN c.copies \cup New(c, p)
          /\ \A id \in DOMAIN c.copies \ New(c, p) : d.copies[id] = c.copies[id]
          /\ \A id \in New(c, p) \ DOMAIN c.copies : d.copies[id] = <<p.objects[id]>>

LEMMA AddHandled ==
  ASSUME NEW c, DOMAIN c = DOMAIN NewScene, NEW p \in Packets, p.type = "S_AddObject",
         Single(c.copies)
  PROVE  Added(c, p, HandlePacket(c, p))
<1>. DEFINE k == [id \in DOMAIN c.copies \cup New(c, p) |->
                    (IF id \in DOMAIN c.copies THEN c.copies[id] ELSE <<>>)
                    \o (IF id \in New(c, p) THEN <<p.objects[id]>> ELSE <<>>)]
<1>1. HandlePacket(c, p) = Handle_S_AddObject(c, p)
  BY DEF HandlePacket
<1>2. Handle_S_AddObject(c, p) =
        IF c.scene # "game" THEN c
        ELSE IF c.my = NoPlayer /\ DOMAIN p.objects \cap 1 .. MaxPlayerId # {}
          THEN [c EXCEPT !.undefined = TRUE]
        ELSE [c EXCEPT !.copies = k]
  BY DEF Handle_S_AddObject, New, Crashed
<1>3. DOMAIN k = DOMAIN c.copies \cup New(c, p)
  OBVIOUS
<1>4. \A id \in DOMAIN c.copies \ New(c, p) : k[id] = c.copies[id]
  <2>. SUFFICES ASSUME NEW id \in DOMAIN c.copies \ New(c, p)
                PROVE  k[id] = c.copies[id]
    OBVIOUS
  <2>1. k[id] = c.copies[id] \o <<>> /\ c.copies[id] = <<c.copies[id][1]>>
    BY DEF Single
  <2>2. \A x : <<x>> \o <<>> = <<x>>
    OBVIOUS
  <2>. QED
    BY <2>1, <2>2
<1>5. \A id \in New(c, p) \ DOMAIN c.copies : k[id] = <<p.objects[id]>>
  <2>1. \A x : <<>> \o <<x>> = <<x>>
    OBVIOUS
  <2>. QED
    BY <2>1
<1>. HIDE DEF k
<1>6. CASE c.scene # "game"
  BY <1>1, <1>2, <1>6 DEF Added
<1>7. CASE c.scene = "game" /\ c.my = NoPlayer /\ DOMAIN p.objects \cap 1 .. MaxPlayerId # {}
  <2>1. HandlePacket(c, p) = [c EXCEPT !.undefined = TRUE]
    BY <1>1, <1>2, <1>7
  <2>. QED
    BY <1>7, <2>1, NewFields DEF Added
<1>8. CASE c.scene = "game" /\ ~(c.my = NoPlayer /\ DOMAIN p.objects \cap 1 .. MaxPlayerId # {})
  <2>1. HandlePacket(c, p) = [c EXCEPT !.copies = k]
    BY <1>1, <1>2, <1>8
  <2>2. HandlePacket(c, p).copies = k
    BY <2>1, NewFields
  <2>. QED
    BY <1>3, <1>4, <1>5, <1>8, <2>1, <2>2, NewFields DEF Added
<1>. QED
  BY <1>6, <1>7, <1>8

\* A removal erases the copy it names.
Erased(c, p, d) ==
  /\ DOMAIN d = DOMAIN NewScene /\ d.my = c.my /\ d.scene = c.scene
  /\ IF p.id \notin DOMAIN c.copies THEN d.copies = c.copies /\ d.undefined = TRUE
     ELSE d.copies = Erase(c.copies, p.id) /\ d.undefined = c.undefined

LEMMA RemoveHandled ==
  ASSUME NEW c, DOMAIN c = DOMAIN NewScene, NEW p \in Packets, p.type = "S_RemoveObject",
         Single(c.copies)
  PROVE  Erased(c, p, HandlePacket(c, p))
<1>1. HandlePacket(c, p) = Handle_S_RemoveObject(c, p)
  BY DEF HandlePacket
<1>2. p.id \in DOMAIN c.copies => Len(c.copies[p.id]) = 1
  <2>1. \A x : Len(<<x>>) = 1
    OBVIOUS
  <2>. QED
    BY <2>1 DEF Single
<1>. QED
  BY <1>1, <1>2, NewFields DEF Erased, Handle_S_RemoveObject, Crashed

\* A move changes the one copy it names.
Moved(c, p, d) ==
  /\ DOMAIN d = DOMAIN NewScene /\ d.my = c.my /\ d.scene = c.scene
  /\ DOMAIN d.copies = DOMAIN c.copies
  /\ IF c.scene # "game" \/ c.my = p.id THEN d = c
     ELSE IF c.my = NoPlayer \/ p.id \notin DOMAIN c.copies
       THEN d.copies = c.copies /\ d.undefined = TRUE
     ELSE /\ d.undefined = c.undefined
          /\ d.copies[p.id] = <<p.info>>
          /\ \A id \in DOMAIN c.copies \ {p.id} : d.copies[id] = c.copies[id]

LEMMA MoveHandled ==
  ASSUME NEW c, DOMAIN c = DOMAIN NewScene, NEW p \in Packets, p.type = "S_Move",
         Single(c.copies)
  PROVE  Moved(c, p, HandlePacket(c, p))
<1>. USE DEF Moved
<1>1. HandlePacket(c, p) = Handle_S_Move(c, p)
  BY DEF HandlePacket
<1>2. CASE c.scene # "game" \/ c.my = p.id
  BY <1>1, <1>2, NewFields DEF Handle_S_Move
<1>3. CASE ~(c.scene # "game" \/ c.my = p.id) /\ (c.my = NoPlayer \/ p.id \notin DOMAIN c.copies)
  BY <1>1, <1>3, NewFields DEF Handle_S_Move, Crashed
<1>4. CASE ~(c.scene # "game" \/ c.my = p.id) /\ ~(c.my = NoPlayer \/ p.id \notin DOMAIN c.copies)
  <2>1. HandlePacket(c, p) = [c EXCEPT !.copies[p.id][1] = p.info]
    BY <1>1, <1>4 DEF Handle_S_Move
  <2>2. [c.copies[p.id] EXCEPT ![1] = p.info] = <<p.info>>
    <3>1. \A x, y : [<<x>> EXCEPT ![1] = y] = <<y>>
      OBVIOUS
    <3>. QED
      BY <1>4, <3>1 DEF Single
  <2>. QED
    BY <1>4, <2>1, <2>2, NewFields
<1>. QED
  BY <1>2, <1>3, <1>4

LEMMA OtherHandled ==
  ASSUME NEW c, DOMAIN c = DOMAIN NewScene, NEW p \in Packets,
         p.type \in {"S_EnterGame", "S_MyPlayer"}
  PROVE  LET d == HandlePacket(c, p)
         IN /\ DOMAIN d = DOMAIN NewScene /\ d.scene = c.scene /\ d.copies = c.copies
            /\ d.undefined = c.undefined
            /\ d.my = IF p.type = "S_MyPlayer" /\ c.scene = "game" THEN p.id ELSE c.my
<1>1. HandlePacket(c, p) = IF p.type = "S_MyPlayer" THEN Handle_S_MyPlayer(c, p) ELSE c
  BY DEF HandlePacket
<1>. QED
  BY <1>1, NewFields DEF Handle_S_MyPlayer

-----------------------------------------------------------------------------
LEMMA CountsKeeps ==
  ASSUME IInv, Counts
  PROVE  IInv' /\ (IdsHeld => IdsHeld') /\ (IdsLast => IdsLast') /\ (Orderly => Orderly')
<1>. USE DEF Counts, sessionVars, roomVars, loopVars
<1>1. TypeOK'
  BY DEF IInv, TypeOK
<1>2. IdsGiven'
  BY DEF IInv, IdsGiven, Serving, Entering
<1>3. LiveEntered'
  BY DEF IInv, LiveEntered, Entering
<1>. QED
  BY <1>1, <1>2, <1>3 DEF IInv, IdsHeld, IdsLast, Orderly, Serving

LEMMA RoomStepKeeps ==
  ASSUME IInv, IdsHeld, RoomStep
  PROVE  IInv' /\ IdsHeld'
BY CountsKeeps, InvStep, IdsHeldStep DEF RoomStep

LEMMA Element ==
  ASSUME NEW S, NEW q \in Seq(S), NEW k \in 1 .. Len(q)
  PROVE  q[k] \in S
OBVIOUS

\* One more entry in the room, under the id of its session or of nobody.
LEMMA InsertKeyed ==
  ASSUME Keyed, NEW id \in 1 .. nextId - 1, NEW s,
         s # NoSession => player[s] = id, players' = Insert(players, id, s)
  PROVE  /\ DOMAIN players' \subseteq 1 .. nextId - 1
         /\ \A k \in DOMAIN players' : players'[k] # NoSession => player[players'[k]] = k
<1>1. /\ DOMAIN players' = DOMAIN players \cup {id} /\ players'[id] = s
      /\ \A x \in DOMAIN players : x # id => players'[x] = players[x]
  BY DEF Insert
<1>2. /\ DOMAIN players \subseteq 1 .. nextId - 1
      /\ \A k \in DOMAIN players : players[k] # NoSession => player[players[k]] = k
  BY DEF Keyed
<1>. QED
  BY <1>1, <1>2

\* The id that was just given is nobody's yet.
LEMMA KeyedStep ==
  ASSUME IInv, Keyed, IdsLast, RoomStep
  PROVE  Keyed'
<1>. USE DEF vars, sessionVars, roomVars, loopVars, netVars, Running
<1>. DEFINE Keys == <<player, players, monsters, nextId, toServer, arrived>>
<1>1. ASSUME UNCHANGED Keys, todo' \subseteq todo \cup monsters,
             loop' = "AddObject" => loop = "AddObject" /\ current' = current
      PROVE  Keyed'
  BY <1>1 DEF Keyed
<1>2. ASSUME NEW s \in Sessions, Disconnect(s), todo' = monsters,
             UNCHANGED <<player, monsters, nextId, toServer, arrived>>
      PROVE  Keyed'
  <2>1. players' = players \/ players' = Erase(players, player[s])
    BY <1>2 DEF Disconnect, LeaveRoom
  <2>2. loop' # "AddObject"
    BY <1>2 DEF Disconnect, LeaveRoom, StartBroadcast
  <2>3. DOMAIN players' \subseteq DOMAIN players /\ \A id \in DOMAIN players' : players'[id] = players[id]
    BY <2>1 DEF Erase
  <2>. QED
    BY <1>2, <2>2, <2>3 DEF Keyed
<1>3. CASE EnterRoom
  <2>1. /\ current \in Sessions /\ player[current] = NoPlayer
        /\ player' = [player EXCEPT ![current] = nextId] /\ nextId' = nextId + 1
        /\ UNCHANGED <<players, monsters, toServer, arrived, todo, current>>
        /\ player \in [Sessions -> Nat \cup {NoPlayer}] /\ nextId \in Nat \ {0}
    BY <1>3 DEF EnterRoom, IInv, IdsGiven, Serving, TypeOK
  <2>2. /\ toServer \in [Sessions -> Seq([id : Nat, info : Infos])]
        /\ arrived \in [Sessions -> Seq([id : Nat, info : Infos])]
    BY DEF IInv, TypeOK
  <2>3. \A s \in Sessions : \A k \in 1 .. Len(toServer[s]) : toServer[s][k].id = player'[s]
    <3>. SUFFICES ASSUME NEW s \in Sessions, NEW k \in 1 .. Len(toServer[s])
                  PROVE  toServer[s][k].id = player'[s]
      OBVIOUS
    <3>1. toServer[s][k].id = player[s]
      BY DEF Keyed
    <3>2. toServer[s] \in Seq([id : Nat, info : Infos])
      BY <2>2
    <3>3. toServer[s][k] \in [id : Nat, info : Infos]
      BY <3>2, Element
    <3>. QED
      BY <2>1, <3>1, <3>3, GameRoomAssumption
  <2>4. \A s \in Sessions : \A k \in 1 .. Len(arrived[s]) : arrived[s][k].id = player'[s]
    <3>. SUFFICES ASSUME NEW s \in Sessions, NEW k \in 1 .. Len(arrived[s])
                  PROVE  arrived[s][k].id = player'[s]
      OBVIOUS
    <3>1. arrived[s][k].id = player[s]
      BY DEF Keyed
    <3>2. arrived[s] \in Seq([id : Nat, info : Infos])
      BY <2>2
    <3>3. arrived[s][k] \in [id : Nat, info : Infos]
      BY <3>2, Element
    <3>. QED
      BY <2>1, <3>1, <3>3, GameRoomAssumption
  <2>5. \A id \in DOMAIN players : id \in 1 .. nextId - 1 /\ id # nextId
    BY <2>1 DEF Keyed
  <2>6. \A id \in DOMAIN players : players[id] # NoSession => player'[players[id]] = id
    <3>. SUFFICES ASSUME NEW id \in DOMAIN players, players[id] # NoSession
                  PROVE  player'[players[id]] = id
      OBVIOUS
    <3>1. players[id] \in Sessions /\ player[players[id]] = id /\ id \in Nat
      BY <2>1, <2>5 DEF Keyed, IInv, TypeOK
    <3>. QED
      BY <2>1, <3>1, GameRoomAssumption
  <2>. QED
    BY <2>1, <2>3, <2>4, <2>5, <2>6 DEF Keyed
<1>4. CASE AddObject
  <2>1. /\ current \in Sessions /\ player[current] \in 1 .. nextId - 1 /\ loop' = "Broadcast"
        /\ UNCHANGED <<player, nextId, toServer, arrived, todo, current>>
    BY <1>4 DEF AddObject, StartBroadcast, IInv, IdsGiven, Serving, Entering
  <2>2. player[current] \in 1 .. MaxPlayerId
    BY <2>1, GameRoomAssumption DEF IdsLast, IInv, TypeOK
  <2>3. players' = Insert(players, player[current], current) /\ monsters' = monsters
    BY <1>4, <2>2 DEF AddObject
  <2>4. /\ DOMAIN players' \subseteq 1 .. nextId - 1
        /\ \A id \in DOMAIN players' : players'[id] # NoSession => player[players'[id]] = id
    BY <2>1, <2>3, InsertKeyed
  <2>. QED
    BY <2>1, <2>3, <2>4 DEF Keyed
<1>5. CASE HandleMove
  <2>. DEFINE move == Head(arrived[current])
  <2>1. /\ current \in Sessions /\ arrived[current] \in Seq([id : Nat, info : Infos])
        /\ arrived[current] # <<>> /\ arrived' = [arrived EXCEPT ![current] = Tail(@)]
        /\ UNCHANGED <<player, monsters, nextId, toServer, todo, current>>
        /\ loop' \in {"OnRecv", "Broadcast"} /\ arrived \in [Sessions -> Seq([id : Nat, info : Infos])]
    BY <1>5 DEF HandleMove, StartBroadcast, IInv, IdsGiven, Serving, TypeOK
  <2>2. /\ Len(arrived[current]) \in Nat /\ Len(arrived[current]) > 0 /\ move = arrived[current][1]
        /\ Len(Tail(arrived[current])) = Len(arrived[current]) - 1
        /\ \A k \in 1 .. Len(Tail(arrived[current])) : Tail(arrived[current])[k] = arrived[current][k + 1]
    BY <2>1, NonEmptySeq
  <2>3. \A k \in 1 .. Len(arrived[current]) : arrived[current][k].id = player[current]
    BY <2>1 DEF Keyed
  <2>4. move.id = player[current] /\ move.id \in Nat
    <3>0. arrived[current][1] \in [id : Nat, info : Infos]
      <4>1. 1 \in 1 .. Len(arrived[current])
        BY <2>2
      <4>. QED
        BY <2>1, <4>1, Element
    <3>1. move \in [id : Nat, info : Infos]
      BY <2>2, <3>0
    <3>. QED
      BY <2>2, <2>3, <3>1
  <2>5. \A k \in 1 .. Len(Tail(arrived[current])) : Tail(arrived[current])[k].id = player[current]
    BY <2>2, <2>3
  <2>6. \A s \in Sessions : \A k \in 1 .. Len(arrived'[s]) : arrived'[s][k].id = player[s]
    <3>1. arrived'[current] = Tail(arrived[current]) /\ \A s \in Sessions : s # current => arrived'[s] = arrived[s]
      BY <2>1
    <3>2. \A k \in 1 .. Len(arrived'[current]) : arrived'[current][k].id = player[current]
      BY <2>5, <3>1
    <3>3. \A s \in Sessions : \A k \in 1 .. Len(arrived[s]) : arrived[s][k].id = player[s]
      BY DEF Keyed
    <3>. SUFFICES ASSUME NEW s \in Sessions PROVE \A k \in 1 .. Len(arrived'[s]) : arrived'[s][k].id = player[s]
      OBVIOUS
    <3>4. CASE s = current
      BY <3>2, <3>4
    <3>5. CASE s # current
      BY <3>1, <3>3, <3>5
    <3>. QED
      BY <3>4, <3>5
  <2>7. player[current] \in 1 .. nextId - 1
    BY <2>1, <2>4, GameRoomAssumption DEF IInv, IdsGiven
  <2>8. players' = players \/ players' = Insert(players, player[current], NoSession)
    BY <1>5, <2>4 DEF HandleMove, FindObject
  <2>9. /\ DOMAIN players' \subseteq 1 .. nextId - 1
        /\ \A id \in DOMAIN players' : players'[id] # NoSession => player[players'[id]] = id
    <3>1. CASE players' = players
      BY <3>1 DEF Keyed
    <3>2. CASE players' = Insert(players, player[current], NoSession)
      BY <2>7, <3>2, InsertKeyed
    <3>. QED
      BY <2>8, <3>1, <3>2
  <2>. QED
    BY <2>1, <2>6, <2>9 DEF Keyed
<1>6. ASSUME NEW s \in Sessions, Arrive(s) PROVE Keyed'
  <2>1. PICK n \in 1 .. Len(toServer[s]) :
          /\ arrived' = [arrived EXCEPT ![s] = SubSeq(toServer[s], 1, n)]
          /\ toServer' = [toServer EXCEPT ![s] = SubSeq(@, n + 1, Len(@))]
    BY <1>6 DEF Arrive
  <2>2. /\ toServer \in [Sessions -> Seq([id : Nat, info : Infos])]
        /\ arrived \in [Sessions -> Seq([id : Nat, info : Infos])]
    BY DEF IInv, TypeOK
  <2>3. \A k \in 1 .. Len(toServer[s]) : toServer[s][k].id = player[s]
    BY DEF Keyed
  <2>4. \A k \in 1 .. Len(arrived'[s]) : arrived'[s][k].id = player[s]
    BY <2>1, <2>2, <2>3, Cut
  <2>5. \A k \in 1 .. Len(toServer'[s]) : toServer'[s][k].id = player[s]
    <3>1. /\ toServer'[s] = SubSeq(toServer[s], n + 1, Len(toServer[s])) /\ Len(toServer[s]) \in Nat
          /\ Len(toServer'[s]) = Len(toServer[s]) - n
          /\ \A k \in 1 .. Len(toServer[s]) - n : toServer'[s][k] = toServer[s][n + k]
      BY <2>1, <2>2, Cut
    <3>. SUFFICES ASSUME NEW k \in 1 .. Len(toServer'[s]) PROVE toServer'[s][k].id = player[s]
      OBVIOUS
    <3>2. n + k \in 1 .. Len(toServer[s])
      BY <3>1
    <3>. QED
      BY <2>3, <3>1, <3>2
  <2>6. \A t \in Sessions : t # s => arrived'[t] = arrived[t] /\ toServer'[t] = toServer[t]
    BY <2>1, <2>2
  <2>7. UNCHANGED <<player, players, monsters, nextId, todo, loop, current>>
    BY <1>6 DEF Arrive
  <2>8. ASSUME NEW t \in Sessions
        PROVE  /\ \A k \in 1 .. Len(arrived'[t]) : arrived'[t][k].id = player[t]
               /\ \A k \in 1 .. Len(toServer'[t]) : toServer'[t][k].id = player[t]
    <3>1. CASE t = s
      BY <2>4, <2>5, <3>1
    <3>2. CASE t # s
      BY <2>6, <3>2 DEF Keyed
    <3>. QED
      BY <3>1, <3>2
  <2>. QED
    BY <2>7, <2>8 DEF Keyed
<1>7. ASSUME NEW s \in Sessions, NEW i \in Infos, ClientMoves(s, i) PROVE Keyed'
  <2>1. /\ toServer' = [toServer EXCEPT ![s] = Append(@, [id |-> player[s], info |-> i])]
        /\ toServer \in [Sessions -> Seq([id : Nat, info : Infos])]
        /\ UNCHANGED <<player, players, monsters, nextId, arrived, todo, loop, current>>
    BY <1>7 DEF ClientMoves, IInv, TypeOK
  <2>2. \A k \in 1 .. Len(toServer'[s]) : toServer'[s][k].id = player[s]
    <3>0. toServer[s] \in Seq([id : Nat, info : Infos])
      BY <2>1
    <3>1. /\ toServer'[s] = Append(toServer[s], [id |-> player[s], info |-> i])
          /\ Len(toServer[s]) \in Nat
      BY <2>1, <3>0
    <3>2. /\ Len(toServer'[s]) = Len(toServer[s]) + 1
          /\ \A k \in 1 .. Len(toServer[s]) : toServer'[s][k] = toServer[s][k]
          /\ toServer'[s][Len(toServer[s]) + 1].id = player[s]
      BY <3>0, <3>1, Appended
    <3>3. \A k \in 1 .. Len(toServer[s]) : toServer[s][k].id = player[s]
      BY DEF Keyed
    <3>. QED
      BY <3>1, <3>2, <3>3
  <2>3. \A t \in Sessions : t # s => toServer'[t] = toServer[t]
    BY <2>1
  <2>. QED
    BY <2>1, <2>2, <2>3 DEF Keyed
<1>8. CASE Server
  <2>1. CASE EnterRoom \/ AddObject \/ HandleMove
    BY <1>3, <1>4, <1>5, <2>1
  <2>2. ASSUME NEW s \in Sessions, RecvZero(s) \/ ProcessSend(s) PROVE Keyed'
    <3>1. todo' = monsters /\ UNCHANGED <<player, monsters, nextId, toServer, arrived>>
      BY <2>2 DEF RecvZero, ProcessSend
    <3>2. Disconnect(s) \/ (UNCHANGED players /\ loop' = "Update")
      BY <2>2 DEF RecvZero, ProcessSend
    <3>. QED
      BY <1>1, <1>2, <3>1, <3>2
  <2>3. CASE Broadcast
    <3>1. UNCHANGED <<Keys, todo, current>> /\ loop' = after
      BY <2>3 DEF Broadcast
    <3>2. after # "AddObject"
      BY DEF IInv, TypeOK
    <3>. QED
      BY <1>1, <3>1, <3>2
  <2>4. CASE UpdateMonster
    BY <1>1, <2>4 DEF UpdateMonster, StartBroadcast
  <2>5. CASE \/ \E s \in Sessions : OnConnected(s) \/ ProcessRecv(s) \/ ProcessDisconnect(s)
             \/ RegisterRecv \/ OnRecvReturns \/ UpdateReturns
    BY <1>1, <2>5 DEF OnConnected, ProcessRecv, ProcessDisconnect, RegisterRecv, OnRecvReturns,
       UpdateReturns
  <2>. QED
    BY <1>8, <2>1, <2>2, <2>3, <2>4, <2>5 DEF Server
<1>9. CASE Network
  BY <1>1, <1>6, <1>9 DEF Network, RecvEnd
<1>10. ASSUME NEW s \in Sessions, ClientReads(s) PROVE Keyed'
  BY <1>1, <1>10 DEF ClientReads
<1>11. CASE UNCHANGED vars \/ Counts
  BY <1>1, <1>11 DEF Counts
<1>. QED
  BY <1>7, <1>8, <1>9, <1>10, <1>11 DEF RoomStep, Next

LEMMA MoveMade ==
  ASSUME NEW id \in Nat, NEW i \in Infos
  PROVE  /\ [type |-> "S_Move", id |-> id, info |-> i] \in Packets
         /\ [type |-> "S_Move", id |-> id, info |-> i].type = "S_Move"
BY PacketsMade

\* Whatever goes to a client is a packet.
LEMMA PostedStep ==
  ASSUME IInv, Keyed, Posted, RoomStep
  PROVE  Posted'
<1>. USE DEF vars, sessionVars, roomVars, loopVars, netVars, Running
<1>. DEFINE Sent == toClient' \in [Sessions -> Seq(Packets)]
<1>0. toClient \in [Sessions -> Seq(Packets)]
  BY DEF Posted
<1>1. ASSUME UNCHANGED <<message, current, player, loop>>, Sent PROVE Posted'
  BY <1>1 DEF Posted
<1>2. ASSUME loop' # "Broadcast", Sent PROVE Posted'
  BY <1>2 DEF Posted
<1>3. ASSUME Sent, message' \in Packets, message'.type \in {"S_RemoveObject", "S_Move"}
      PROVE  Posted'
  BY <1>3 DEF Posted
<1>4. ASSUME NEW s \in Sessions, Disconnect(s), UNCHANGED toClient PROVE Posted'
  <2>1. CASE loop' = "Update"
    BY <1>0, <1>2, <1>4, <2>1
  <2>2. CASE loop' # "Update"
    <3>1. message' = [type |-> "S_RemoveObject", id |-> player[s]] /\ player[s] \in Nat
      BY <1>4, <2>2 DEF Disconnect, LeaveRoom, StartBroadcast, IInv, TypeOK
    <3>2. message' \in Packets
      BY <3>1, PacketsMade
    <3>. QED
      BY <1>0, <1>3, <1>4, <3>1, <3>2
  <2>. QED
    BY <2>1, <2>2
<1>5. CASE EnterRoom
  <2>. DEFINE known == DOMAIN players \cup monsters
              own == [type |-> "S_MyPlayer", id |-> nextId, info |-> SpawnInfo]
              objects == [o \in known |-> info'[o]]
              all == [type |-> "S_AddObject", objects |-> objects]
  <2>1. /\ current \in Sessions /\ nextId \in Nat \ {0} /\ SpawnInfo \in Infos /\ loop' = "AddObject"
        /\ info' = Insert(info, nextId, SpawnInfo) /\ DOMAIN info = MonsterIds \cup 1 .. nextId - 1
        /\ \A o \in DOMAIN info : info[o] \in Infos
    BY <1>5, GameRoomAssumption DEF EnterRoom, IInv, IdsGiven, Serving, TypeOK
  <2>2. known \subseteq DOMAIN info /\ known \in SUBSET Nat
    <3>1. DOMAIN players \subseteq 1 .. nextId - 1 /\ monsters = MonsterIds /\ MonsterIds \subseteq Nat
      BY GameRoomAssumption DEF Keyed
    <3>2. 1 .. nextId - 1 \subseteq Nat
      BY <2>1
    <3>3. DOMAIN info = MonsterIds \cup 1 .. nextId - 1
      BY <2>1
    <3>4. known \subseteq DOMAIN info
      BY <3>1, <3>3
    <3>5. known \subseteq Nat
      BY <3>1, <3>2
    <3>. QED
      BY <3>4, <3>5
  <2>3. \A o \in DOMAIN info : info'[o] \in Infos
    BY <2>1 DEF Insert
  <2>4. objects \in [known -> Infos]
    BY <2>2, <2>3
  <2>5. own \in Packets /\ all \in Packets
    <3>. HIDE DEF objects, known
    <3>. QED
      BY <2>1, <2>2, <2>4, PacketsMade
  <2>6. \/ toClient' = toClient
        \/ toClient' = [toClient EXCEPT ![current] = @ \o <<own, all>>]
    BY <1>5 DEF EnterRoom, SendTo
  <2>. HIDE DEF own, all
  <2>7. toClient[current] \o <<own, all>> \in Seq(Packets)
    BY <1>0, <2>1, <2>5
  <2>8. Sent
    BY <1>0, <2>6, <2>7
  <2>. QED
    BY <1>2, <2>1, <2>8
<1>6. CASE AddObject
  <2>. DEFINE objects == [o \in {player[current]} |-> info[o]]
  <2>1. /\ current \in Sessions /\ player[current] \in 1 .. nextId - 1 /\ nextId \in Nat
        /\ DOMAIN info = MonsterIds \cup 1 .. nextId - 1 /\ \A o \in DOMAIN info : info[o] \in Infos
    BY <1>6 DEF AddObject, IInv, IdsGiven, Serving, Entering, TypeOK
  <2>2. objects \in [{player[current]} -> Infos] /\ {player[current]} \in SUBSET Nat
    BY <2>1
  <2>3. message' = [type |-> "S_AddObject", objects |-> objects]
        /\ UNCHANGED <<current, player, toClient>>
    BY <1>6 DEF AddObject, StartBroadcast
  <2>4. DOMAIN objects = {player[current]}
    OBVIOUS
  <2>. HIDE DEF objects
  <2>5. message' \in Packets
    BY <2>2, <2>3, PacketsMade
  <2>. QED
    BY <1>0, <2>1, <2>3, <2>4, <2>5 DEF Posted
<1>7. CASE HandleMove
  <2>. DEFINE move == Head(arrived[current])
  <2>1. /\ current \in Sessions /\ arrived[current] \in Seq([id : Nat, info : Infos])
        /\ arrived[current] # <<>> /\ UNCHANGED toClient
    BY <1>7 DEF HandleMove, IInv, IdsGiven, Serving, TypeOK
  <2>2. move \in [id : Nat, info : Infos]
    <3>1. Len(arrived[current]) \in Nat /\ Len(arrived[current]) > 0 /\ move = arrived[current][1]
      BY <2>1, NonEmptySeq
    <3>2. 1 \in 1 .. Len(arrived[current])
      BY <3>1
    <3>3. arrived[current][1] \in [id : Nat, info : Infos]
      BY <2>1, <3>2, Element
    <3>. QED
      BY <3>1, <3>3
  <2>3. \/ loop' = "OnRecv"
        \/ message' = [type |-> "S_Move", id |-> move.id, info |-> move.info]
    BY <1>7 DEF HandleMove, StartBroadcast
  <2>. HIDE DEF move
  <2>4. loop' = "OnRecv" \/ (message' \in Packets /\ message'.type = "S_Move")
    <3>1. move.id \in Nat /\ move.info \in Infos
      BY <2>2
    <3>. QED
      BY <2>3, <3>1, MoveMade
  <2>. QED
    BY <1>0, <1>2, <1>3, <2>1, <2>4
<1>8. CASE UpdateMonster
  <2>1. \/ loop' = "Update"
        \/ \E m \in todo, i \in Infos : message' = [type |-> "S_Move", id |-> m, info |-> i]
    BY <1>8 DEF UpdateMonster, StartBroadcast
  <2>2. todo \subseteq Nat /\ UNCHANGED toClient
    BY <1>8 DEF UpdateMonster, IInv, TypeOK
  <2>3. loop' = "Update" \/ (message' \in Packets /\ message'.type = "S_Move")
    <3>1. CASE loop' = "Update"
      BY <3>1
    <3>2. CASE \E m \in todo, i \in Infos : message' = [type |-> "S_Move", id |-> m, info |-> i]
      <4>1. PICK m \in todo, i \in Infos : message' = [type |-> "S_Move", id |-> m, info |-> i]
        BY <3>2
      <4>2. m \in Nat
        BY <2>2
      <4>. QED
        BY <4>1, <4>2, MoveMade
    <3>. QED
      BY <2>1, <3>1, <3>2
  <2>. QED
    BY <1>0, <1>2, <1>3, <2>2, <2>3
<1>9. CASE Broadcast
  <2>1. loop' # "Broadcast"
    BY <1>9 DEF Broadcast, IInv, TypeOK
  <2>2. \/ toClient' = toClient
        \/ toClient' = [s \in Sessions |-> IF s \in Receivers /\ conn[s] = "connected"
                                             THEN Append(toClient[s], message) ELSE toClient[s]]
    BY <1>9 DEF Broadcast
  <2>3. \A s \in Sessions : Append(toClient[s], message) \in Seq(Packets)
    BY <1>0, <1>9 DEF Broadcast, Posted
  <2>4. Sent
    BY <1>0, <2>2, <2>3
  <2>. QED
    BY <1>2, <2>1, <2>4
<1>10. ASSUME NEW s \in Sessions, OnConnected(s) PROVE Posted'
  <2>1. toClient' = toClient \/ toClient' = [toClient EXCEPT ![s] = <<[type |-> "S_EnterGame"]>>]
    BY <1>10 DEF OnConnected
  <2>2. <<[type |-> "S_EnterGame"]>> \in Seq(Packets)
    BY PacketsMade
  <2>3. Sent
    BY <1>0, <2>1, <2>2
  <2>. QED
    BY <1>2, <1>10, <2>3 DEF OnConnected
<1>11. ASSUME NEW s \in Sessions, ClientReads(s) PROVE Posted'
  <2>1. toClient[s] \in Seq(Packets) /\ toClient[s] # <<>>
    BY <1>0, <1>11 DEF ClientReads
  <2>2. Tail(toClient[s]) \in Seq(Packets)
    BY <2>1
  <2>3. toClient' = [toClient EXCEPT ![s] = Tail(@)]
    BY <1>11 DEF ClientReads
  <2>4. Sent
    BY <1>0, <2>2, <2>3
  <2>. QED
    BY <1>1, <1>11, <2>4 DEF ClientReads
<1>12. CASE Server
  <2>1. ASSUME NEW s \in Sessions, RecvZero(s) \/ ProcessSend(s) PROVE Posted'
    BY <1>0, <1>2, <1>4, <2>1 DEF RecvZero, ProcessSend
  <2>2. ASSUME NEW s \in Sessions, ProcessRecv(s) \/ ProcessDisconnect(s) PROVE Posted'
    BY <1>0, <1>2, <2>2 DEF ProcessRecv, ProcessDisconnect
  <2>3. CASE RegisterRecv \/ OnRecvReturns \/ UpdateReturns
    BY <1>0, <1>2, <2>3 DEF RegisterRecv, OnRecvReturns, UpdateReturns
  <2>. QED
    BY <1>5, <1>6, <1>7, <1>8, <1>9, <1>10, <1>12, <2>1, <2>2, <2>3 DEF Server
<1>13. CASE Network
  BY <1>0, <1>1, <1>13 DEF Network, Arrive, RecvEnd
<1>14. ASSUME NEW s \in Sessions, NEW i \in Infos, ClientMoves(s, i) PROVE Posted'
  BY <1>0, <1>1, <1>14 DEF ClientMoves
<1>15. CASE UNCHANGED vars \/ Counts
  BY <1>0, <1>1, <1>15 DEF Counts
<1>. QED
  BY <1>11, <1>12, <1>13, <1>14, <1>15 DEF RoomStep, Next

-----------------------------------------------------------------------------
\* What a client does besides handling a packet leaves it at most what it had.
Calm(s) ==
  \/ /\ client'[s].my = client[s].my
     /\ DOMAIN client'[s].copies \subseteq DOMAIN client[s].copies
     /\ Single(client'[s].copies)
  \/ client'[s].my = NoPlayer /\ DOMAIN client'[s].copies = {}

LEMMA CalmClient ==
  ASSUME Fields, NEW s \in Sessions, Copied(s),
         \/ Tick(s) \/ Collide(s) \/ ChangeScene(s)
         \/ \E m \in MonsterIds : Kill(s, m) \/ TickDead(s, m)
  PROVE  Fields' /\ Calm(s) /\ \A t \in Sessions : t # s => client'[t] = client[t]
<1>0. /\ DOMAIN client = Sessions /\ Single(client[s].copies)
      /\ \A t \in Sessions : DOMAIN client[t] = {"scene", "my", "own", "dirty", "copies", "undefined"}
  BY NewFields DEF Fields, Copied
<1>1. ASSUME NEW i, NEW d, client' = [client EXCEPT ![s].own = i, ![s].dirty = d]
      PROVE  Fields' /\ Calm(s) /\ \A t \in Sessions : t # s => client'[t] = client[t]
  <2>1. DOMAIN client' = Sessions /\ \A t \in Sessions : t # s => client'[t] = client[t]
    BY <1>0, <1>1
  <2>2. /\ DOMAIN client'[s] = DOMAIN client[s] /\ client'[s].my = client[s].my
        /\ client'[s].copies = client[s].copies
    BY <1>0, <1>1
  <2>. QED
    BY <1>0, <2>1, <2>2, NewFields DEF Fields, Calm
<1>2. ASSUME Tick(s) \/ Collide(s)
      PROVE  Fields' /\ Calm(s) /\ \A t \in Sessions : t # s => client'[t] = client[t]
  <2>1. \E i, d : client' = [client EXCEPT ![s].own = i, ![s].dirty = d]
    <3>1. CASE Tick(s)
      BY <3>1 DEF Tick
    <3>2. CASE Collide(s)
      BY <3>2 DEF Collide
    <3>. QED
      BY <1>2, <3>1, <3>2
  <2>. QED
    BY <1>1, <2>1
<1>3. ASSUME ChangeScene(s)
      PROVE  Fields' /\ Calm(s) /\ \A t \in Sessions : t # s => client'[t] = client[t]
  <2>1. PICK x : client' = [client EXCEPT ![s] = [NewScene EXCEPT !.scene = x]]
    BY <1>3 DEF ChangeScene
  <2>2. DOMAIN client' = Sessions /\ \A t \in Sessions : t # s => client'[t] = client[t]
    BY <1>0, <2>1
  <2>3. client'[s] = [NewScene EXCEPT !.scene = x]
    BY <1>0, <2>1
  <2>4. NewScene.my = NoPlayer /\ DOMAIN NewScene.copies = {}
    BY DEF NewScene
  <2>5. DOMAIN client'[s] = DOMAIN NewScene /\ client'[s].my = NoPlayer /\ DOMAIN client'[s].copies = {}
    BY <2>3, <2>4, NewFields
  <2>. QED
    BY <1>0, <2>2, <2>5, NewFields DEF Fields, Calm
<1>4. ASSUME NEW m \in MonsterIds, Kill(s, m)
      PROVE  Fields' /\ Calm(s) /\ \A t \in Sessions : t # s => client'[t] = client[t]
  <2>1. /\ client' = [client EXCEPT ![s].copies[m][1].state = Dead]
        /\ m \in DOMAIN client[s].copies
    BY <1>4 DEF Kill
  <2>2. DOMAIN client' = Sessions /\ \A t \in Sessions : t # s => client'[t] = client[t]
    BY <1>0, <2>1
  <2>. DEFINE x == [client[s].copies[m][1] EXCEPT !.state = Dead]
              k == [client[s].copies EXCEPT ![m] = [@ EXCEPT ![1] = x]]
  <2>3. client'[s] = [client[s] EXCEPT !.copies = k]
    BY <1>0, <2>1
  <2>4. DOMAIN client'[s] = DOMAIN client[s] /\ client'[s].my = client[s].my /\ client'[s].copies = k
    <3>. HIDE DEF k
    <3>. QED
      BY <1>0, <2>3
  <2>5. DOMAIN k = DOMAIN client[s].copies /\ Single(k)
    <3>1. \A z, y : [<<z>> EXCEPT ![1] = y] = <<y>>
      OBVIOUS
    <3>2. client[s].copies[m] = <<client[s].copies[m][1]>>
      BY <1>0, <2>1 DEF Single
    <3>. HIDE DEF x
    <3>3. k[m] = <<x>>
      BY <2>1, <3>1, <3>2
    <3>4. DOMAIN k = DOMAIN client[s].copies
          /\ \A id \in DOMAIN client[s].copies : id # m => k[id] = client[s].copies[id]
      OBVIOUS
    <3>5. \A y : <<y>>[1] = y
      OBVIOUS
    <3>. HIDE DEF k
    <3>. QED
      BY <1>0, <3>3, <3>4, <3>5 DEF Single
  <2>. QED
    BY <1>0, <2>2, <2>4, <2>5, NewFields DEF Fields, Calm
<1>5. ASSUME NEW m \in MonsterIds, TickDead(s, m)
      PROVE  Fields' /\ Calm(s) /\ \A t \in Sessions : t # s => client'[t] = client[t]
  <2>1. client' = [client EXCEPT ![s].copies = Erase(@, m)]
    BY <1>5 DEF TickDead
  <2>2. DOMAIN client' = Sessions /\ \A t \in Sessions : t # s => client'[t] = client[t]
    BY <1>0, <2>1
  <2>3. DOMAIN client'[s] = DOMAIN client[s] /\ client'[s].my = client[s].my
        /\ client'[s].copies = Erase(client[s].copies, m)
    BY <1>0, <2>1
  <2>4. DOMAIN client'[s].copies \subseteq DOMAIN client[s].copies /\ Single(client'[s].copies)
    BY <1>0, <2>3 DEF Erase, Single
  <2>. QED
    BY <1>0, <2>2, <2>3, <2>4, NewFields DEF Fields, Calm
<1>. QED
  BY <1>2, <1>3, <1>4, <1>5

\* To the room its clients are what GameRoom says a client is: they read their
\* packets in order, and report their own player when they know it.
LEMMA ClientsAreClients ==
  ASSUME IInv, Fields, \A s \in Sessions : Mine(s), [RNext]_rvars
  PROVE  RoomStep
<1>. USE DEF rvars, netVars
<1>1. CASE Server \/ Network
  BY <1>1 DEF RoomStep, Next
<1>2. ASSUME NEW s \in Sessions, Dispatch(s) PROVE RoomStep
  <2>1. ClientReads(s)
    BY <1>2 DEF Dispatch, ClientReads
  <2>. QED
    BY <2>1 DEF RoomStep, Next
<1>3. ASSUME NEW s \in Sessions, Tick(s) PROVE RoomStep
  <2>1. PICK i \in Infos, setDir \in BOOLEAN :
          LET dirty == i.state # client[s].own.state \/ setDir
          IN /\ changes' = changes + (IF i # client[s].own \/ setDir THEN 1 ELSE 0)
             /\ changes' <= MaxChanges
             /\ SyncToServer(s, i, dirty)
    BY <1>3 DEF Tick
  <2>2. changes \in 0 .. MaxChanges /\ MaxChanges \in Nat
    BY GameRoomAssumption DEF IInv, TypeOK
  <2>3. UNCHANGED <<sessionVars, roomVars, loopVars, toClient>>
    BY <1>3 DEF Tick
  <2>4. CASE UNCHANGED toServer
    <3>1. changes' \in 0 .. MaxChanges
      BY <2>1, <2>2
    <3>. QED
      BY <2>3, <2>4, <3>1 DEF RoomStep, Counts
  <2>5. CASE toServer' # toServer
    <3>1. /\ i.state # client[s].own.state \/ setDir
          /\ conn[s] = "connected"
          /\ toServer' = [toServer EXCEPT ![s] = Append(@, [id |-> client[s].my, info |-> i])]
      BY <2>1, <2>5 DEF SyncToServer
    <3>2. changes' = changes + 1 /\ changes < MaxChanges
      BY <2>1, <2>2, <3>1
    <3>3. client[s].my # NoPlayer
      BY <1>3 DEF Tick, Playing
    <3>4. client[s].my = player[s] /\ MyPlayerRead(s)
      BY <3>3 DEF Mine, MyPlayerRead, News
    <3>5. ClientMoves(s, i)
      BY <2>3, <3>1, <3>2, <3>4 DEF ClientMoves
    <3>. QED
      BY <3>4, <3>5 DEF RoomStep, Next
  <2>. QED
    BY <2>4, <2>5
<1>4. ASSUME NEW s \in Sessions, Collide(s) PROVE RoomStep
  <2>1. changes \in 0 .. MaxChanges /\ MaxChanges \in Nat
    BY GameRoomAssumption DEF IInv, TypeOK
  <2>. QED
    BY <1>4, <2>1 DEF Collide, RoomStep, Counts
<1>5. ASSUME NEW s \in Sessions,
             ChangeScene(s) \/ \E m \in MonsterIds : Kill(s, m) \/ TickDead(s, m)
      PROVE  RoomStep
  BY <1>5 DEF ChangeScene, Kill, TickDead, RoomStep
<1>6. CASE UNCHANGED rvars
  BY <1>6 DEF RoomStep
<1>. QED
  BY <1>1, <1>2, <1>3, <1>4, <1>5, <1>6 DEF RNext, Client

-----------------------------------------------------------------------------
\* Nothing comes to the client, and it does nothing or is calm.
LEMMA StillKeeps ==
  ASSUME IInv, NEW t \in Sessions, Mine(t), AddedOnce(t), Copied(t),
         toClient'[t] = toClient[t], player'[t] = player[t],
         nextId' \in Nat, nextId <= nextId',
         client'[t] = client[t] \/ Calm(t),
         Announcing' => \A id \in Nat : Told(t, id) => id # player'[current']
  PROVE  Mine(t)' /\ AddedOnce(t)' /\ Copied(t)'
<1>1. /\ client'[t].my \in {client[t].my, NoPlayer}
      /\ DOMAIN client'[t].copies \subseteq DOMAIN client[t].copies
      /\ client'[t].my = client[t].my \/ DOMAIN client'[t].copies = {}
      /\ Single(client'[t].copies)
  BY DEF Calm, Copied, Single
<1>2. Mine(t)'
  BY <1>1 DEF Mine, News
<1>3. \A id \in Nat : Told(t, id)' => Told(t, id)
  BY <1>1 DEF Told, News, AddedAt
<1>4. AddedOnce(t)'
  <2>1. DOMAIN client'[t].copies \subseteq Nat
    BY <1>1 DEF AddedOnce
  <2>2. nextId \in Nat
    BY DEF IInv, TypeOK
  <2>3. \A id \in Nat : Told(t, id)' =>
          id \in 1 .. nextId' - 1 \cup MonsterIds /\ player'[t] # NoPlayer
    <3>1. \A id \in Nat : Told(t, id) => id \in 1 .. nextId - 1 \cup MonsterIds /\ player[t] # NoPlayer
      BY DEF AddedOnce
    <3>2. 1 .. nextId - 1 \subseteq 1 .. nextId' - 1
      <4>1. \A m, n \in Nat : m <= n => 1 .. m - 1 \subseteq 1 .. n - 1
        OBVIOUS
      <4>. QED
        BY <2>2, <4>1
    <3>. QED
      BY <1>3, <3>1, <3>2, Zenon
  <2>4. \A id \in Nat : \A k \in News(t)' : AddedAt(t, k, id)' =>
          /\ id \notin DOMAIN client'[t].copies
          /\ \A j \in News(t)' : AddedAt(t, j, id)' => j = k
    BY <1>1 DEF AddedOnce, News, AddedAt
  <2>. QED
    BY <1>3, <2>1, <2>3, <2>4 DEF AddedOnce
<1>5. Copied(t)'
  BY <1>1 DEF Copied
<1>. QED
  BY <1>2, <1>4, <1>5

\* The room's packet to everyone: it reaches a client that entered before.
LEMMA BroadcastKeeps ==
  ASSUME IInv, Posted, NEW t \in Sessions, Mine(t), AddedOnce(t), Copied(t),
         loop = "Broadcast", player[t] # NoPlayer,
         toClient'[t] = Append(toClient[t], message),
         UNCHANGED <<player, nextId, client, current>>, ~Announcing'
  PROVE  Mine(t)' /\ AddedOnce(t)' /\ Copied(t)'
<1>1. /\ Len(toClient[t]) \in Nat /\ News(t) = 1 .. Len(toClient[t])
      /\ News(t)' = 1 .. Len(toClient[t]) + 1
      /\ \A k \in News(t) : toClient'[t][k] = toClient[t][k]
      /\ toClient'[t][Len(toClient[t]) + 1] = message
  <2>1. toClient[t] \in Seq(Packets)
    BY DEF Posted
  <2>. QED
    BY <2>1 DEF News
<1>2. /\ message.type # "S_MyPlayer"
      /\ message.type = "S_AddObject" => Announcing /\ DOMAIN message.objects = {player[current]}
  BY DEF Posted, Announcing
<1>3. \A k \in News(t)' : k \in News(t) \/ k = Len(toClient[t]) + 1
  BY <1>1
<1>4. Mine(t)'
  <2>1. \A k \in News(t)' : toClient'[t][k].type = "S_MyPlayer" => k \in News(t)
    BY <1>1, <1>2, <1>3
  <2>. QED
    BY <1>1, <2>1 DEF Mine
<1>5. \A id \in Nat : \A k \in News(t)' : AddedAt(t, k, id)' =>
        \/ k \in News(t) /\ AddedAt(t, k, id)
        \/ k = Len(toClient[t]) + 1 /\ id = player[current] /\ Announcing
  <2>. SUFFICES ASSUME NEW id \in Nat, NEW k \in News(t)', AddedAt(t, k, id)'
                PROVE  \/ k \in News(t) /\ AddedAt(t, k, id)
                       \/ k = Len(toClient[t]) + 1 /\ id = player[current] /\ Announcing
    OBVIOUS
  <2>1. CASE k \in News(t)
    BY <1>1, <2>1 DEF AddedAt
  <2>2. CASE k = Len(toClient[t]) + 1
    BY <1>1, <1>2, <2>2 DEF AddedAt
  <2>. QED
    BY <1>3, <2>1, <2>2
<1>6. player[current] \in Nat /\ Announcing => player[current] \in 1 .. nextId - 1
  <2>1. Announcing => current \in Sessions
    BY DEF Announcing, Posted
  <2>. QED
    BY <2>1, GameRoomAssumption DEF IInv, IdsGiven
<1>7. \A id \in Nat : Told(t, id)' =>
        id \in 1 .. nextId - 1 \cup MonsterIds
  BY <1>5, <1>6 DEF Told, AddedOnce
<1>8. \A id \in Nat : \A k \in News(t)' : AddedAt(t, k, id)' =>
        /\ id \notin DOMAIN client[t].copies
        /\ \A j \in News(t)' : AddedAt(t, j, id)' => j = k
  <2>. SUFFICES ASSUME NEW id \in Nat, NEW k \in News(t)', AddedAt(t, k, id)'
                PROVE  /\ id \notin DOMAIN client[t].copies
                       /\ \A j \in News(t)' : AddedAt(t, j, id)' => j = k
    OBVIOUS
  <2>1. CASE k \in News(t) /\ AddedAt(t, k, id)
    <3>1. Told(t, id)
      BY <2>1 DEF Told
    <3>2. ~(id = player[current] /\ Announcing)
      BY <3>1 DEF AddedOnce
    <3>3. \A j \in News(t)' : AddedAt(t, j, id)' => j \in News(t) /\ AddedAt(t, j, id)
      BY <1>5, <3>2
    <3>. QED
      BY <2>1, <3>3 DEF AddedOnce
  <2>2. CASE k = Len(toClient[t]) + 1 /\ id = player[current] /\ Announcing
    <3>1. ~Told(t, id)
      BY <2>2 DEF AddedOnce
    <3>. QED
      BY <1>5, <2>2, <3>1 DEF Told
  <2>. QED
    BY <1>5, <2>1, <2>2
<1>9. AddedOnce(t)'
  BY <1>7, <1>8 DEF AddedOnce
<1>. QED
  BY <1>4, <1>9 DEF Copied

\* A connection is accepted, and its client knows of nothing.
LEMMA ConnectedKeeps ==
  ASSUME IInv, NEW t \in Sessions, Mine(t), AddedOnce(t), Copied(t),
         player[t] = NoPlayer, toClient'[t] = <<[type |-> "S_EnterGame"]>>,
         UNCHANGED <<player, nextId, client>>
  PROVE  Mine(t)' /\ AddedOnce(t)' /\ Copied(t)'
<1>1. News(t)' = {1} /\ toClient'[t][1].type = "S_EnterGame"
  BY DEF News
<1>2. Mine(t)'
  BY <1>1 DEF Mine
<1>3. \A id \in Nat : ~Told(t, id)
  BY DEF AddedOnce
<1>4. DOMAIN client[t].copies = {}
  BY <1>3 DEF Told, AddedOnce
<1>5. \A id : \A k \in News(t)' : ~AddedAt(t, k, id)'
  BY <1>1 DEF AddedAt
<1>6. AddedOnce(t)'
  BY <1>4, <1>5 DEF AddedOnce, Told
<1>. QED
  BY <1>2, <1>6 DEF Copied

\* A session enters: its client is sent its player and everything in the room.
LEMMA EnteredKeeps ==
  ASSUME IInv, Posted, Keyed, IdsLast', NEW t \in Sessions, t = current,
         Mine(t), AddedOnce(t), Copied(t), EnterRoom, UNCHANGED client
  PROVE  Mine(t)' /\ AddedOnce(t)' /\ Copied(t)'
<1>. DEFINE known == DOMAIN players \cup monsters
            objects == [o \in known |-> info'[o]]
            own == [type |-> "S_MyPlayer", id |-> nextId, info |-> SpawnInfo]
            all == [type |-> "S_AddObject", objects |-> objects]
            n == Len(toClient[t])
<1>1. /\ t \in Sessions /\ player[t] = NoPlayer /\ current' = t
      /\ player' = [player EXCEPT ![t] = nextId] /\ nextId' = nextId + 1
      /\ player \in [Sessions -> Nat \cup {NoPlayer}] /\ nextId \in Nat \ {0}
  BY DEF EnterRoom, Running, IInv, IdsGiven, Serving, TypeOK
<1>2. player'[t] = nextId /\ nextId # NoPlayer /\ nextId \notin MonsterIds
  BY <1>1, GameRoomAssumption DEF IdsLast
<1>3. \/ toClient' = toClient
      \/ toClient' = [toClient EXCEPT ![t] = @ \o <<own, all>>]
  BY DEF EnterRoom, SendTo
<1>4. /\ toClient[t] \in Seq(Packets) /\ n \in Nat /\ News(t) = 1 .. n
      /\ toClient \in [Sessions -> Seq(Packets)]
  BY <1>1 DEF Posted, News
<1>5. known \subseteq 1 .. nextId' - 1 \cup MonsterIds /\ nextId \notin known
  BY <1>1, <1>2 DEF Keyed
<1>6. DOMAIN objects = known
  OBVIOUS
<1>7. own.type = "S_MyPlayer" /\ own.id = nextId /\ all.type = "S_AddObject" /\ all.objects = objects
  OBVIOUS
<1>. HIDE DEF own, all, objects, known
<1>8. \A id \in Nat : ~Told(t, id)
  BY <1>1 DEF AddedOnce
<1>9. DOMAIN client[t].copies = {} /\ \A id \in Nat : \A k \in News(t) : ~AddedAt(t, k, id)
  BY <1>8 DEF Told, AddedOnce
<1>10. client[t].my = NoPlayer
  BY <1>1 DEF Mine
<1>11. \A k \in News(t) : toClient[t][k].type # "S_MyPlayer"
  <2>. SUFFICES ASSUME NEW k \in News(t), toClient[t][k].type = "S_MyPlayer"
                PROVE  FALSE
    OBVIOUS
  <2>1. toClient[t][k].id = NoPlayer
    BY <1>1 DEF Mine
  <2>2. toClient[t][k] \in Packets
    BY <1>4, Element
  <2>. QED
    BY <2>1, <2>2, PacketHolds, GameRoomAssumption
<1>12. CASE toClient' = toClient
  <2>1. Mine(t)'
    BY <1>1, <1>10, <1>11, <1>12 DEF Mine, News
  <2>2. AddedOnce(t)'
    BY <1>1, <1>9, <1>12 DEF AddedOnce, Told, News, AddedAt
  <2>. QED
    BY <1>1, <1>9, <2>1, <2>2 DEF Copied
<1>13. CASE toClient' = [toClient EXCEPT ![t] = @ \o <<own, all>>]
  <2>1. toClient'[t] = toClient[t] \o <<own, all>>
    BY <1>1, <1>4, <1>13
  <2>2. /\ News(t)' = 1 .. n + 2
        /\ \A k \in 1 .. n : toClient'[t][k] = toClient[t][k]
        /\ toClient'[t][n + 1] = own /\ toClient'[t][n + 2] = all
    <3>1. Len(<<own, all>>) = 2 /\ <<own, all>>[1] = own /\ <<own, all>>[2] = all
      OBVIOUS
    <3>2. <<own, all>> \in Seq({own, all})
      OBVIOUS
    <3>6. News(t)' = DOMAIN toClient'[t]
      BY <1>1 DEF News
    <3>3. \A T : \A x, y \in Seq(T) :
            /\ DOMAIN (x \o y) = 1 .. Len(x) + Len(y)
            /\ \A k \in 1 .. Len(x) : (x \o y)[k] = x[k]
            /\ \A k \in 1 .. Len(y) : (x \o y)[Len(x) + k] = y[k]
      OBVIOUS
    <3>4. <<own, all>> \in Seq(Packets \cup {own, all}) /\ toClient[t] \in Seq(Packets \cup {own, all})
      BY <1>4
    <3>5. /\ DOMAIN toClient'[t] = 1 .. n + 2
          /\ \A k \in 1 .. n : toClient'[t][k] = toClient[t][k]
          /\ \A k \in 1 .. 2 : toClient'[t][n + k] = <<own, all>>[k]
      BY <2>1, <3>1, <3>3, <3>4
    <3>. QED
      BY <3>1, <3>5, <3>6
  <2>3. \A k \in News(t)' : k \in News(t) \/ k = n + 1 \/ k = n + 2
    BY <1>4, <2>2
  <2>4. \A k \in News(t)' : toClient'[t][k].type = "S_MyPlayer" => k = n + 1
    BY <1>4, <1>7, <1>11, <2>2, <2>3
  <2>5. \A k \in News(t)' : \A id \in Nat : AddedAt(t, k, id)' => k = n + 2 /\ id \in known
    <3>. SUFFICES ASSUME NEW k \in News(t)', NEW id \in Nat, AddedAt(t, k, id)'
                  PROVE  k = n + 2 /\ id \in known
      OBVIOUS
    <3>1. toClient'[t][k].type = "S_AddObject" /\ id \in DOMAIN toClient'[t][k].objects
      BY <1>1 DEF AddedAt
    <3>2. CASE k \in News(t)
      <4>1. AddedAt(t, k, id)
        BY <1>4, <2>2, <3>1, <3>2 DEF AddedAt
      <4>. QED
        BY <1>9, <3>2, <4>1
    <3>3. CASE k = n + 1
      BY <1>7, <2>2, <3>1, <3>3
    <3>4. CASE k = n + 2
      BY <1>6, <1>7, <2>2, <3>1, <3>4
    <3>. QED
      BY <2>3, <3>2, <3>3, <3>4
  <2>6. Mine(t)'
    BY <1>1, <1>2, <1>7, <1>10, <2>2, <2>4 DEF Mine
  <2>7. \A id \in Nat : Told(t, id)' => id \in known
    BY <1>1, <1>9, <2>5 DEF Told
  <2>8. AddedOnce(t)'
    <3>1. \A id \in Nat : Told(t, id)' =>
            /\ id \in 1 .. nextId' - 1 \cup MonsterIds /\ player'[t] # NoPlayer
            /\ Announcing' => id # player'[current']
      BY <1>1, <1>2, <1>5, <2>7
    <3>2. \A id \in Nat : \A k \in News(t)' : AddedAt(t, k, id)' =>
            /\ id \notin DOMAIN client'[t].copies
            /\ \A j \in News(t)' : AddedAt(t, j, id)' => j = k
      BY <1>9, <2>5
    <3>3. DOMAIN client'[t].copies \subseteq Nat
      BY <1>9
    <3>. QED
      BY <1>1, <3>1, <3>2, <3>3 DEF AddedOnce
  <2>. QED
    BY <1>1, <1>9, <2>6, <2>8 DEF Copied
<1>. QED
  BY <1>3, <1>12, <1>13

-----------------------------------------------------------------------------
\* What the handlers make of the next packet.
LEMMA Handled ==
  ASSUME IInv, IdsLast, Fields, NEW s \in Sessions, Mine(s), AddedOnce(s), Copied(s),
         1 \in News(s), NEW p \in Packets, p = toClient[s][1]
  PROVE  LET c == client[s]
             d == HandlePacket(c, p)
         IN /\ DOMAIN d = DOMAIN NewScene
            /\ d.my = c.my \/ (p.type = "S_MyPlayer" /\ d.my = p.id)
            /\ \A id \in DOMAIN d.copies : id \in DOMAIN c.copies \/ (id \in Nat /\ AddedAt(s, 1, id))
            /\ Single(d.copies)
            /\ d.my \notin DOMAIN d.copies
            /\ d.my = NoPlayer => DOMAIN d.copies \cap 1 .. MaxPlayerId = {}
<1>. DEFINE c == client[s]
            d == HandlePacket(c, p)
            Safe == /\ DOMAIN d = DOMAIN NewScene
                    /\ d.my = c.my \/ (p.type = "S_MyPlayer" /\ d.my = p.id)
                    /\ \A id \in DOMAIN d.copies :
                         id \in DOMAIN c.copies \/ (id \in Nat /\ AddedAt(s, 1, id))
                    /\ Single(d.copies)
                    /\ d.my \notin DOMAIN d.copies
                    /\ d.my = NoPlayer => DOMAIN d.copies \cap 1 .. MaxPlayerId = {}
<1>. SUFFICES Safe
  OBVIOUS
<1>1. /\ DOMAIN c = DOMAIN NewScene /\ Single(c.copies) /\ c.my \notin DOMAIN c.copies
      /\ c.my = NoPlayer => DOMAIN c.copies \cap 1 .. MaxPlayerId = {}
  BY DEF Fields, Copied
<1>2. ASSUME DOMAIN d = DOMAIN NewScene, d.my = c.my, d.copies = c.copies PROVE Safe
  BY <1>1, <1>2
<1>3. CASE p.type = "S_AddObject"
  <2>1. /\ DOMAIN d = DOMAIN NewScene /\ d.my = c.my
        /\ \/ d.copies = c.copies
           \/ /\ c.my # NoPlayer \/ DOMAIN p.objects \cap 1 .. MaxPlayerId = {}
              /\ DOMAIN d.copies = DOMAIN c.copies \cup New(c, p)
              /\ \A id \in DOMAIN c.copies \ New(c, p) : d.copies[id] = c.copies[id]
              /\ \A id \in New(c, p) \ DOMAIN c.copies : d.copies[id] = <<p.objects[id]>>
    <3>. HIDE DEF c
    <3>1. Added(c, p, d)
      BY <1>1, <1>3, AddHandled
    <3>. HIDE DEF d
    <3>. QED
      BY <3>1 DEF Added
  <2>. HIDE DEF d
  <2>2. CASE d.copies = c.copies
    BY <1>2, <2>1, <2>2
  <2>3. CASE d.copies # c.copies
    <3>1. /\ c.my # NoPlayer \/ DOMAIN p.objects \cap 1 .. MaxPlayerId = {}
          /\ DOMAIN d.copies = DOMAIN c.copies \cup New(c, p)
          /\ \A id \in DOMAIN c.copies \ New(c, p) : d.copies[id] = c.copies[id]
          /\ \A id \in New(c, p) \ DOMAIN c.copies : d.copies[id] = <<p.objects[id]>>
      BY <2>1, <2>3
    <3>2. \A id \in New(c, p) : id \in Nat /\ AddedAt(s, 1, id) /\ id # c.my /\ id \in DOMAIN p.objects
      BY <1>3, PacketHolds DEF New, AddedAt
    <3>3. New(c, p) \cap DOMAIN c.copies = {}
      BY <3>2 DEF AddedOnce
    <3>4. Single(d.copies)
      <4>. SUFFICES ASSUME NEW id \in DOMAIN d.copies
                    PROVE  d.copies[id] = <<d.copies[id][1]>>
        BY DEF Single
      <4>1. CASE id \in DOMAIN c.copies
        BY <1>1, <3>1, <3>3, <4>1 DEF Single
      <4>2. CASE id \in New(c, p)
        <5>1. d.copies[id] = <<p.objects[id]>>
          BY <3>1, <3>3, <4>2
        <5>2. \A x : <<x>>[1] = x
          OBVIOUS
        <5>. QED
          BY <5>1, <5>2
      <4>. QED
        BY <3>1, <4>1, <4>2
    <3>5. c.my = NoPlayer => DOMAIN d.copies \cap 1 .. MaxPlayerId = {}
      BY <1>1, <3>1, <3>2
    <3>. QED
      BY <1>1, <2>1, <3>1, <3>2, <3>4, <3>5
  <2>. QED
    BY <2>2, <2>3
<1>4. CASE p.type = "S_RemoveObject"
  <2>1. /\ DOMAIN d = DOMAIN NewScene /\ d.my = c.my
        /\ d.copies = c.copies \/ d.copies = Erase(c.copies, p.id)
    <3>. HIDE DEF c
    <3>1. Erased(c, p, d)
      BY <1>1, <1>4, RemoveHandled
    <3>. HIDE DEF d
    <3>. QED
      BY <3>1 DEF Erased
  <2>. HIDE DEF d
  <2>2. CASE d.copies = c.copies
    BY <1>2, <2>1, <2>2
  <2>3. CASE d.copies = Erase(c.copies, p.id)
    <3>1. /\ DOMAIN d.copies \subseteq DOMAIN c.copies
          /\ \A id \in DOMAIN d.copies : d.copies[id] = c.copies[id]
      BY <2>3 DEF Erase
    <3>2. Single(d.copies)
      BY <1>1, <3>1 DEF Single
    <3>. QED
      BY <1>1, <2>1, <3>1, <3>2
  <2>. QED
    BY <2>1, <2>2, <2>3
<1>5. CASE p.type = "S_Move"
  <2>1. /\ DOMAIN d = DOMAIN NewScene /\ d.my = c.my
        /\ \/ d.copies = c.copies
           \/ /\ DOMAIN d.copies = DOMAIN c.copies
              /\ d.copies[p.id] = <<p.info>>
              /\ \A id \in DOMAIN c.copies \ {p.id} : d.copies[id] = c.copies[id]
    <3>. HIDE DEF c
    <3>1. Moved(c, p, d)
      BY <1>1, <1>5, MoveHandled
    <3>. HIDE DEF d
    <3>. QED
      BY <3>1 DEF Moved
  <2>. HIDE DEF d
  <2>2. CASE d.copies = c.copies
    BY <1>2, <2>1, <2>2
  <2>3. CASE d.copies # c.copies
    <3>1. /\ DOMAIN d.copies = DOMAIN c.copies
          /\ d.copies[p.id] = <<p.info>>
          /\ \A id \in DOMAIN c.copies \ {p.id} : d.copies[id] = c.copies[id]
      BY <2>1, <2>3
    <3>2. \A x : <<x>>[1] = x
      OBVIOUS
    <3>3. Single(d.copies)
      BY <1>1, <3>1, <3>2 DEF Single
    <3>. QED
      BY <1>1, <2>1, <3>1, <3>3
  <2>. QED
    BY <2>2, <2>3
<1>6. CASE p.type \in {"S_EnterGame", "S_MyPlayer"}
  <2>1. /\ DOMAIN d = DOMAIN NewScene /\ d.copies = c.copies
        /\ d.my = c.my \/ (p.type = "S_MyPlayer" /\ d.my = p.id)
    <3>. HIDE DEF c
    <3>. QED
      BY <1>1, <1>6, OtherHandled
  <2>. HIDE DEF d
  <2>2. CASE d.my = c.my
    BY <1>2, <2>1, <2>2
  <2>3. CASE p.type = "S_MyPlayer" /\ d.my = p.id
    <3>1. p.id = player[s] /\ c.my = NoPlayer /\ p.id \in Nat
      BY <2>3, PacketHolds DEF Mine
    <3>2. p.id \in 1 .. nextId - 1 /\ nextId \in Nat
      BY <3>1, GameRoomAssumption DEF IInv, IdsGiven, TypeOK
    <3>3. p.id \in 1 .. MaxPlayerId
      BY <3>2, GameRoomAssumption DEF IdsLast
    <3>4. d.my \notin DOMAIN d.copies /\ d.my # NoPlayer
      BY <1>1, <2>1, <2>3, <3>1, <3>3, GameRoomAssumption
    <3>. QED
      BY <1>1, <2>1, <2>3, <3>4
  <2>. QED
    BY <2>1, <2>2, <2>3
<1>7. p.type \in {"S_EnterGame", "S_MyPlayer", "S_Move", "S_AddObject", "S_RemoveObject"}
  BY PacketHolds
<1>. HIDE DEF Safe
<1>. QED
  BY <1>3, <1>4, <1>5, <1>6, <1>7

\* A client handles its next packet.
LEMMA DispatchKeeps ==
  ASSUME IInv, IdsLast, Posted, Fields, NEW s \in Sessions, Mine(s), AddedOnce(s), Copied(s),
         Dispatch(s)
  PROVE  /\ Fields' /\ \A t \in Sessions : t # s => client'[t] = client[t]
         /\ Mine(s)' /\ AddedOnce(s)' /\ Copied(s)'
<1>. DEFINE p == Head(toClient[s])
            c == client[s]
            d == HandlePacket(c, p)
            n == Len(toClient[s])
<1>1. /\ toClient[s] # <<>> /\ toClient[s] \in Seq(Packets)
      /\ toClient' = [toClient EXCEPT ![s] = Tail(@)]
      /\ toClient \in [Sessions -> Seq(Packets)]
      /\ client' = [client EXCEPT ![s] = d] /\ DOMAIN client = Sessions
      /\ UNCHANGED <<sessionVars, roomVars, loopVars>>
  BY DEF Dispatch, Posted, Fields
<1>2. /\ n \in Nat /\ n > 0 /\ p = toClient[s][1] /\ Len(Tail(toClient[s])) = n - 1
      /\ \A k \in 1 .. n - 1 : Tail(toClient[s])[k] = toClient[s][k + 1]
  BY <1>1, NonEmptySeq
<1>3. News(s) = 1 .. n /\ News(s)' = 1 .. n - 1
      /\ \A k \in News(s)' : k + 1 \in News(s) /\ k + 1 # 1 /\ toClient'[s][k] = toClient[s][k + 1]
  <2>1. DOMAIN toClient[s] = 1 .. n /\ DOMAIN Tail(toClient[s]) = 1 .. n - 1
    <3>1. Tail(toClient[s]) \in Seq(Packets)
      BY <1>1
    <3>. QED
      BY <1>1, <1>2, <3>1
  <2>2. toClient'[s] = Tail(toClient[s])
    BY <1>1
  <2>3. News(s) = 1 .. n /\ News(s)' = 1 .. n - 1
    BY <2>1, <2>2 DEF News
  <2>. QED
    BY <1>2, <2>2, <2>3
<1>4. 1 \in News(s) /\ p \in Packets
  <2>1. 1 \in 1 .. n
    BY <1>2
  <2>. QED
    BY <1>1, <1>2, <1>3, <2>1, Element
<1>5. /\ DOMAIN d = DOMAIN NewScene
      /\ d.my = c.my \/ (p.type = "S_MyPlayer" /\ d.my = p.id)
      /\ \A id \in DOMAIN d.copies : id \in DOMAIN c.copies \/ (id \in Nat /\ AddedAt(s, 1, id))
      /\ Single(d.copies)
      /\ d.my \notin DOMAIN d.copies
      /\ d.my = NoPlayer => DOMAIN d.copies \cap 1 .. MaxPlayerId = {}
  <2>. HIDE DEF p
  <2>. QED
    BY <1>2, <1>4, Handled
<1>. HIDE DEF d, p
<1>6. client'[s] = d /\ \A t \in Sessions : t # s => client'[t] = client[t]
  BY <1>1
<1>7. Fields'
  BY <1>1, <1>5, <1>6 DEF Fields, NewScene
<1>8. Mine(s)'
  <2>1. \A k \in News(s)' : toClient'[s][k].type = "S_MyPlayer" =>
          /\ toClient'[s][k].id = player[s] /\ c.my = NoPlayer
          /\ \A j \in News(s)' : toClient'[s][j].type = "S_MyPlayer" => j = k
    <3>. SUFFICES ASSUME NEW k \in News(s)', toClient'[s][k].type = "S_MyPlayer"
                  PROVE  /\ toClient'[s][k].id = player[s] /\ c.my = NoPlayer
                         /\ \A j \in News(s)' : toClient'[s][j].type = "S_MyPlayer" => j = k
      OBVIOUS
    <3>1. k + 1 \in News(s) /\ toClient[s][k + 1].type = "S_MyPlayer" /\ k \in Int
      BY <1>3
    <3>2. \A j \in News(s) : toClient[s][j].type = "S_MyPlayer" => j = k + 1
      BY <3>1 DEF Mine
    <3>3. \A j \in News(s)' : toClient'[s][j].type = "S_MyPlayer" => j + 1 = k + 1 /\ j \in Int
      BY <1>3, <3>2
    <3>4. \A j \in News(s)' : toClient'[s][j].type = "S_MyPlayer" => j = k
      BY <3>1, <3>3
    <3>. QED
      BY <1>3, <3>1, <3>4 DEF Mine
  <2>2. \A k \in News(s)' : toClient'[s][k].type = "S_MyPlayer" => p.type # "S_MyPlayer"
    BY <1>2, <1>3, <1>4 DEF Mine
  <2>3. d.my \in {NoPlayer, player[s]}
    BY <1>2, <1>4, <1>5 DEF Mine
  <2>. QED
    BY <1>1, <1>5, <1>6, <2>1, <2>2, <2>3 DEF Mine, roomVars
<1>9. \A id \in Nat : \A k \in News(s)' : AddedAt(s, k, id)' => AddedAt(s, k + 1, id)
  BY <1>3 DEF AddedAt
<1>10. \A id \in Nat : Told(s, id)' => Told(s, id)
  <2>. SUFFICES ASSUME NEW id \in Nat, Told(s, id)' PROVE Told(s, id)
    OBVIOUS
  <2>1. CASE id \in DOMAIN d.copies
    BY <1>4, <1>5, <2>1 DEF Told
  <2>2. CASE \E k \in News(s)' : AddedAt(s, k, id)'
    BY <1>3, <1>9, <2>2 DEF Told
  <2>. QED
    BY <1>6, <2>1, <2>2 DEF Told
<1>11. AddedOnce(s)'
  <2>1. DOMAIN d.copies \subseteq Nat
    BY <1>5 DEF AddedOnce
  <2>2. \A id \in Nat : Told(s, id)' =>
          /\ id \in 1 .. nextId - 1 \cup MonsterIds
          /\ player[s] # NoPlayer
          /\ Announcing => id # player[current]
    BY <1>10 DEF AddedOnce
  <2>3. \A id \in Nat : \A k \in News(s)' : AddedAt(s, k, id)' =>
          /\ id \notin DOMAIN d.copies
          /\ \A j \in News(s)' : AddedAt(s, j, id)' => j = k
    <3>. SUFFICES ASSUME NEW id \in Nat, NEW k \in News(s)', AddedAt(s, k, id)'
                  PROVE  /\ id \notin DOMAIN d.copies
                         /\ \A j \in News(s)' : AddedAt(s, j, id)' => j = k
      OBVIOUS
    <3>1. AddedAt(s, k + 1, id) /\ k + 1 \in News(s) /\ k + 1 # 1 /\ k \in Int
      BY <1>3, <1>9
    <3>2. id \notin DOMAIN client[s].copies /\ \A j \in News(s) : AddedAt(s, j, id) => j = k + 1
      BY <3>1 DEF AddedOnce
    <3>3. id \notin DOMAIN d.copies
      BY <1>4, <1>5, <3>1, <3>2
    <3>4. \A j \in News(s)' : AddedAt(s, j, id)' => j + 1 = k + 1 /\ j \in Int
      BY <1>3, <1>9, <3>2
    <3>. QED
      BY <3>1, <3>3, <3>4
  <2>4. /\ nextId' = nextId /\ player'[s] = player[s]
        /\ Announcing' = Announcing /\ player'[current'] = player[current]
    BY <1>1 DEF roomVars, loopVars, Announcing
  <2>. QED
    BY <1>6, <2>1, <2>2, <2>3, <2>4 DEF AddedOnce
<1>12. Copied(s)'
  BY <1>5, <1>6 DEF Copied
<1>. QED
  BY <1>6, <1>7, <1>8, <1>11, <1>12

LEMMA SceneStep ==
  ASSUME IInv, IdsLast, IdsLast', RInv, [RNext]_rvars, NEW t \in Sessions
  PROVE  Mine(t)' /\ AddedOnce(t)' /\ Copied(t)'
<1>. DEFINE Goal == Mine(t)' /\ AddedOnce(t)' /\ Copied(t)'
<1>. SUFFICES Goal
  OBVIOUS
<1>. USE DEF rvars, vars, sessionVars, roomVars, loopVars, netVars, Running
<1>0. /\ Mine(t) /\ AddedOnce(t) /\ Copied(t) /\ Posted /\ Fields /\ Keyed
      /\ nextId \in Nat \ {0}
  BY DEF RInv, IInv, TypeOK
<1>. HIDE DEF Goal
<1>1. ASSUME toClient'[t] = toClient[t], UNCHANGED <<player, nextId>>,
             client'[t] = client[t] \/ Calm(t),
             Announcing' => Announcing /\ current' = current
      PROVE  Goal
  <2>1. Announcing' => \A id \in Nat : Told(t, id) => id # player'[current']
    BY <1>0, <1>1 DEF AddedOnce
  <2>. QED
    BY <1>0, <1>1, <2>1, StillKeeps DEF Goal
<1>2. ASSUME NEW s \in Sessions, OnConnected(s), UNCHANGED client PROVE Goal
  <2>1. ~Announcing' /\ UNCHANGED <<player, nextId>>
    BY <1>2 DEF OnConnected, Announcing
  <2>2. \/ toClient'[t] = toClient[t]
        \/ s = t /\ toClient'[t] = <<[type |-> "S_EnterGame"]>>
    BY <1>0, <1>2 DEF OnConnected, Posted
  <2>3. player[s] = NoPlayer
    BY <1>2 DEF OnConnected, IInv, IdsGiven
  <2>4. CASE toClient'[t] = toClient[t]
    BY <1>1, <1>2, <2>1, <2>4
  <2>5. CASE s = t /\ toClient'[t] = <<[type |-> "S_EnterGame"]>>
    BY <1>0, <1>2, <2>1, <2>3, <2>5, ConnectedKeeps DEF Goal
  <2>. QED
    BY <2>2, <2>4, <2>5
<1>3. ASSUME EnterRoom, UNCHANGED client PROVE Goal
  <2>1. CASE t = current
    BY <1>0, <1>3, <2>1, EnteredKeeps DEF Goal
  <2>2. CASE t # current
    <3>1. /\ toClient'[t] = toClient[t] /\ player'[t] = player[t] /\ nextId' = nextId + 1
          /\ player'[current'] = nextId
      BY <1>0, <1>3, <2>2 DEF EnterRoom, SendTo, Posted, IInv, IdsGiven, Serving, TypeOK
    <3>2. nextId \notin MonsterIds /\ nextId \notin 1 .. nextId - 1
      BY <1>0, <3>1, GameRoomAssumption DEF IdsLast
    <3>3. \A id \in Nat : Told(t, id) => id # player'[current']
      BY <1>0, <3>1, <3>2 DEF AddedOnce
    <3>4. nextId' \in Nat /\ nextId <= nextId'
      BY <1>0, <3>1
    <3>. QED
      BY <1>0, <1>3, <3>1, <3>3, <3>4, StillKeeps DEF Goal
  <2>. QED
    BY <2>1, <2>2
<1>4. ASSUME Broadcast, UNCHANGED client PROVE Goal
  <2>1. /\ ~Announcing' /\ loop = "Broadcast" /\ UNCHANGED <<player, nextId, current>>
    BY <1>4 DEF Broadcast, Announcing, IInv, TypeOK
  <2>2. \/ toClient'[t] = toClient[t]
        \/ t \in Receivers /\ toClient'[t] = Append(toClient[t], message)
    BY <1>4 DEF Broadcast
  <2>3. CASE toClient'[t] = toClient[t]
    BY <1>1, <1>4, <2>1, <2>3
  <2>4. CASE t \in Receivers /\ toClient'[t] = Append(toClient[t], message)
    <3>1. PICK id \in DOMAIN players : players[id] = t
      BY <2>4 DEF Receivers
    <3>2. player[t] = id /\ id \in Nat
      BY <1>0, <3>1, GameRoomAssumption DEF Keyed, IInv, TypeOK
    <3>3. player[t] # NoPlayer
      BY <3>2, GameRoomAssumption
    <3>. QED
      BY <1>0, <1>4, <2>1, <2>4, <3>3, BroadcastKeeps DEF Goal
  <2>. QED
    BY <2>2, <2>3, <2>4
<1>5. ASSUME NEW s \in Sessions, RecvZero(s) \/ ProcessSend(s), UNCHANGED client PROVE Goal
  <2>1. UNCHANGED <<toClient, player, nextId>>
    BY <1>5 DEF RecvZero, ProcessSend
  <2>2. ~Announcing'
    BY <1>5 DEF RecvZero, ProcessSend, Disconnect, LeaveRoom, StartBroadcast, Announcing
  <2>. QED
    BY <1>1, <1>5, <2>1, <2>2
<1>6. ASSUME NEW s \in Sessions, ProcessRecv(s) \/ ProcessDisconnect(s), UNCHANGED client PROVE Goal
  BY <1>1, <1>6 DEF ProcessRecv, ProcessDisconnect, Announcing
<1>7. ASSUME AddObject, UNCHANGED client PROVE Goal
  BY <1>1, <1>7 DEF AddObject, StartBroadcast, Announcing
<1>8. ASSUME HandleMove \/ UpdateMonster, UNCHANGED client PROVE Goal
  <2>1. UNCHANGED <<toClient, player, nextId>>
    BY <1>8 DEF HandleMove, UpdateMonster
  <2>2. ~Announcing'
    <3>1. CASE HandleMove
      BY <3>1 DEF HandleMove, StartBroadcast, Announcing
    <3>2. CASE UpdateMonster
      BY <3>2 DEF UpdateMonster, StartBroadcast, Announcing
    <3>. QED
      BY <1>8, <3>1, <3>2
  <2>. QED
    BY <1>1, <1>8, <2>1, <2>2
<1>9. ASSUME RegisterRecv \/ OnRecvReturns \/ UpdateReturns, UNCHANGED client PROVE Goal
  BY <1>1, <1>9 DEF RegisterRecv, OnRecvReturns, UpdateReturns, Announcing
<1>10. ASSUME Network, UNCHANGED client PROVE Goal
  BY <1>1, <1>10 DEF Network, Arrive, RecvEnd, Announcing
<1>11. ASSUME NEW s \in Sessions, Dispatch(s) PROVE Goal
  <2>1. CASE t = s
    BY <1>0, <1>11, <2>1, DispatchKeeps DEF Goal
  <2>2. CASE t # s
    <3>1. client'[t] = client[t]
      BY <1>0, <1>11, <2>2 DEF Dispatch, Fields
    <3>2. toClient'[t] = toClient[t] /\ UNCHANGED <<player, nextId, loop, message, current>>
      BY <1>0, <1>11, <2>2 DEF Dispatch, Posted
    <3>. QED
      BY <1>1, <3>1, <3>2 DEF Announcing
  <2>. QED
    BY <2>1, <2>2
<1>12. ASSUME NEW s \in Sessions,
              \/ Tick(s) \/ Collide(s) \/ ChangeScene(s)
              \/ \E m \in MonsterIds : Kill(s, m) \/ TickDead(s, m)
       PROVE  Goal
  <2>1. UNCHANGED <<toClient, player, nextId, loop, message, current>>
    BY <1>12 DEF Tick, Collide, ChangeScene, Kill, TickDead
  <2>2. Copied(s)
    BY DEF RInv
  <2>3. Calm(s) /\ (t # s => client'[t] = client[t])
    BY <1>0, <1>12, <2>2, CalmClient
  <2>. QED
    BY <1>1, <2>1, <2>3 DEF Announcing
<1>13. CASE UNCHANGED rvars
  BY <1>1, <1>13 DEF Announcing
<1>14. CASE Server /\ UNCHANGED <<client, sent>>
  BY <1>2, <1>3, <1>4, <1>5, <1>6, <1>7, <1>8, <1>9, <1>14 DEF Server
<1>. QED
  BY <1>10, <1>11, <1>12, <1>13, <1>14 DEF RNext, Client

LEMMA RInvInit == RInit => RInv
<1>. SUFFICES ASSUME RInit PROVE RInv
  OBVIOUS
<1>. USE DEF RInit, Init
<1>1. Posted
  <2>1. <<>> \in Seq(Packets)
    OBVIOUS
  <2>. QED
    BY <2>1 DEF Posted
<1>2. /\ Fields /\ Keyed
  BY DEF Fields, Keyed
<1>3. ASSUME NEW s \in Sessions PROVE Mine(s) /\ AddedOnce(s) /\ Copied(s)
  <2>1. /\ News(s) = {} /\ client[s].my = NoPlayer /\ DOMAIN client[s].copies = {}
    BY DEF News, NewScene
  <2>. QED
    BY <2>1 DEF Mine, AddedOnce, Told, Copied, Single
<1>. QED
  BY <1>1, <1>2, <1>3 DEF RInv

\* Whatever the clients do, the room and the ids are as they are without them.
LEMMA RoomKeeps ==
  ASSUME IInv, IdsHeld, RInv, [RNext]_rvars
  PROVE  IInv' /\ IdsHeld'
BY ClientsAreClients, RoomStepKeeps DEF RInv

LEMMA RInvStep ==
  ASSUME IInv, IdsLast, IdsLast', RInv, [RNext]_rvars
  PROVE  RInv'
<1>1. RoomStep
  BY ClientsAreClients DEF RInv
<1>2. Posted' /\ Keyed'
  BY <1>1, KeyedStep, PostedStep DEF RInv
<1>3. \A t \in Sessions : Mine(t)' /\ AddedOnce(t)' /\ Copied(t)'
  BY SceneStep
<1>4. Fields'
  <2>1. Fields
    BY DEF RInv
  <2>2. ASSUME UNCHANGED client PROVE Fields'
    BY <2>1, <2>2 DEF Fields, NewScene
  <2>3. ASSUME NEW s \in Sessions, Client(s) PROVE Fields'
    <3>1. CASE Dispatch(s)
      BY <3>1, DispatchKeeps DEF RInv
    <3>2. CASE ~Dispatch(s)
      BY <2>3, <3>2, CalmClient DEF RInv, Client
    <3>. QED
      BY <3>1, <3>2
  <2>. QED
    BY <2>2, <2>3 DEF RNext, rvars
<1>. QED
  BY <1>2, <1>3, <1>4 DEF RInv

LEMMA RInvAlways ==
  ASSUME IsFiniteSet(Sessions), Cardinality(Sessions) <= MaxPlayerId
  PROVE  RSpec => [](IInv /\ IdsLast /\ RInv)
<1>1. RInit => IInv /\ IdsHeld /\ RInv
  <2>1. RInit => Init
    BY DEF RInit
  <2>2. Init => IdsHeld
    BY DEF Init, IdsHeld
  <2>. QED
    BY <2>1, <2>2, InitInv, RInvInit
<1>2. IInv /\ IdsHeld => IdsLast
  BY IdsSuffice
<1>3. IInv /\ IdsHeld /\ RInv /\ [RNext]_rvars => IInv' /\ IdsHeld'
  BY RoomKeeps
<1>4. IInv /\ IdsLast /\ IdsLast' /\ RInv /\ [RNext]_rvars => RInv'
  BY RInvStep
<1>. QED
  BY <1>1, <1>2, <1>3, <1>4, PTL DEF RSpec

\* ClientPacketHandler.cpp:85-87: on a server that never meets more connections
\* than there are ids for players, a client has one actor for an object and no
\* second one for its own player, however connections break, however the
\* packets interleave with what the room does, and whatever the player does.
THEOREM OneActorEach ==
  ASSUME IsFiniteSet(Sessions), Cardinality(Sessions) <= MaxPlayerId
  PROVE  RSpec => []NoDuplicateActor
<1>1. RInv => NoDuplicateActor
  <2>1. \A x : Len(<<x>>) = 1
    OBVIOUS
  <2>. QED
    BY <2>1 DEF RInv, Copied, Single, NoDuplicateActor
<1>. QED
  BY <1>1, RInvAlways, PTL

-----------------------------------------------------------------------------
(* While connections end in order and nobody leaves the scene, what a      *)
(* packet names is there when it is handled.                               *)

MineAt(s, k) == toClient[s][k].type = "S_MyPlayer"

RemovedAt(s, k, id) == toClient[s][k].type = "S_RemoveObject" /\ toClient[s][k].id = id

NamedAt(s, k, id) ==
  toClient[s][k].type \in {"S_RemoveObject", "S_Move"} /\ toClient[s][k].id = id

InGame == DOMAIN players \cup MonsterIds

\* The client plays, and nothing it shows is dead.
Sound(s) ==
  /\ client[s].scene = "game" /\ ~client[s].undefined
  /\ \A id \in DOMAIN client[s].copies : client[s].copies[id][1] \in Infos

\* Nothing but the greeting comes before the client's own player.
Introduced(s) ==
  /\ player[s] # NoPlayer => client[s].my # NoPlayer \/ \E j \in News(s) : MineAt(s, j)
  /\ \A k \in News(s) :
       client[s].my = NoPlayer /\ toClient[s][k].type \notin {"S_EnterGame", "S_MyPlayer"} =>
         \E j \in News(s) : j < k /\ MineAt(s, j)

\* An object is named after it was added ...
Known(s) ==
  \A id \in Nat : \A k \in News(s) : NamedAt(s, k, id) /\ id # player[s] =>
    id \in DOMAIN client[s].copies \/ \E j \in News(s) : j < k /\ AddedAt(s, j, id)

\* ... and not again once it was removed.
Parted(s) ==
  \A id \in Nat : \A k \in News(s) : RemovedAt(s, k, id) =>
    /\ id # player[s] /\ id \notin InGame
    /\ \A l \in News(s) : k < l => ~NamedAt(s, l, id)

\* A client in the room was told of every other object in the game.
Whole(s) ==
  conn[s] = "connected" /\ player[s] # NoPlayer =>
    \A id \in InGame : id # player[s] /\ (Announcing => id # player[current]) => Told(s, id)

\* The packet that Broadcast is sending names what its receivers have or lost.
Sending ==
  /\ loop = "Broadcast" /\ message.type = "S_Move" => message.id \in InGame
  /\ loop = "Broadcast" /\ message.type = "S_RemoveObject" =>
       /\ message.id \notin InGame
       /\ \A s \in Receivers :
            /\ message.id # player[s] /\ Told(s, message.id)
            /\ \A k \in News(s) : ~RemovedAt(s, k, message.id)

SInv ==
  /\ \A s \in Sessions : Sound(s) /\ Introduced(s) /\ Known(s) /\ Parted(s) /\ Whole(s)
  /\ Sending

-----------------------------------------------------------------------------
\* What the handlers read and write of a client.
Same(s) ==
  /\ client'[s].scene = client[s].scene /\ client'[s].undefined = client[s].undefined
  /\ client'[s].my = client[s].my /\ client'[s].copies = client[s].copies

\* Nothing comes to the client, which handles nothing.
LEMMA StillInGame ==
  ASSUME NEW t \in Sessions, Sound(t), Introduced(t), Known(t), Parted(t), Whole(t),
         toClient'[t] = toClient[t], player'[t] = player[t], Same(t),
         \A id \in InGame' : id \in InGame \/ \A k \in News(t) : ~RemovedAt(t, k, id),
         conn'[t] = "connected" /\ player[t] # NoPlayer =>
           /\ conn[t] = "connected"
           /\ \A id \in InGame' : id # player[t] /\ (Announcing' => id # player'[current']) =>
                id \in InGame /\ (Announcing => id # player[current])
  PROVE  Sound(t)' /\ Introduced(t)' /\ Known(t)' /\ Parted(t)' /\ Whole(t)'
<1>1. /\ News(t)' = News(t)
      /\ \A k : MineAt(t, k)' = MineAt(t, k)
      /\ \A k, id : RemovedAt(t, k, id)' = RemovedAt(t, k, id)
      /\ \A k, id : NamedAt(t, k, id)' = NamedAt(t, k, id)
      /\ \A k, id : AddedAt(t, k, id)' = AddedAt(t, k, id)
  BY DEF News, MineAt, RemovedAt, NamedAt, AddedAt
<1>2. \A id : Told(t, id)' = Told(t, id)
  BY <1>1 DEF Told, Same
<1>3. Sound(t)'
  BY DEF Sound, Same
<1>4. Introduced(t)'
  BY <1>1 DEF Introduced, Same
<1>5. Known(t)'
  BY <1>1 DEF Known, Same
<1>6. Parted(t)'
  BY <1>1 DEF Parted
<1>7. Whole(t)'
  BY <1>2 DEF Whole
<1>. QED
  BY <1>3, <1>4, <1>5, <1>6, <1>7

\* A connection is accepted: nothing was sent, nothing is known.
LEMMA GreetedInGame ==
  ASSUME NEW t \in Sessions, Sound(t), player'[t] = NoPlayer, client'[t] = client[t],
         toClient'[t] = <<[type |-> "S_EnterGame"]>>
  PROVE  Sound(t)' /\ Introduced(t)' /\ Known(t)' /\ Parted(t)' /\ Whole(t)'
<1>1. News(t)' = {1} /\ toClient'[t][1].type = "S_EnterGame"
  BY DEF News
<1>2. \A k \in News(t)' : \A id : ~RemovedAt(t, k, id)' /\ ~NamedAt(t, k, id)'
  BY <1>1 DEF RemovedAt, NamedAt
<1>3. Introduced(t)'
  BY <1>1 DEF Introduced
<1>. QED
  BY <1>2, <1>3 DEF Sound, Known, Parted, Whole

\* The packets of a session that knows nothing yet name nothing.
LEMMA NothingNamed ==
  ASSUME NEW t \in Sessions, AddedOnce(t), Known(t), Posted, player[t] = NoPlayer
  PROVE  \A id \in Nat : \A k \in News(t) : ~NamedAt(t, k, id) /\ ~RemovedAt(t, k, id)
<1>1. \A id \in Nat : ~Told(t, id)
  BY DEF AddedOnce
<1>2. \A id \in Nat : id # player[t]
  BY GameRoomAssumption
<1>3. \A id \in Nat : \A k \in News(t) : ~NamedAt(t, k, id)
  BY <1>1, <1>2 DEF Known, Told
<1>. QED
  BY <1>3 DEF NamedAt, RemovedAt

\* A session enters.
LEMMA EnteredInGame ==
  ASSUME IInv, IdsLast', Orderly, Posted, Keyed, NEW t \in Sessions, t = current,
         Mine(t), AddedOnce(t), Sound(t), Introduced(t), Known(t), EnterRoom, UNCHANGED client
  PROVE  Sound(t)' /\ Introduced(t)' /\ Known(t)' /\ Parted(t)' /\ Whole(t)'
<1>. DEFINE known == DOMAIN players \cup monsters
            objects == [o \in known |-> info'[o]]
            own == [type |-> "S_MyPlayer", id |-> nextId, info |-> SpawnInfo]
            all == [type |-> "S_AddObject", objects |-> objects]
<1>0. PICK n \in Nat : n = Len(toClient[t])
  <2>1. toClient[t] \in Seq(Packets)
    BY DEF Posted
  <2>. QED
    BY <2>1
<1>1. /\ player[t] = NoPlayer /\ UNCHANGED <<players, current, conn>> /\ loop = "EnterRoom"
      /\ player' = [player EXCEPT ![t] = nextId] /\ player \in [Sessions -> Nat \cup {NoPlayer}]
      /\ nextId \in Nat \ {0}
  BY DEF EnterRoom, Running, IInv, IdsGiven, Serving, TypeOK
<1>2. player'[t] = nextId /\ client[t].my = NoPlayer
  BY <1>1 DEF Mine
<1>3. conn[t] = "connected"
  BY <1>1 DEF Orderly, Serving
<1>4. /\ toClient[t] \in Seq(Packets) /\ n = Len(toClient[t]) /\ News(t) = 1 .. n
      /\ toClient \in [Sessions -> Seq(Packets)]
  BY <1>0 DEF Posted, News
<1>5. toClient'[t] = toClient[t] \o <<own, all>>
  BY <1>3, <1>4 DEF EnterRoom, SendTo
<1>6. DOMAIN objects = InGame'
  BY <1>1 DEF Keyed, InGame
<1>7. own.type = "S_MyPlayer" /\ all.type = "S_AddObject" /\ all.objects = objects
  OBVIOUS
<1>. HIDE DEF own, all, objects, known
<1>8. /\ News(t)' = 1 .. n + 2
      /\ \A k \in 1 .. n : toClient'[t][k] = toClient[t][k]
      /\ toClient'[t][n + 1] = own /\ toClient'[t][n + 2] = all
  <2>1. Len(<<own, all>>) = 2 /\ <<own, all>>[1] = own /\ <<own, all>>[2] = all
    OBVIOUS
  <2>2. \A T : \A x, y \in Seq(T) :
          /\ DOMAIN (x \o y) = 1 .. Len(x) + Len(y)
          /\ \A k \in 1 .. Len(x) : (x \o y)[k] = x[k]
          /\ \A k \in 1 .. Len(y) : (x \o y)[Len(x) + k] = y[k]
    OBVIOUS
  <2>3. <<own, all>> \in Seq(Packets \cup {own, all}) /\ toClient[t] \in Seq(Packets \cup {own, all})
    BY <1>4
  <2>4. /\ DOMAIN toClient'[t] = 1 .. n + 2
        /\ \A k \in 1 .. n : toClient'[t][k] = toClient[t][k]
        /\ \A k \in 1 .. 2 : toClient'[t][n + k] = <<own, all>>[k]
    BY <1>4, <1>5, <2>1, <2>2, <2>3
  <2>. QED
    BY <2>1, <2>4 DEF News
<1>9. \A k \in News(t)' : k \in News(t) \/ k = n + 1 \/ k = n + 2
  BY <1>4, <1>8
<1>10. \A k \in News(t)' : \A id \in Nat : ~NamedAt(t, k, id)' /\ ~RemovedAt(t, k, id)'
  <2>. SUFFICES ASSUME NEW k \in News(t)', NEW id \in Nat
                PROVE  ~NamedAt(t, k, id)' /\ ~RemovedAt(t, k, id)'
    OBVIOUS
  <2>1. CASE k \in News(t)
    <3>1. ~NamedAt(t, k, id) /\ ~RemovedAt(t, k, id)
      BY <1>1, <2>1, NothingNamed
    <3>. QED
      BY <1>4, <1>8, <2>1, <3>1 DEF NamedAt, RemovedAt
  <2>2. CASE k = n + 1 \/ k = n + 2
    BY <1>7, <1>8, <2>2 DEF NamedAt, RemovedAt
  <2>. QED
    BY <1>9, <2>1, <2>2
<1>11. Introduced(t)'
  <2>1. n + 1 \in News(t)' /\ MineAt(t, n + 1)'
    BY <1>4, <1>7, <1>8 DEF MineAt
  <2>2. ASSUME NEW k \in News(t)', client[t].my = NoPlayer,
               toClient'[t][k].type \notin {"S_EnterGame", "S_MyPlayer"}
        PROVE  \E j \in News(t)' : j < k /\ MineAt(t, j)'
    <3>1. CASE k \in News(t)
      <4>1. toClient[t][k].type \notin {"S_EnterGame", "S_MyPlayer"}
        BY <1>4, <1>8, <2>2, <3>1
      <4>2. PICK j \in News(t) : j < k /\ MineAt(t, j)
        BY <2>2, <3>1, <4>1 DEF Introduced
      <4>3. j \in News(t)' /\ MineAt(t, j)'
        BY <1>4, <1>8, <4>2 DEF MineAt
      <4>. QED
        BY <4>2, <4>3
    <3>2. CASE k = n + 1
      BY <1>7, <1>8, <2>2, <3>2
    <3>3. CASE k = n + 2
      BY <1>4, <2>1, <3>3
    <3>. QED
      BY <1>9, <3>1, <3>2, <3>3
  <2>. QED
    BY <2>1, <2>2 DEF Introduced
<1>12. Whole(t)'
  <2>1. n + 2 \in News(t)'
    BY <1>4, <1>8
  <2>2. \A id \in InGame' : AddedAt(t, n + 2, id)'
    BY <1>6, <1>7, <1>8 DEF AddedAt
  <2>3. \A id \in InGame' : Told(t, id)'
    BY <2>1, <2>2 DEF Told
  <2>. QED
    BY <2>3 DEF Whole
<1>. QED
  BY <1>10, <1>11, <1>12 DEF Sound, Known, Parted

\* The room's packet reaches a client in the room.
LEMMA BroadcastInGame ==
  ASSUME IInv, Posted, NEW t \in Sessions, t \in Receivers, player[t] # NoPlayer,
         Mine(t), Sound(t), Introduced(t), Known(t), Parted(t), Whole(t), Sending,
         conn[t] = "connected", loop = "Broadcast", toClient'[t] = Append(toClient[t], message),
         UNCHANGED <<player, players, conn, client, current>>, ~Announcing'
  PROVE  Sound(t)' /\ Introduced(t)' /\ Known(t)' /\ Parted(t)' /\ Whole(t)'
<1>0. PICK n \in Nat : n = Len(toClient[t])
  <2>1. toClient[t] \in Seq(Packets)
    BY DEF Posted
  <2>. QED
    BY <2>1
<1>1. /\ News(t) = 1 .. n /\ News(t)' = 1 .. n + 1
      /\ \A k \in News(t) : toClient'[t][k] = toClient[t][k]
      /\ toClient'[t][n + 1] = message
  <2>1. toClient[t] \in Seq(Packets)
    BY DEF Posted
  <2>. QED
    BY <1>0, <2>1 DEF News
<1>2. /\ message \in Packets /\ message.type \in {"S_AddObject", "S_RemoveObject", "S_Move"}
      /\ message.type = "S_AddObject" => DOMAIN message.objects = {player[current]}
      /\ message.type = "S_AddObject" <=> Announcing
  BY DEF Posted, Announcing
<1>3. /\ \A k \in News(t) : k \in News(t)' /\ k < n + 1
      /\ \A k \in News(t)' : k \in News(t) \/ k = n + 1
      /\ n + 1 \in News(t)'
  BY <1>1
<1>4. /\ \A k \in News(t) : MineAt(t, k)' <=> MineAt(t, k)
      /\ \A k \in News(t), id \in Nat : RemovedAt(t, k, id)' <=> RemovedAt(t, k, id)
      /\ \A k \in News(t), id \in Nat : NamedAt(t, k, id)' <=> NamedAt(t, k, id)
      /\ \A k \in News(t), id \in Nat : AddedAt(t, k, id)' <=> AddedAt(t, k, id)
  BY <1>1 DEF MineAt, RemovedAt, NamedAt, AddedAt
<1>5. \A id \in Nat : Told(t, id) => Told(t, id)'
  BY <1>3, <1>4 DEF Told
<1>6. Introduced(t)'
  <2>1. client[t].my # NoPlayer \/ \E j \in News(t) : MineAt(t, j)
    BY DEF Introduced
  <2>2. client[t].my # NoPlayer \/ \E j \in News(t)' : j < n + 1 /\ MineAt(t, j)'
    BY <1>3, <1>4, <2>1
  <2>3. ASSUME NEW k \in News(t)', client[t].my = NoPlayer,
               toClient'[t][k].type \notin {"S_EnterGame", "S_MyPlayer"}
        PROVE  \E j \in News(t)' : j < k /\ MineAt(t, j)'
    <3>1. CASE k \in News(t)
      <4>1. PICK j \in News(t) : j < k /\ MineAt(t, j)
        BY <1>1, <2>3, <3>1 DEF Introduced
      <4>. QED
        BY <1>3, <1>4, <4>1
    <3>2. CASE k = n + 1
      BY <2>2, <2>3, <3>2
    <3>. QED
      BY <1>3, <3>1, <3>2
  <2>. QED
    BY <2>2, <2>3 DEF Introduced
<1>7. \A id \in Nat : NamedAt(t, n + 1, id)' /\ id # player[t] => Told(t, id)
  <2>. SUFFICES ASSUME NEW id \in Nat, NamedAt(t, n + 1, id)', id # player[t]
                PROVE  Told(t, id)
    OBVIOUS
  <2>1. message.id = id /\ message.type \in {"S_RemoveObject", "S_Move"}
    BY <1>1 DEF NamedAt
  <2>2. CASE message.type = "S_Move"
    <3>1. id \in InGame /\ ~Announcing
      BY <1>2, <2>1, <2>2 DEF Sending
    <3>. QED
      BY <3>1 DEF Whole
  <2>3. CASE message.type = "S_RemoveObject"
    BY <2>1, <2>3 DEF Sending
  <2>. QED
    BY <2>1, <2>2, <2>3
<1>8. Known(t)'
  <2>. SUFFICES ASSUME NEW id \in Nat, NEW k \in News(t)', NamedAt(t, k, id)', id # player[t]
                PROVE  \/ id \in DOMAIN client[t].copies
                       \/ \E j \in News(t)' : j < k /\ AddedAt(t, j, id)'
    BY DEF Known
  <2>1. CASE k \in News(t)
    <3>1. \/ id \in DOMAIN client[t].copies
          \/ \E j \in News(t) : j < k /\ AddedAt(t, j, id)
      BY <1>4, <2>1 DEF Known
    <3>. QED
      BY <1>3, <1>4, <3>1
  <2>2. CASE k = n + 1
    BY <1>3, <1>4, <1>7, <2>2 DEF Told
  <2>. QED
    BY <1>3, <2>1, <2>2
<1>9. Parted(t)'
  <2>. SUFFICES ASSUME NEW id \in Nat, NEW k \in News(t)', RemovedAt(t, k, id)'
                PROVE  /\ id # player[t] /\ id \notin InGame
                       /\ \A l \in News(t)' : k < l => ~NamedAt(t, l, id)'
    BY DEF Parted, InGame
  <2>1. CASE k \in News(t)
    <3>1. /\ id # player[t] /\ id \notin InGame
          /\ \A l \in News(t) : k < l => ~NamedAt(t, l, id)
      BY <1>4, <2>1 DEF Parted
    <3>2. ~NamedAt(t, n + 1, id)'
      <4>. SUFFICES ASSUME NamedAt(t, n + 1, id)' PROVE FALSE
        OBVIOUS
      <4>1. message.id = id /\ message.type \in {"S_RemoveObject", "S_Move"}
        BY <1>1 DEF NamedAt
      <4>2. message.type = "S_RemoveObject"
        BY <3>1, <4>1 DEF Sending
      <4>3. ~RemovedAt(t, k, id)
        BY <2>1, <4>1, <4>2 DEF Sending
      <4>. QED
        BY <1>4, <2>1, <4>3
    <3>. QED
      BY <1>3, <1>4, <3>1, <3>2
  <2>2. CASE k = n + 1
    <3>1. message.type = "S_RemoveObject" /\ message.id = id
      BY <1>1, <2>2 DEF RemovedAt
    <3>2. \A l \in News(t)' : ~(k < l)
      BY <1>1, <2>2
    <3>. QED
      BY <3>1, <3>2 DEF Sending
  <2>. QED
    BY <1>3, <2>1, <2>2
<1>10. Whole(t)'
  <2>. SUFFICES ASSUME NEW id \in InGame, id # player[t]
                PROVE  Told(t, id)'
    BY DEF Whole, InGame
  <2>0. id \in Nat
    BY GameRoomAssumption DEF InGame, IInv, TypeOK
  <2>1. CASE Announcing => id # player[current]
    BY <1>5, <2>0, <2>1 DEF Whole
  <2>2. CASE Announcing /\ id = player[current]
    <3>1. AddedAt(t, n + 1, id)'
      BY <1>1, <1>2, <2>2 DEF AddedAt
    <3>. QED
      BY <1>3, <3>1 DEF Told
  <2>. QED
    BY <2>1, <2>2
<1>11. Sound(t)'
  BY DEF Sound
<1>. QED
  BY <1>6, <1>8, <1>9, <1>10, <1>11

-----------------------------------------------------------------------------
\* What the handlers make of the next packet of a client that plays.
LEMMA HandledInGame ==
  ASSUME IInv, IdsLast, Fields, NEW s \in Sessions, Mine(s), AddedOnce(s), Copied(s),
         Sound(s), Introduced(s), Known(s), Parted(s), 1 \in News(s), News(s) \subseteq Nat \ {0},
         NEW p \in Packets, p = toClient[s][1]
  PROVE  LET c == client[s]
             d == HandlePacket(c, p)
         IN /\ d.scene = "game" /\ ~d.undefined
            /\ \A id \in DOMAIN d.copies : d.copies[id][1] \in Infos
            /\ \A id \in DOMAIN c.copies : id \in DOMAIN d.copies \/ RemovedAt(s, 1, id)
            /\ \A id \in Nat : AddedAt(s, 1, id) => id \in DOMAIN d.copies \/ id = player[s]
            /\ d.my = IF p.type = "S_MyPlayer" THEN p.id ELSE c.my
<1>. DEFINE c == client[s]
            d == HandlePacket(c, p)
            Goal == /\ d.scene = "game" /\ ~d.undefined
                    /\ \A id \in DOMAIN d.copies : d.copies[id][1] \in Infos
                    /\ \A id \in DOMAIN c.copies : id \in DOMAIN d.copies \/ RemovedAt(s, 1, id)
                    /\ \A id \in Nat : AddedAt(s, 1, id) => id \in DOMAIN d.copies \/ id = player[s]
                    /\ d.my = IF p.type = "S_MyPlayer" THEN p.id ELSE c.my
<1>. SUFFICES Goal
  OBVIOUS
<1>1. /\ DOMAIN c = DOMAIN NewScene /\ Single(c.copies) /\ c.my \in {NoPlayer, player[s]}
      /\ c.scene = "game" /\ ~c.undefined /\ \A id \in DOMAIN c.copies : c.copies[id][1] \in Infos
  BY DEF Fields, Copied, Mine, Sound
<1>2. p.type \notin {"S_EnterGame", "S_MyPlayer"} => c.my # NoPlayer
  BY DEF Introduced
<1>3. \A x : <<x>>[1] = x
  OBVIOUS
<1>4. CASE p.type = "S_AddObject"
  <2>1. Added(c, p, d)
    <3>. HIDE DEF c
    <3>. QED
      BY <1>1, <1>4, AddHandled
  <2>. HIDE DEF d
  <2>2. /\ d.scene = "game" /\ d.my = c.my /\ ~d.undefined
        /\ DOMAIN d.copies = DOMAIN c.copies \cup New(c, p)
        /\ \A id \in DOMAIN c.copies \ New(c, p) : d.copies[id] = c.copies[id]
        /\ \A id \in New(c, p) \ DOMAIN c.copies : d.copies[id] = <<p.objects[id]>>
    BY <1>1, <1>2, <1>4, <2>1 DEF Added
  <2>3. \A id \in New(c, p) : /\ id \in Nat /\ AddedAt(s, 1, id) /\ p.objects[id] \in Infos
                              /\ id \notin DOMAIN c.copies
    <3>1. \A id \in New(c, p) : id \in DOMAIN p.objects
      BY DEF New
    <3>2. \A id \in DOMAIN p.objects : id \in Nat /\ AddedAt(s, 1, id) /\ p.objects[id] \in Infos
      BY <1>4, PacketHolds DEF AddedAt
    <3>3. \A id \in Nat : AddedAt(s, 1, id) => id \notin DOMAIN c.copies
      BY DEF AddedOnce
    <3>. QED
      BY <3>1, <3>2, <3>3
  <2>4. \A id \in DOMAIN d.copies : d.copies[id][1] \in Infos
    <3>. SUFFICES ASSUME NEW id \in DOMAIN d.copies PROVE d.copies[id][1] \in Infos
      OBVIOUS
    <3>1. CASE id \in New(c, p)
      <4>1. d.copies[id] = <<p.objects[id]>> /\ p.objects[id] \in Infos
        BY <2>2, <2>3, <3>1
      <4>. QED
        BY <1>3, <4>1
    <3>2. CASE id \notin New(c, p)
      BY <1>1, <2>2, <3>2
    <3>. QED
      BY <3>1, <3>2
  <2>5. \A id \in Nat : AddedAt(s, 1, id) => id \in DOMAIN d.copies \/ id = player[s]
    <3>. SUFFICES ASSUME NEW id \in Nat, AddedAt(s, 1, id), id # player[s]
                  PROVE  id \in New(c, p)
      BY <2>2
    <3>1. id \in DOMAIN p.objects
      BY DEF AddedAt
    <3>2. id \in 1 .. nextId - 1 \cup MonsterIds
      BY DEF AddedOnce, Told
    <3>3. 1 .. nextId - 1 \subseteq 1 .. MaxPlayerId
      BY GameRoomAssumption DEF IdsLast, IInv, TypeOK
    <3>4. id # c.my
      BY <1>1, GameRoomAssumption
    <3>. QED
      BY <3>1, <3>2, <3>3, <3>4 DEF New
  <2>. QED
    BY <1>4, <2>2, <2>4, <2>5
<1>5. CASE p.type = "S_RemoveObject"
  <2>0. p.id \in Nat /\ RemovedAt(s, 1, p.id) /\ NamedAt(s, 1, p.id)
    BY <1>5, PacketHolds DEF RemovedAt, NamedAt
  <2>1. /\ d.my = c.my /\ d.scene = c.scene
        /\ IF p.id \notin DOMAIN c.copies THEN d.copies = c.copies /\ d.undefined = TRUE
           ELSE d.copies = Erase(c.copies, p.id) /\ d.undefined = c.undefined
    <3>. HIDE DEF c
    <3>1. Erased(c, p, d)
      BY <1>1, <1>5, RemoveHandled
    <3>. HIDE DEF d
    <3>. QED
      BY <3>1 DEF Erased
  <2>. HIDE DEF d
  <2>2. p.id \in DOMAIN c.copies
    <3>1. \A j \in News(s) : ~(j < 1)
      OBVIOUS
    <3>2. p.id # player[s]
      BY <2>0 DEF Parted
    <3>. QED
      BY <2>0, <3>1, <3>2 DEF Known
  <2>3. /\ DOMAIN d.copies = DOMAIN c.copies \ {p.id}
        /\ \A id \in DOMAIN d.copies : d.copies[id] = c.copies[id]
        /\ ~d.undefined
    BY <1>1, <2>1, <2>2 DEF Erase
  <2>4. \A id \in Nat : ~AddedAt(s, 1, id)
    BY <1>5 DEF AddedAt
  <2>. QED
    BY <1>1, <1>5, <2>0, <2>1, <2>3, <2>4
<1>6. CASE p.type = "S_Move"
  <2>0. p.id \in Nat /\ p.info \in Infos /\ NamedAt(s, 1, p.id)
    BY <1>6, PacketHolds DEF NamedAt
  <2>1. /\ d.my = c.my /\ d.scene = c.scene
        /\ DOMAIN d.copies = DOMAIN c.copies
        /\ IF c.scene # "game" \/ c.my = p.id THEN d = c
           ELSE IF c.my = NoPlayer \/ p.id \notin DOMAIN c.copies
             THEN d.copies = c.copies /\ d.undefined = TRUE
           ELSE /\ d.undefined = c.undefined
                /\ d.copies[p.id] = <<p.info>>
                /\ \A id \in DOMAIN c.copies \ {p.id} : d.copies[id] = c.copies[id]
    <3>. HIDE DEF c
    <3>1. Moved(c, p, d)
      BY <1>1, <1>6, MoveHandled
    <3>. HIDE DEF d
    <3>. QED
      BY <3>1 DEF Moved
  <2>. HIDE DEF d
  <2>2. p.id # player[s] => p.id \in DOMAIN c.copies
    <3>1. \A j \in News(s) : ~(j < 1)
      OBVIOUS
    <3>. QED
      BY <2>0, <3>1 DEF Known
  <2>3. c.my = player[s]
    BY <1>1, <1>2, <1>6
  <2>4. \A id \in Nat : ~AddedAt(s, 1, id)
    BY <1>6 DEF AddedAt
  <2>5. CASE p.id = player[s]
    <3>1. d = c
      BY <2>1, <2>3, <2>5
    <3>. QED
      BY <1>1, <1>6, <2>4, <3>1
  <2>6. CASE p.id # player[s]
    <3>1. /\ d.undefined = c.undefined
          /\ d.copies[p.id] = <<p.info>>
          /\ \A id \in DOMAIN c.copies \ {p.id} : d.copies[id] = c.copies[id]
      BY <1>1, <1>2, <1>6, <2>1, <2>2, <2>3, <2>6
    <3>2. \A id \in DOMAIN d.copies : d.copies[id][1] \in Infos
      BY <1>1, <1>3, <2>0, <2>1, <3>1
    <3>. QED
      BY <1>1, <1>6, <2>1, <2>4, <3>1, <3>2
  <2>. QED
    BY <2>5, <2>6
<1>7. CASE p.type \in {"S_EnterGame", "S_MyPlayer"}
  <2>1. /\ d.scene = c.scene /\ d.copies = c.copies /\ d.undefined = c.undefined
        /\ d.my = IF p.type = "S_MyPlayer" /\ c.scene = "game" THEN p.id ELSE c.my
    <3>. HIDE DEF c
    <3>. QED
      BY <1>1, <1>7, OtherHandled
  <2>. HIDE DEF d
  <2>2. \A id \in Nat : ~AddedAt(s, 1, id)
    BY <1>7 DEF AddedAt
  <2>. QED
    BY <1>1, <2>1, <2>2
<1>8. p.type \in {"S_EnterGame", "S_MyPlayer", "S_Move", "S_AddObject", "S_RemoveObject"}
  BY PacketHolds
<1>. HIDE DEF Goal
<1>. QED
  BY <1>4, <1>5, <1>6, <1>7, <1>8

\* Where the packets on the way to a client are once it has handled the first.
LEMMA Shifted ==
  ASSUME Posted, NEW s \in Sessions, Dispatch(s)
  PROVE  /\ 1 \in News(s) /\ News(s) \subseteq Nat \ {0} /\ News(s)' \subseteq Nat \ {0}
         /\ Head(toClient[s]) = toClient[s][1] /\ toClient[s][1] \in Packets
         /\ \A k \in News(s)' : toClient'[s][k] = toClient[s][k + 1]
         /\ \A k \in News(s)' : k + 1 \in News(s) /\ k + 1 > 1
         /\ \A j \in News(s) : j = 1 \/ \E i \in News(s)' : j = i + 1
         /\ \A i, k \in News(s)' : i + 1 < k + 1 => i < k
         /\ \A i, k \in News(s)' : i < k => i + 1 < k + 1
<1>0. PICK n \in Nat : n = Len(toClient[s])
  <2>1. toClient[s] \in Seq(Packets)
    BY DEF Posted
  <2>. QED
    BY <2>1
<1>1. /\ toClient[s] # <<>> /\ toClient[s] \in Seq(Packets)
      /\ toClient' = [toClient EXCEPT ![s] = Tail(@)]
      /\ toClient \in [Sessions -> Seq(Packets)]
  BY DEF Dispatch, Posted
<1>2. /\ n > 0 /\ Head(toClient[s]) = toClient[s][1] /\ Len(Tail(toClient[s])) = n - 1
      /\ \A k \in 1 .. n - 1 : Tail(toClient[s])[k] = toClient[s][k + 1]
  BY <1>0, <1>1, NonEmptySeq
<1>3. News(s) = 1 .. n /\ News(s)' = 1 .. n - 1
      /\ \A k \in News(s)' : toClient'[s][k] = toClient[s][k + 1]
  <2>1. DOMAIN toClient[s] = 1 .. n /\ DOMAIN Tail(toClient[s]) = 1 .. n - 1
    <3>1. Tail(toClient[s]) \in Seq(Packets)
      BY <1>1
    <3>. QED
      BY <1>0, <1>1, <1>2, <3>1
  <2>2. toClient'[s] = Tail(toClient[s])
    BY <1>1
  <2>3. News(s) = 1 .. n /\ News(s)' = 1 .. n - 1
    BY <2>1, <2>2 DEF News
  <2>. QED
    BY <1>2, <2>2, <2>3
<1>4. /\ 1 \in News(s) /\ News(s) \subseteq Nat \ {0} /\ News(s)' \subseteq Nat \ {0}
      /\ \A k \in News(s)' : k + 1 \in News(s) /\ k + 1 > 1
      /\ \A j \in News(s) : j = 1 \/ \E i \in News(s)' : j = i + 1
      /\ \A i, k \in News(s)' : i + 1 < k + 1 => i < k
      /\ \A i, k \in News(s)' : i < k => i + 1 < k + 1
  <2>. DEFINE old == 1 .. n
              new == 1 .. n - 1
  <2>1. /\ 1 \in old /\ old \subseteq Nat \ {0} /\ new \subseteq Nat \ {0}
        /\ \A k \in new : k + 1 \in old /\ k + 1 > 1
    BY <1>2
  <2>2. \A j \in old : j = 1 \/ (j - 1 \in new /\ (j - 1) + 1 = j)
    BY <1>2
  <2>3. \A j \in old : j = 1 \/ \E i \in new : j = i + 1
    BY <2>2
  <2>4. /\ \A i, k \in new : i + 1 < k + 1 => i < k
        /\ \A i, k \in new : i < k => i + 1 < k + 1
    OBVIOUS
  <2>. HIDE DEF old, new
  <2>5. News(s) = old /\ News(s)' = new
    BY <1>3 DEF old, new
  <2>. QED
    BY <2>1, <2>3, <2>4, <2>5
<1>5. toClient[s][1] \in Packets
  BY <1>1, <1>4, Element DEF News
<1>. QED
  BY <1>2, <1>3, <1>4, <1>5

\* A client that plays handles its next packet.
LEMMA ReadInGame ==
  ASSUME IInv, IdsLast, Posted, Fields, NEW s \in Sessions, Mine(s), AddedOnce(s), Copied(s),
         Sound(s), Introduced(s), Known(s), Parted(s), Whole(s), Dispatch(s)
  PROVE  /\ Sound(s)' /\ Introduced(s)' /\ Known(s)' /\ Parted(s)' /\ Whole(s)'
         /\ \A id \in Nat : Told(s, id) /\ id # player[s] /\ (\A k \in News(s) : ~RemovedAt(s, k, id)) =>
              Told(s, id)' /\ \A k \in News(s)' : ~RemovedAt(s, k, id)'
<1>. DEFINE d == HandlePacket(client[s], Head(toClient[s]))
<1>1. /\ client' = [client EXCEPT ![s] = d] /\ DOMAIN client = Sessions
      /\ UNCHANGED <<sessionVars, roomVars, loopVars>>
  BY DEF Dispatch, Fields
<1>2. Head(toClient[s]) = toClient[s][1] /\ toClient[s][1] \in Packets
  BY Shifted
<1>3. \A k \in News(s)' : toClient'[s][k] = toClient[s][k + 1]
  BY Shifted
<1>4. /\ 1 \in News(s) /\ News(s) \subseteq Nat \ {0} /\ News(s)' \subseteq Nat \ {0}
      /\ \A k \in News(s)' : k + 1 \in News(s) /\ k + 1 > 1
      /\ \A j \in News(s) : j = 1 \/ \E i \in News(s)' : j = i + 1
      /\ \A i, k \in News(s)' : i + 1 < k + 1 => i < k
      /\ \A i, k \in News(s)' : i < k => i + 1 < k + 1
  BY Shifted
<1>6. LET c == client[s]
          p == toClient[s][1]
      IN /\ d.scene = "game" /\ ~d.undefined
         /\ \A id \in DOMAIN d.copies : d.copies[id][1] \in Infos
         /\ \A id \in DOMAIN c.copies : id \in DOMAIN d.copies \/ RemovedAt(s, 1, id)
         /\ \A id \in Nat : AddedAt(s, 1, id) => id \in DOMAIN d.copies \/ id = player[s]
         /\ d.my = IF p.type = "S_MyPlayer" THEN p.id ELSE c.my
  BY <1>2, <1>4, HandledInGame
<1>. HIDE DEF d
<1>7. /\ client'[s] = d
      /\ UNCHANGED <<player, players, conn, loop, message, current>>
  BY <1>1 DEF roomVars, sessionVars, loopVars
<1>8. /\ \A k \in News(s)' : MineAt(s, k)' <=> MineAt(s, k + 1)
      /\ \A k \in News(s)' : \A id \in Nat :
           /\ RemovedAt(s, k, id)' <=> RemovedAt(s, k + 1, id)
           /\ NamedAt(s, k, id)' <=> NamedAt(s, k + 1, id)
           /\ AddedAt(s, k, id)' <=> AddedAt(s, k + 1, id)
  BY <1>3 DEF MineAt, RemovedAt, NamedAt, AddedAt
<1>9. Sound(s)'
  BY <1>6, <1>7 DEF Sound
<1>10. d.my = NoPlayer => client[s].my = NoPlayer /\ ~MineAt(s, 1)
  <2>1. toClient[s][1].type = "S_MyPlayer" => toClient[s][1].id \in Nat
    BY <1>2, PacketHolds
  <2>. QED
    BY <1>6, <2>1, GameRoomAssumption DEF MineAt
<1>11. Introduced(s)'
  <2>1. ASSUME player[s] # NoPlayer, d.my = NoPlayer PROVE \E j \in News(s)' : MineAt(s, j)'
    <3>1. PICK j \in News(s) : MineAt(s, j)
      BY <1>10, <2>1 DEF Introduced
    <3>2. PICK i \in News(s)' : j = i + 1
      BY <1>4, <1>10, <2>1, <3>1
    <3>. QED
      BY <1>8, <3>1, <3>2
  <2>2. ASSUME NEW k \in News(s)', d.my = NoPlayer,
               toClient'[s][k].type \notin {"S_EnterGame", "S_MyPlayer"}
        PROVE  \E j \in News(s)' : j < k /\ MineAt(s, j)'
    <3>1. k + 1 \in News(s) /\ toClient[s][k + 1].type \notin {"S_EnterGame", "S_MyPlayer"}
      BY <1>3, <1>4, <2>2
    <3>2. PICK j \in News(s) : j < k + 1 /\ MineAt(s, j)
      BY <1>10, <2>2, <3>1 DEF Introduced
    <3>3. PICK i \in News(s)' : j = i + 1
      BY <1>4, <1>10, <2>2, <3>2
    <3>4. i < k
      BY <1>4, <3>2, <3>3
    <3>5. MineAt(s, i)'
      BY <1>8, <3>2, <3>3
    <3>. QED
      BY <3>4, <3>5
  <2>. QED
    BY <1>7, <2>1, <2>2 DEF Introduced
<1>12. Known(s)'
  <2>. SUFFICES ASSUME NEW id \in Nat, NEW k \in News(s)', NamedAt(s, k, id)', id # player[s]
                PROVE  \/ id \in DOMAIN d.copies
                       \/ \E j \in News(s)' : j < k /\ AddedAt(s, j, id)'
    BY <1>7 DEF Known
  <2>1. k + 1 \in News(s) /\ NamedAt(s, k + 1, id)
    BY <1>4, <1>8
  <2>2. CASE id \in DOMAIN client[s].copies
    <3>1. ~RemovedAt(s, 1, id)
      BY <1>4, <2>1 DEF Parted
    <3>. QED
      BY <1>6, <2>2, <3>1
  <2>3. CASE \E j \in News(s) : j < k + 1 /\ AddedAt(s, j, id)
    <3>1. PICK j \in News(s) : j < k + 1 /\ AddedAt(s, j, id)
      BY <2>3
    <3>2. CASE j = 1
      BY <1>6, <3>1, <3>2
    <3>3. CASE j # 1
      <4>1. PICK i \in News(s)' : j = i + 1
        BY <1>4, <3>3
      <4>2. i < k
        BY <1>4, <3>1, <4>1
      <4>3. AddedAt(s, i, id)'
        BY <1>8, <3>1, <4>1
      <4>. QED
        BY <4>2, <4>3
    <3>. QED
      BY <3>2, <3>3
  <2>. QED
    BY <2>1, <2>2, <2>3 DEF Known
<1>13. Parted(s)'
  <2>. SUFFICES ASSUME NEW id \in Nat, NEW k \in News(s)', RemovedAt(s, k, id)'
                PROVE  /\ id # player[s] /\ id \notin InGame
                       /\ \A l \in News(s)' : k < l => ~NamedAt(s, l, id)'
    BY <1>7 DEF Parted, InGame
  <2>1. k + 1 \in News(s) /\ RemovedAt(s, k + 1, id)
    BY <1>4, <1>8
  <2>2. /\ id # player[s] /\ id \notin InGame
        /\ \A l \in News(s) : k + 1 < l => ~NamedAt(s, l, id)
    BY <2>1 DEF Parted
  <2>3. \A l \in News(s)' : k < l => ~NamedAt(s, l, id)'
    BY <1>4, <1>8, <2>2
  <2>. QED
    BY <2>2, <2>3
<1>14. \A id \in Nat : Told(s, id) /\ id # player[s] /\ ~RemovedAt(s, 1, id) => Told(s, id)'
  <2>. SUFFICES ASSUME NEW id \in Nat, Told(s, id), id # player[s], ~RemovedAt(s, 1, id)
                PROVE  id \in DOMAIN d.copies \/ \E j \in News(s)' : AddedAt(s, j, id)'
    BY <1>7 DEF Told
  <2>1. CASE id \in DOMAIN client[s].copies
    BY <1>6, <2>1
  <2>2. CASE \E j \in News(s) : AddedAt(s, j, id)
    <3>1. PICK j \in News(s) : AddedAt(s, j, id)
      BY <2>2
    <3>2. CASE j = 1
      BY <1>6, <3>1, <3>2
    <3>3. CASE j # 1
      <4>1. PICK i \in News(s)' : j = i + 1
        BY <1>4, <3>3
      <4>. QED
        BY <1>8, <3>1, <4>1
    <3>. QED
      BY <3>2, <3>3
  <2>. QED
    BY <2>1, <2>2 DEF Told
<1>15. Whole(s)'
  <2>1. \A id \in InGame : id \in Nat /\ ~RemovedAt(s, 1, id)
    <3>1. InGame \subseteq Nat
      BY GameRoomAssumption DEF InGame, IInv, TypeOK
    <3>. QED
      BY <1>4, <3>1 DEF Parted
  <2>2. InGame' = InGame /\ (Announcing' <=> Announcing)
    BY <1>7 DEF InGame, Announcing
  <2>. QED
    BY <1>7, <1>14, <2>1, <2>2 DEF Whole
<1>16. \A id \in Nat : (\A k \in News(s) : ~RemovedAt(s, k, id)) => \A k \in News(s)' : ~RemovedAt(s, k, id)'
  BY <1>4, <1>8
<1>. QED
  BY <1>4, <1>9, <1>11, <1>12, <1>13, <1>14, <1>15, <1>16

-----------------------------------------------------------------------------
\* A move of a connected client finds its player.
LEMMA MoveFound ==
  ASSUME IInv, IdsLast, Orderly, HandleMove
  PROVE  /\ UNCHANGED players /\ player[current] \in DOMAIN players /\ current \in Sessions
         /\ arrived[current] # <<>> /\ arrived[current] \in Seq([id : Nat, info : Infos])
         /\ LET move == Head(arrived[current])
            IN /\ move.id = player[current] /\ move.info \in Infos
               /\ loop' = "Broadcast" /\ after' = "OnRecv"
               /\ message' = [type |-> "S_Move", id |-> move.id, info |-> move.info]
               /\ info' = [info EXCEPT ![move.id] = move.info]
<1>. DEFINE move == Head(arrived[current])
<1>1. /\ loop = "OnRecv" /\ current \in Sessions /\ conn[current] = "connected"
      /\ arrived[current] # <<>> /\ arrived[current] \in Seq([id : Nat, info : Infos])
  BY DEF HandleMove, Running, Orderly, IInv, IdsGiven, Serving, TypeOK
<1>2. move = arrived[current][1] /\ 1 \in 1 .. Len(arrived[current])
  BY <1>1, NonEmptySeq
<1>3. move \in [id : Nat, info : Infos]
  <2>1. arrived[current][1] \in [id : Nat, info : Infos]
    BY <1>1, <1>2, Element
  <2>. QED
    BY <1>2, <2>1
<1>4. move.id = player[current]
  BY <1>1, <1>2 DEF Orderly
<1>5. /\ player[current] \in 1 .. MaxPlayerId /\ player[current] \in DOMAIN players
      /\ players[player[current]] = current
  BY <1>1, InTheRoom DEF Entering
<1>6. Found(move.id) /\ (FindObject(move.id) => UNCHANGED players)
  BY <1>1, <1>4, <1>5, GameRoomAssumption DEF Found, FindObject
<1>7. move.info \in Infos
  BY <1>3
<1>. HIDE DEF move
<1>8. /\ UNCHANGED players /\ info' = [info EXCEPT ![move.id] = move.info]
      /\ StartBroadcast([type |-> "S_Move", id |-> move.id, info |-> move.info], "OnRecv")
  BY <1>6 DEF HandleMove, move
<1>. QED
  BY <1>1, <1>4, <1>5, <1>7, <1>8 DEF StartBroadcast, move

\* A connection that ends in order.
LEMMA LeaveFound ==
  ASSUME IInv, IdsLast, NEW s \in Sessions, loop = "Dispatch", Disconnect(s)
  PROVE  \/ loop' = "Update" /\ UNCHANGED <<conn, players>>
         \/ /\ loop' = "Broadcast" /\ message' = [type |-> "S_RemoveObject", id |-> player[s]]
            /\ conn' = [conn EXCEPT ![s] = "closed"] /\ players' = Erase(players, player[s])
            /\ player[s] \in DOMAIN players /\ player[s] \in 1 .. MaxPlayerId
            /\ players[player[s]] = s
<1>1. CASE conn[s] # "connected"
  BY <1>1 DEF Disconnect
<1>2. CASE conn[s] = "connected"
  <2>1. /\ player[s] \in DOMAIN players /\ player[s] \in 1 .. MaxPlayerId
        /\ players[player[s]] = s
    BY <1>2, InTheRoom DEF Entering
  <2>2. player[s] # NoPlayer
    BY <2>1, GameRoomAssumption
  <2>. QED
    BY <1>2, <2>1, <2>2 DEF Disconnect, LeaveRoom, StartBroadcast
<1>. QED
  BY <1>1, <1>2

\* While nobody leaves the scene and nothing is dead, a frame changes only the
\* client's own player.
LEMMA FrameOfClient ==
  ASSUME Fields, SInv, NEW s \in Sessions,
         \/ Tick(s) \/ Collide(s) \/ ChangeScene(s)
         \/ \E m \in MonsterIds : Kill(s, m) \/ TickDead(s, m),
         ClientEvents = {}
  PROVE  /\ Tick(s) \/ Collide(s)
         /\ UNCHANGED <<sessionVars, roomVars, loopVars, toClient>>
         /\ \A t \in Sessions : Same(t)
<1>1. \A m \in DOMAIN client[s].copies : client[s].copies[m][1].state # Dead
  BY ReplicationAssumption DEF SInv, Sound
<1>2. Tick(s) \/ Collide(s)
  BY <1>1 DEF ChangeScene, Kill, TickDead
<1>3. PICK i, d : client' = [client EXCEPT ![s].own = i, ![s].dirty = d]
  <2>1. CASE Tick(s)
    BY <2>1 DEF Tick
  <2>2. CASE Collide(s)
    BY <2>2 DEF Collide
  <2>. QED
    BY <1>2, <2>1, <2>2
<1>4. \A x \in Sessions : DOMAIN client[x] = {"scene", "my", "own", "dirty", "copies", "undefined"}
  BY NewFields DEF Fields
<1>5. Same(s)
  BY <1>3, <1>4 DEF Fields, Same
<1>6. \A t \in Sessions : t # s => Same(t)
  BY <1>3 DEF Fields, Same
<1>7. UNCHANGED <<sessionVars, roomVars, loopVars, toClient>>
  BY <1>2 DEF Tick, Collide
<1>. QED
  BY <1>2, <1>5, <1>6, <1>7

LEMMA SceneInGame ==
  ASSUME Faults = {}, ClientEvents = {}, IInv, IdsLast, IdsLast', Orderly, RInv, SInv,
         [RNext]_rvars, NEW t \in Sessions
  PROVE  Sound(t)' /\ Introduced(t)' /\ Known(t)' /\ Parted(t)' /\ Whole(t)'
<1>. DEFINE Goal == Sound(t)' /\ Introduced(t)' /\ Known(t)' /\ Parted(t)' /\ Whole(t)'
<1>. SUFFICES Goal
  OBVIOUS
<1>. USE DEF rvars, vars, sessionVars, roomVars, loopVars, netVars, Running
<1>0. /\ Mine(t) /\ AddedOnce(t) /\ Copied(t) /\ Posted /\ Fields /\ Keyed
      /\ Sound(t) /\ Introduced(t) /\ Known(t) /\ Parted(t) /\ Whole(t) /\ Sending
      /\ DOMAIN toClient = Sessions /\ DOMAIN client = Sessions /\ DOMAIN conn = Sessions
  BY DEF RInv, SInv, Posted, Fields, IInv, TypeOK
<1>. HIDE DEF Goal
<1>1. ASSUME toClient'[t] = toClient[t], UNCHANGED <<player, current>>, Same(t),
             DOMAIN players' \subseteq DOMAIN players,
             conn'[t] = "connected" /\ player[t] # NoPlayer => conn[t] = "connected",
             Announcing => Announcing'
      PROVE  Goal
  <2>1. \A id \in InGame' : id \in InGame
    BY <1>1 DEF InGame
  <2>. QED
    BY <1>0, <1>1, <2>1, StillInGame DEF Goal
<1>2. ASSUME UNCHANGED client PROVE Same(t)
  BY <1>2 DEF Same
<1>3. ASSUME NEW s \in Sessions, OnConnected(s), UNCHANGED client PROVE Goal
  <2>1. /\ conn' = [conn EXCEPT ![s] = "connected"] /\ UNCHANGED <<player, players>>
        /\ toClient' = [toClient EXCEPT ![s] = <<[type |-> "S_EnterGame"]>>]
        /\ player[s] = NoPlayer /\ ~Announcing
    BY <1>3 DEF OnConnected, IInv, IdsGiven, Announcing
  <2>2. CASE s = t
    BY <1>0, <1>3, <2>1, <2>2, GreetedInGame DEF Goal
  <2>3. CASE s # t
    <3>1. toClient'[t] = toClient[t] /\ conn'[t] = conn[t] /\ InGame' = InGame
      BY <1>0, <2>1, <2>3 DEF InGame
    <3>. QED
      BY <1>0, <1>2, <1>3, <2>1, <3>1, StillInGame DEF Goal
  <2>. QED
    BY <2>2, <2>3
<1>4. ASSUME EnterRoom, UNCHANGED client PROVE Goal
  <2>1. CASE t = current
    BY <1>0, <1>4, <2>1, EnteredInGame DEF Goal
  <2>2. CASE t # current
    <3>1. /\ toClient'[t] = toClient[t] /\ player'[t] = player[t] /\ ~Announcing
          /\ UNCHANGED <<players, conn>>
      BY <1>0, <1>4, <2>2 DEF EnterRoom, SendTo, Announcing, IInv, TypeOK
    <3>2. InGame' = InGame
      BY <3>1 DEF InGame
    <3>. QED
      BY <1>0, <1>2, <1>4, <3>1, <3>2, StillInGame DEF Goal
  <2>. QED
    BY <2>1, <2>2
<1>5. ASSUME AddObject, UNCHANGED client PROVE Goal
  <2>1. /\ UNCHANGED <<toClient, player, conn, current>> /\ Announcing /\ Announcing'
    BY <1>5 DEF AddObject, StartBroadcast, Announcing
  <2>2. \A id \in InGame' : id \in InGame \/ id = player[current]
    BY <1>5 DEF AddObject, Insert, InGame
  <2>3. current \in Sessions /\ player[current] \in Nat
    BY <1>5 DEF AddObject, IInv, IdsGiven, Serving, TypeOK
  <2>4. \A k \in News(t) : ~RemovedAt(t, k, player[current])
    <3>. SUFFICES ASSUME NEW k \in News(t), RemovedAt(t, k, player[current]) PROVE FALSE
      OBVIOUS
    <3>1. NamedAt(t, k, player[current]) /\ player[current] # player[t]
      BY <1>0, <2>3 DEF RemovedAt, NamedAt, Parted
    <3>2. Told(t, player[current])
      BY <1>0, <2>3, <3>1 DEF Known, Told
    <3>. QED
      BY <1>0, <2>1, <2>3, <3>2 DEF AddedOnce
  <2>. QED
    BY <1>0, <1>2, <1>5, <2>1, <2>2, <2>4, StillInGame DEF Goal
<1>6. ASSUME Broadcast, UNCHANGED client PROVE Goal
  <2>1. /\ ~Announcing' /\ loop = "Broadcast" /\ UNCHANGED <<player, players, conn, current>>
    BY <1>6 DEF Broadcast, Announcing, IInv, TypeOK
  <2>2. toClient'[t] = IF t \in Receivers /\ conn[t] = "connected"
                         THEN Append(toClient[t], message) ELSE toClient[t]
    BY <1>6 DEF Broadcast
  <2>3. CASE t \in Receivers /\ conn[t] = "connected"
    <3>1. player[t] # NoPlayer
      BY <2>1, <2>3, InTheRoom, GameRoomAssumption DEF Entering
    <3>. QED
      BY <1>0, <1>6, <2>1, <2>2, <2>3, <3>1, BroadcastInGame DEF Goal
  <2>4. CASE ~(t \in Receivers /\ conn[t] = "connected")
    <3>1. conn[t] # "connected"
      <4>. SUFFICES ASSUME conn[t] = "connected" PROVE t \in Receivers
        BY <2>4
      <4>1. player[t] \in DOMAIN players /\ players[player[t]] = t
        BY <2>1, InTheRoom DEF Entering
      <4>. QED
        BY <4>1, GameRoomAssumption DEF Receivers
    <3>2. InGame' = InGame
      BY <2>1 DEF InGame
    <3>. QED
      BY <1>0, <1>2, <1>6, <2>1, <2>2, <2>4, <3>1, <3>2, StillInGame DEF Goal
  <2>. QED
    BY <2>3, <2>4
<1>7. ASSUME NEW s \in Sessions, RecvZero(s) \/ ProcessSend(s), UNCHANGED client PROVE Goal
  <2>1. /\ UNCHANGED <<toClient, player, current>> /\ ~Announcing /\ loop = "Dispatch"
        /\ Disconnect(s) \/ UNCHANGED <<conn, players>>
    BY <1>7 DEF RecvZero, ProcessSend, Announcing
  <2>2. CASE UNCHANGED <<conn, players>>
    BY <1>1, <1>2, <1>7, <2>1, <2>2
  <2>3. CASE Disconnect(s)
    <3>1. /\ DOMAIN players' \subseteq DOMAIN players
          /\ conn'[t] = "connected" => conn[t] = "connected"
      <4>1. \/ UNCHANGED <<conn, players>>
            \/ conn' = [conn EXCEPT ![s] = "closed"] /\ players' = Erase(players, player[s])
        BY <2>1, <2>3, LeaveFound
      <4>. QED
        BY <1>0, <4>1 DEF Erase
    <3>. QED
      BY <1>1, <1>2, <1>7, <2>1, <3>1
  <2>. QED
    BY <2>1, <2>2, <2>3
<1>8. ASSUME NEW s \in Sessions, ProcessRecv(s) \/ ProcessDisconnect(s), UNCHANGED client
      PROVE  Goal
  <2>1. /\ toClient'[t] = toClient[t] /\ UNCHANGED <<player, players, conn>> /\ ~Announcing
    BY <1>8 DEF ProcessRecv, ProcessDisconnect, Announcing
  <2>2. InGame' = InGame
    BY <2>1 DEF InGame
  <2>. QED
    BY <1>0, <1>2, <1>8, <2>1, <2>2, StillInGame DEF Goal
<1>9. ASSUME RegisterRecv \/ OnRecvReturns \/ UpdateReturns, UNCHANGED client PROVE Goal
  <2>1. /\ toClient'[t] = toClient[t] /\ UNCHANGED <<player, players, conn>> /\ ~Announcing
    BY <1>9 DEF RegisterRecv, OnRecvReturns, UpdateReturns, Announcing
  <2>2. InGame' = InGame
    BY <2>1 DEF InGame
  <2>. QED
    BY <1>0, <1>2, <1>9, <2>1, <2>2, StillInGame DEF Goal
<1>10. ASSUME HandleMove, UNCHANGED client PROVE Goal
  <2>1. UNCHANGED <<toClient, player, players, current, conn>> /\ ~Announcing
    BY <1>10, MoveFound DEF HandleMove, Announcing
  <2>. QED
    BY <1>1, <1>2, <1>10, <2>1
<1>11. ASSUME UpdateMonster, UNCHANGED client PROVE Goal
  <2>1. UNCHANGED <<toClient, player, players, current, conn>> /\ ~Announcing
    BY <1>11 DEF UpdateMonster, Announcing
  <2>. QED
    BY <1>1, <1>2, <1>11, <2>1
<1>12. ASSUME Network, UNCHANGED client PROVE Goal
  <2>1. UNCHANGED <<toClient, player, players, current, conn, loop, message>>
    BY <1>12 DEF Network, Arrive, RecvEnd
  <2>. QED
    BY <1>1, <1>2, <1>12, <2>1 DEF Announcing
<1>13. ASSUME NEW s \in Sessions, Dispatch(s) PROVE Goal
  <2>1. CASE t = s
    BY <1>0, <1>13, <2>1, ReadInGame DEF Goal
  <2>2. CASE t # s
    <3>1. toClient'[t] = toClient[t] /\ client'[t] = client[t]
          /\ UNCHANGED <<player, players, conn, loop, message, current>>
      BY <1>0, <1>13, <2>2 DEF Dispatch
    <3>. QED
      BY <1>1, <3>1 DEF Announcing, Same
  <2>. QED
    BY <2>1, <2>2
<1>14. ASSUME NEW s \in Sessions,
              \/ Tick(s) \/ Collide(s) \/ ChangeScene(s)
              \/ \E m \in MonsterIds : Kill(s, m) \/ TickDead(s, m)
       PROVE  Goal
  <2>1. /\ UNCHANGED <<toClient, player, players, conn, loop, message, current>>
        /\ Same(t)
    BY <1>0, <1>14, FrameOfClient
  <2>. QED
    BY <1>1, <2>1 DEF Announcing
<1>15. CASE UNCHANGED rvars
  BY <1>1, <1>2, <1>15 DEF Announcing
<1>16. CASE Server /\ UNCHANGED <<client, sent>>
  BY <1>3, <1>4, <1>5, <1>6, <1>7, <1>8, <1>9, <1>10, <1>11, <1>16 DEF Server
<1>. QED
  BY <1>12, <1>13, <1>14, <1>15, <1>16 DEF RNext, Client

\* A session leaves: the others have its player, and are not told so twice.
LEMMA LeaveSends ==
  ASSUME IInv, IdsLast, Orderly, Keyed, NEW s \in Sessions, loop = "Dispatch", Disconnect(s),
         \A t \in Sessions : Parted(t) /\ Whole(t),
         UNCHANGED <<player, toClient, client>>
  PROVE  Sending'
<1>1. CASE loop' = "Update"
  BY <1>1 DEF Sending
<1>2. CASE loop' # "Update"
  <2>1. /\ loop' = "Broadcast" /\ message' = [type |-> "S_RemoveObject", id |-> player[s]]
        /\ players' = Erase(players, player[s]) /\ player[s] \in DOMAIN players
        /\ player[s] \in 1 .. MaxPlayerId /\ players[player[s]] = s
    BY <1>2, LeaveFound
  <2>2. message'.type = "S_RemoveObject" /\ message'.id = player[s]
    BY <2>1
  <2>3. player[s] \in InGame /\ player[s] \notin InGame' /\ player[s] \in Nat
    BY <2>1, GameRoomAssumption DEF InGame, Erase
  <2>4. ASSUME NEW t \in Receivers'
        PROVE  /\ player[s] # player[t] /\ Told(t, player[s])'
               /\ \A k \in News(t)' : ~RemovedAt(t, k, player[s])'
    <3>1. PICK id \in DOMAIN players : id # player[s] /\ players[id] = t
      BY <2>1, <2>4 DEF Receivers, Erase
    <3>2. /\ t \in Sessions /\ conn[t] = "connected" /\ player[t] = id /\ id \in Nat
      BY <3>1 DEF Orderly, IInv, TypeOK
    <3>3. Told(t, player[s])
      BY <2>3, <3>1, <3>2, GameRoomAssumption DEF Whole, Announcing
    <3>4. \A k \in News(t) : ~RemovedAt(t, k, player[s])
      BY <2>3, <3>2 DEF Parted
    <3>5. player[s] # player[t] /\ Told(t, player[s])'
      BY <3>1, <3>2, <3>3 DEF Told, News, AddedAt
    <3>6. \A k \in News(t)' : ~RemovedAt(t, k, player[s])'
      BY <3>4 DEF News, RemovedAt
    <3>. QED
      BY <3>5, <3>6
  <2>5. \A t \in Receivers' :
          /\ message'.id # player'[t] /\ Told(t, message.id)'
          /\ \A k \in News(t)' : ~RemovedAt(t, k, message.id)'
    <3>. SUFFICES ASSUME NEW t \in Receivers'
                  PROVE  /\ message'.id # player'[t] /\ Told(t, message.id)'
                         /\ \A k \in News(t)' : ~RemovedAt(t, k, message.id)'
      OBVIOUS
    <3>1. player[s] # player[t] /\ Told(t, player[s])'
          /\ \A k \in News(t)' : ~RemovedAt(t, k, player[s])'
      BY <2>4
    <3>. QED
      BY <2>2, <3>1 DEF Told, AddedAt, RemovedAt
  <2>. QED
    BY <2>2, <2>3, <2>5 DEF Sending
<1>. QED
  BY <1>1, <1>2

LEMMA SendingStep ==
  ASSUME Faults = {}, ClientEvents = {}, IInv, IdsLast, Orderly, RInv, SInv, [RNext]_rvars
  PROVE  Sending'
<1>. USE DEF rvars, vars, sessionVars, roomVars, loopVars, netVars, Running
<1>0. /\ Posted /\ Fields /\ Keyed /\ Sending
      /\ \A t \in Sessions : Parted(t) /\ Whole(t)
      /\ DOMAIN toClient = Sessions /\ DOMAIN client = Sessions
  BY DEF RInv, SInv, Posted, Fields
<1>1. ASSUME loop' # "Broadcast" \/ message'.type = "S_AddObject" PROVE Sending'
  BY <1>1 DEF Sending
<1>2. ASSUME message'.type = "S_Move", message'.id \in InGame' PROVE Sending'
  BY <1>2 DEF Sending
<1>3. ASSUME UNCHANGED <<loop, message, players, player, toClient>>,
             \A t \in Sessions : client'[t].copies = client[t].copies
      PROVE  Sending'
  <2>1. \A t \in Receivers : t \in Sessions
    BY DEF Receivers, IInv, TypeOK
  <2>2. Receivers' = Receivers /\ InGame' = InGame
    BY <1>3 DEF Receivers, InGame
  <2>3. \A t \in Receivers : (Told(t, message.id) => Told(t, message.id)')
    BY <1>3, <2>1 DEF Told, News, AddedAt
  <2>4. \A t \in Receivers : (\A k \in News(t) : ~RemovedAt(t, k, message.id))
                               => \A k \in News(t)' : ~RemovedAt(t, k, message.id)'
    BY <1>3 DEF News, RemovedAt
  <2>. QED
    BY <1>0, <1>3, <2>2, <2>3, <2>4 DEF Sending
<1>4. ASSUME NEW s \in Sessions, RecvZero(s) \/ ProcessSend(s), UNCHANGED client PROVE Sending'
  <2>1. /\ UNCHANGED <<toClient, player>> /\ loop = "Dispatch"
        /\ Disconnect(s) \/ loop' = "Update"
    BY <1>4 DEF RecvZero, ProcessSend
  <2>. QED
    BY <1>0, <1>1, <1>4, <2>1, LeaveSends
<1>5. ASSUME NEW s \in Sessions, OnConnected(s) \/ ProcessRecv(s) \/ ProcessDisconnect(s)
      PROVE  Sending'
  BY <1>1, <1>5 DEF OnConnected, ProcessRecv, ProcessDisconnect
<1>6. ASSUME EnterRoom \/ RegisterRecv \/ OnRecvReturns \/ UpdateReturns PROVE Sending'
  BY <1>1, <1>6 DEF EnterRoom, RegisterRecv, OnRecvReturns, UpdateReturns
<1>7. ASSUME AddObject PROVE Sending'
  BY <1>1, <1>7 DEF AddObject, StartBroadcast
<1>8. ASSUME Broadcast PROVE Sending'
  BY <1>1, <1>8 DEF Broadcast, IInv, TypeOK
<1>9. ASSUME HandleMove PROVE Sending'
  <2>. DEFINE move == Head(arrived[current])
  <2>1. /\ UNCHANGED players /\ player[current] \in DOMAIN players /\ move.id = player[current]
        /\ message' = [type |-> "S_Move", id |-> move.id, info |-> move.info]
    BY <1>9, MoveFound
  <2>. HIDE DEF move
  <2>2. message'.type = "S_Move" /\ message'.id = player[current] /\ player[current] \in InGame'
    BY <2>1 DEF InGame
  <2>. QED
    BY <1>2, <2>2
<1>10. ASSUME UpdateMonster PROVE Sending'
  <2>1. \/ loop' # "Broadcast"
        \/ \E m \in todo, i \in Infos : message' = [type |-> "S_Move", id |-> m, info |-> i]
    BY <1>10 DEF UpdateMonster, StartBroadcast
  <2>2. CASE \E m \in todo, i \in Infos : message' = [type |-> "S_Move", id |-> m, info |-> i]
    <3>1. PICK m \in todo, i \in Infos : message' = [type |-> "S_Move", id |-> m, info |-> i]
      BY <2>2
    <3>2. message'.type = "S_Move" /\ message'.id \in InGame'
      BY <3>1 DEF Orderly, InGame
    <3>. QED
      BY <1>2, <3>2
  <2>. QED
    BY <1>1, <2>1, <2>2
<1>11. ASSUME Network, UNCHANGED client PROVE Sending'
  BY <1>3, <1>11 DEF Network, Arrive, RecvEnd
<1>12. ASSUME NEW s \in Sessions, Dispatch(s) PROVE Sending'
  <2>1. /\ UNCHANGED <<player, players, loop, message>>
        /\ \A t \in Sessions : t # s => toClient'[t] = toClient[t] /\ client'[t] = client[t]
    BY <1>0, <1>12 DEF Dispatch
  <2>2. Receivers' = Receivers /\ InGame' = InGame /\ \A t \in Receivers : t \in Sessions
    BY <2>1 DEF Receivers, InGame, IInv, TypeOK
  <2>3. CASE loop = "Broadcast" /\ message.type = "S_RemoveObject"
    <3>1. message.id \in Nat
      BY <1>0, <2>3, PacketHolds DEF Posted
    <3>2. ASSUME NEW t \in Receivers
          PROVE  Told(t, message.id)' /\ \A k \in News(t)' : ~RemovedAt(t, k, message.id)'
      <4>1. /\ message.id # player[t] /\ Told(t, message.id)
            /\ \A k \in News(t) : ~RemovedAt(t, k, message.id)
        BY <1>0, <2>3, <3>2 DEF Sending
      <4>2. PICK id \in Nat : id = message.id
        BY <3>1
      <4>3. Told(t, id) /\ \A k \in News(t) : ~RemovedAt(t, k, id)
        BY <4>1, <4>2
      <4>4. CASE t = s
        <5>1. /\ Mine(s) /\ AddedOnce(s) /\ Copied(s) /\ Sound(s) /\ Introduced(s) /\ Known(s)
              /\ Parted(s) /\ Whole(s)
          BY DEF RInv, SInv
        <5>2. Told(t, id)' /\ \A k \in News(t)' : ~RemovedAt(t, k, id)'
          BY <1>0, <1>12, <4>1, <4>2, <4>3, <4>4, <5>1, ReadInGame
        <5>. QED
          BY <2>1, <4>2, <5>2 DEF Told, AddedAt, RemovedAt
      <4>5. CASE t # s
        <5>1. toClient'[t] = toClient[t] /\ client'[t] = client[t]
          BY <2>1, <2>2, <4>5
        <5>. QED
          BY <2>1, <4>1, <5>1 DEF Told, News, AddedAt, RemovedAt
      <4>. QED
        BY <4>4, <4>5
    <3>. QED
      BY <1>0, <2>1, <2>2, <2>3, <3>2 DEF Sending
  <2>4. CASE ~(loop = "Broadcast" /\ message.type = "S_RemoveObject")
    BY <1>0, <2>1, <2>2, <2>4 DEF Sending
  <2>. QED
    BY <2>3, <2>4
<1>13. ASSUME NEW s \in Sessions,
              \/ Tick(s) \/ Collide(s) \/ ChangeScene(s)
              \/ \E m \in MonsterIds : Kill(s, m) \/ TickDead(s, m)
       PROVE  Sending'
  <2>1. /\ UNCHANGED <<toClient, player, players, loop, message>>
        /\ \A t \in Sessions : client'[t].copies = client[t].copies
    BY <1>0, <1>13, FrameOfClient DEF Same
  <2>. QED
    BY <1>3, <2>1
<1>14. CASE UNCHANGED rvars
  BY <1>3, <1>14
<1>15. CASE Server /\ UNCHANGED <<client, sent>>
  BY <1>4, <1>5, <1>6, <1>7, <1>8, <1>9, <1>10, <1>15 DEF Server
<1>. QED
  BY <1>11, <1>12, <1>13, <1>14, <1>15 DEF RNext, Client

LEMMA SInvInit == RInit => SInv
<1>. SUFFICES ASSUME RInit PROVE SInv
  OBVIOUS
<1>. USE DEF RInit, Init
<1>1. Sending
  BY DEF Sending
<1>2. ASSUME NEW s \in Sessions
      PROVE  Sound(s) /\ Introduced(s) /\ Known(s) /\ Parted(s) /\ Whole(s)
  <2>1. /\ News(s) = {} /\ DOMAIN client[s].copies = {} /\ client[s].scene = "game"
        /\ ~client[s].undefined /\ player[s] = NoPlayer
    BY DEF News, NewScene
  <2>. QED
    BY <2>1 DEF Sound, Introduced, Known, Parted, Whole
<1>. QED
  BY <1>1, <1>2 DEF SInv

LEMMA SInvStep ==
  ASSUME Faults = {}, ClientEvents = {}, IInv, IdsLast, IdsLast', OInv, RInv, SInv, [RNext]_rvars
  PROVE  SInv'
BY SceneInGame, SendingStep DEF SInv, OInv

\* The room stays as orderly as without the clients' programs.
LEMMA OrderlyKeeps ==
  ASSUME Faults = {}, IInv, OInv, RInv, [RNext]_rvars
  PROVE  OInv'
<1>1. RoomStep
  BY ClientsAreClients DEF RInv
<1>2. CASE [Next]_vars
  BY <1>2, OrderlyStep
<1>3. CASE Counts
  <2>1. IdsLast' => IdsLast
    BY <1>3 DEF Counts, roomVars, IdsLast
  <2>. QED
    BY <1>3, <2>1, CountsKeeps DEF OInv
<1>. QED
  BY <1>1, <1>2, <1>3 DEF RoomStep

LEMMA SInvAlways ==
  ASSUME IsFiniteSet(Sessions), Cardinality(Sessions) <= MaxPlayerId,
         Faults = {}, ClientEvents = {}
  PROVE  RSpec => [](IInv /\ IdsLast /\ OInv /\ RInv /\ SInv)
<1>1. RInit => OInv /\ SInv
  <2>1. RInit => Init
    BY DEF RInit
  <2>. QED
    BY <2>1, OrderlyInit, SInvInit
<1>2. IInv /\ OInv /\ RInv /\ [RNext]_rvars => OInv'
  BY OrderlyKeeps
<1>3. IInv /\ IdsLast /\ IdsLast' /\ OInv /\ RInv /\ SInv /\ [RNext]_rvars => SInv'
  BY SInvStep
<1>. QED
  BY <1>1, <1>2, <1>3, RInvAlways, PTL DEF RSpec

\* ClientPacketHandler.cpp:60-186, Scene.cpp:90-100: while connections end in
\* order and nobody leaves the game scene, no packet makes a client use an actor
\* or a player it does not have, whatever travels while the room changes.
THEOREM ClientsDefined ==
  ASSUME IsFiniteSet(Sessions), Cardinality(Sessions) <= MaxPlayerId,
         Faults = {}, ClientEvents = {}
  PROVE  RSpec => []ClientDefined
<1>1. SInv => ClientDefined
  BY DEF SInv, Sound, ClientDefined
<1>. QED
  BY <1>1, SInvAlways, PTL

-----------------------------------------------------------------------------
(* And what a client shows is what the room has recorded.                  *)

NewsAt(s, k, id) ==
  AddedAt(s, k, id) \/ (toClient[s][k].type = "S_Move" /\ toClient[s][k].id = id)

InfoAt(s, k, id) ==
  IF toClient[s][k].type = "S_AddObject" THEN toClient[s][k].objects[id] ELSE toClient[s][k].info

\* The last that a client hears of an object.
Latest(s, id, i) ==
  \/ \E k \in News(s) :
       /\ NewsAt(s, k, id) /\ InfoAt(s, k, id) = i
       /\ \A l \in News(s) : k < l => ~NewsAt(s, l, id)
  \/ /\ \A k \in News(s) : ~NewsAt(s, k, id)
     /\ id \in DOMAIN client[s].copies /\ client[s].copies[id][1] = i

\* The room is about to tell of a change of the object.
Changing(id) == loop = "Broadcast" /\ message.type = "S_Move" /\ message.id = id

UpToDate(s) ==
  conn[s] = "connected" /\ player[s] # NoPlayer =>
    \A id \in InGame :
      id # player[s] /\ (Announcing => id # player[current]) /\ ~Changing(id) =>
        Latest(s, id, info[id])

\* What Broadcast sends is what the room has recorded.
Truthful ==
  loop = "Broadcast" =>
    /\ message.type = "S_Move" => message.info = info[message.id]
    /\ message.type = "S_AddObject" => message.objects[player[current]] = info[player[current]]

\* The room works on what arrived before it receives again.
Emptied(s) ==
  /\ recv[s] = "posted" => arrived[s] = <<>>
  /\ Serving /\ current = s =>
       /\ recv[s] = "none"
       /\ loop # "OnRecv" /\ (loop = "Broadcast" => after = "RegisterRecv") => arrived[s] = <<>>

\* The last report of a client is on its way, or the room has recorded it.
Reported(s) ==
  /\ player[s] = NoPlayer => sent[s] = SpawnInfo
  /\ conn[s] = "connected" /\ player[s] # NoPlayer =>
       IF toServer[s] # <<>> THEN toServer[s][Len(toServer[s])].info = sent[s]
       ELSE IF arrived[s] # <<>> THEN arrived[s][Len(arrived[s])].info = sent[s]
       ELSE info[player[s]] = sent[s]

TInv ==
  /\ DOMAIN sent = Sessions
  /\ \A s \in Sessions : UpToDate(s) /\ Emptied(s) /\ Reported(s)
  /\ Truthful

-----------------------------------------------------------------------------
\* Nothing comes to the client, and nothing it was told of changes.
LEMMA StillTold ==
  ASSUME NEW t \in Sessions, UpToDate(t),
         toClient'[t] = toClient[t], player'[t] = player[t],
         client'[t].copies = client[t].copies,
         conn'[t] = "connected" /\ player[t] # NoPlayer =>
           /\ conn[t] = "connected"
           /\ \A id \in InGame' :
                id # player[t] /\ (Announcing' => id # player'[current']) /\ ~Changing(id)' =>
                  /\ id \in InGame /\ (Announcing => id # player[current]) /\ ~Changing(id)
                  /\ info'[id] = info[id]
  PROVE  UpToDate(t)'
<1>1. /\ News(t)' = News(t)
      /\ \A k, id : NewsAt(t, k, id)' = NewsAt(t, k, id)
      /\ \A k, id : InfoAt(t, k, id)' = InfoAt(t, k, id)
  BY DEF News, NewsAt, AddedAt, InfoAt
<1>2. \A id, i : Latest(t, id, i)' = Latest(t, id, i)
  BY <1>1 DEF Latest
<1>. QED
  BY <1>2 DEF UpToDate

LEMMA EnteredTold ==
  ASSUME IInv, Orderly, Posted, Keyed, NEW t \in Sessions, t = current, EnterRoom
  PROVE  UpToDate(t)'
<1>. DEFINE known == DOMAIN players \cup monsters
            objects == [o \in known |-> info'[o]]
            own == [type |-> "S_MyPlayer", id |-> nextId, info |-> SpawnInfo]
            all == [type |-> "S_AddObject", objects |-> objects]
<1>0. PICK n \in Nat : n = Len(toClient[t])
  <2>1. toClient[t] \in Seq(Packets)
    BY DEF Posted
  <2>. QED
    BY <2>1
<1>1. /\ UNCHANGED <<players, current, conn>> /\ conn[t] = "connected"
      /\ toClient \in [Sessions -> Seq(Packets)]
  BY DEF EnterRoom, Running, Orderly, Serving, Posted
<1>2. toClient'[t] = toClient[t] \o <<own, all>>
  BY <1>1 DEF EnterRoom, SendTo
<1>3. /\ DOMAIN objects = InGame' /\ \A id \in InGame' : objects[id] = info'[id]
  BY <1>1 DEF Keyed, InGame
<1>4. all.type = "S_AddObject" /\ all.objects = objects
  OBVIOUS
<1>. HIDE DEF own, all, objects, known
<1>5. News(t)' = 1 .. n + 2 /\ toClient'[t][n + 2] = all
  <2>1. Len(<<own, all>>) = 2 /\ <<own, all>>[2] = all
    OBVIOUS
  <2>2. \A T : \A x, y \in Seq(T) :
          /\ DOMAIN (x \o y) = 1 .. Len(x) + Len(y)
          /\ \A k \in 1 .. Len(y) : (x \o y)[Len(x) + k] = y[k]
    OBVIOUS
  <2>3. <<own, all>> \in Seq(Packets \cup {own, all}) /\ toClient[t] \in Seq(Packets \cup {own, all})
    BY <1>1
  <2>4. /\ DOMAIN toClient'[t] = 1 .. n + 2
        /\ \A k \in 1 .. 2 : toClient'[t][n + k] = <<own, all>>[k]
    BY <1>0, <1>2, <2>1, <2>2, <2>3
  <2>. QED
    BY <2>1, <2>4 DEF News
<1>6. n + 2 \in News(t)' /\ \A l \in News(t)' : ~(n + 2 < l)
  BY <1>5
<1>7. \A id \in InGame' : NewsAt(t, n + 2, id)' /\ InfoAt(t, n + 2, id)' = info'[id]
  BY <1>3, <1>4, <1>5 DEF NewsAt, AddedAt, InfoAt
<1>8. \A id \in InGame' : Latest(t, id, info[id])'
  BY <1>6, <1>7 DEF Latest
<1>. QED
  BY <1>8 DEF UpToDate

LEMMA BroadcastTold ==
  ASSUME IInv, Posted, NEW t \in Sessions, UpToDate(t), Truthful, loop = "Broadcast",
         toClient'[t] = Append(toClient[t], message),
         UNCHANGED <<player, players, info, conn, client, current>>, loop' # "Broadcast", ~Announcing'
  PROVE  UpToDate(t)'
<1>0. PICK n \in Nat : n = Len(toClient[t])
  <2>1. toClient[t] \in Seq(Packets)
    BY DEF Posted
  <2>. QED
    BY <2>1
<1>1. /\ News(t) = 1 .. n /\ News(t)' = 1 .. n + 1
      /\ \A k \in News(t) : toClient'[t][k] = toClient[t][k]
      /\ toClient'[t][n + 1] = message
  <2>1. toClient[t] \in Seq(Packets)
    BY DEF Posted
  <2>. QED
    BY <1>0, <2>1 DEF News
<1>2. /\ message.type \in {"S_AddObject", "S_RemoveObject", "S_Move"}
      /\ message.type = "S_AddObject" => DOMAIN message.objects = {player[current]}
      /\ message.type = "S_AddObject" <=> Announcing
  BY DEF Posted, Announcing
<1>3. /\ \A k \in News(t) : k \in News(t)'
      /\ \A k \in News(t)' : k \in News(t) \/ k = n + 1
      /\ n + 1 \in News(t)' /\ \A k \in News(t)' : ~(n + 1 < k)
  BY <1>1
<1>4. \A k \in News(t) : \A id : /\ NewsAt(t, k, id)' = NewsAt(t, k, id)
                                 /\ InfoAt(t, k, id)' = InfoAt(t, k, id)
  BY <1>1 DEF NewsAt, AddedAt, InfoAt
<1>5. \A id : NewsAt(t, n + 1, id)' =>
        \/ Announcing /\ id = player[current]
        \/ Changing(id)
  BY <1>1, <1>2 DEF NewsAt, AddedAt, Changing
<1>6. ASSUME NEW id \in InGame, id # player[t], conn[t] = "connected", player[t] # NoPlayer
      PROVE  Latest(t, id, info[id])'
  <2>1. CASE (Announcing => id # player[current]) /\ ~Changing(id)
    <3>1. Latest(t, id, info[id])
      BY <1>6, <2>1 DEF UpToDate
    <3>2. ~NewsAt(t, n + 1, id)'
      BY <1>5, <2>1
    <3>. QED
      BY <1>3, <1>4, <3>1, <3>2 DEF Latest
  <2>2. CASE Announcing /\ id = player[current]
    <3>1. NewsAt(t, n + 1, id)' /\ InfoAt(t, n + 1, id)' = info[id]
      BY <1>1, <1>2, <2>2 DEF NewsAt, AddedAt, InfoAt, Truthful
    <3>. QED
      BY <1>3, <3>1 DEF Latest
  <2>3. CASE Changing(id)
    <3>1. NewsAt(t, n + 1, id)' /\ InfoAt(t, n + 1, id)' = info[id]
      BY <1>1, <2>3 DEF NewsAt, AddedAt, InfoAt, Changing, Truthful
    <3>. QED
      BY <1>3, <3>1 DEF Latest
  <2>. QED
    BY <2>1, <2>2, <2>3
<1>. QED
  BY <1>6 DEF UpToDate, InGame

\* What the handlers make of what the next packet tells.
LEMMA HandledNews ==
  ASSUME IInv, IdsLast, Fields, NEW s \in Sessions, Mine(s), AddedOnce(s), Copied(s),
         Sound(s), Introduced(s), Known(s), 1 \in News(s), News(s) \subseteq Nat \ {0},
         NEW p \in Packets, p = toClient[s][1]
  PROVE  LET c == client[s]
             d == HandlePacket(c, p)
         IN /\ \A id \in Nat : NewsAt(s, 1, id) /\ id # player[s] =>
                 id \in DOMAIN d.copies /\ d.copies[id][1] = InfoAt(s, 1, id)
            /\ \A id \in DOMAIN c.copies : ~NewsAt(s, 1, id) /\ ~RemovedAt(s, 1, id) =>
                 id \in DOMAIN d.copies /\ d.copies[id] = c.copies[id]
<1>. DEFINE c == client[s]
            d == HandlePacket(c, p)
            Goal == /\ \A id \in Nat : NewsAt(s, 1, id) /\ id # player[s] =>
                         id \in DOMAIN d.copies /\ d.copies[id][1] = InfoAt(s, 1, id)
                    /\ \A id \in DOMAIN c.copies : ~NewsAt(s, 1, id) /\ ~RemovedAt(s, 1, id) =>
                         id \in DOMAIN d.copies /\ d.copies[id] = c.copies[id]
<1>. SUFFICES Goal
  OBVIOUS
<1>1. /\ DOMAIN c = DOMAIN NewScene /\ Single(c.copies) /\ c.my \in {NoPlayer, player[s]}
      /\ c.scene = "game" /\ ~c.undefined
  BY DEF Fields, Copied, Mine, Sound
<1>2. p.type \notin {"S_EnterGame", "S_MyPlayer"} => c.my # NoPlayer
  BY DEF Introduced
<1>3. \A x : <<x>>[1] = x
  OBVIOUS
<1>4. CASE p.type = "S_AddObject"
  <2>1. Added(c, p, d)
    <3>. HIDE DEF c
    <3>. QED
      BY <1>1, <1>4, AddHandled
  <2>. HIDE DEF d
  <2>2. /\ DOMAIN d.copies = DOMAIN c.copies \cup New(c, p)
        /\ \A id \in DOMAIN c.copies \ New(c, p) : d.copies[id] = c.copies[id]
        /\ \A id \in New(c, p) \ DOMAIN c.copies : d.copies[id] = <<p.objects[id]>>
    BY <1>1, <1>2, <1>4, <2>1 DEF Added
  <2>3. \A id \in Nat : NewsAt(s, 1, id) =>
          /\ AddedAt(s, 1, id) /\ id \in DOMAIN p.objects /\ id \notin DOMAIN c.copies
          /\ InfoAt(s, 1, id) = p.objects[id]
    BY <1>4 DEF NewsAt, AddedAt, InfoAt, AddedOnce
  <2>4. \A id \in New(c, p) : NewsAt(s, 1, id)
    BY <1>4 DEF New, NewsAt, AddedAt
  <2>5. \A id \in Nat : NewsAt(s, 1, id) /\ id # player[s] => id \in New(c, p)
    <3>. SUFFICES ASSUME NEW id \in Nat, NewsAt(s, 1, id), id # player[s]
                  PROVE  id \in New(c, p)
      OBVIOUS
    <3>1. AddedAt(s, 1, id) /\ id \in DOMAIN p.objects
      BY <2>3
    <3>2. id \in 1 .. nextId - 1 \cup MonsterIds
      BY <3>1 DEF AddedOnce, Told
    <3>3. 1 .. nextId - 1 \subseteq 1 .. MaxPlayerId
      BY GameRoomAssumption DEF IdsLast, IInv, TypeOK
    <3>4. id # c.my
      BY <1>1, GameRoomAssumption
    <3>. QED
      BY <3>1, <3>2, <3>3, <3>4 DEF New
  <2>6. \A id \in Nat : NewsAt(s, 1, id) /\ id # player[s] =>
          id \in DOMAIN d.copies /\ d.copies[id][1] = InfoAt(s, 1, id)
    <3>. SUFFICES ASSUME NEW id \in Nat, NewsAt(s, 1, id), id # player[s]
                  PROVE  id \in DOMAIN d.copies /\ d.copies[id][1] = InfoAt(s, 1, id)
      OBVIOUS
    <3>1. d.copies[id] = <<p.objects[id]>> /\ id \in DOMAIN d.copies
      BY <2>2, <2>3, <2>5
    <3>. QED
      BY <1>3, <2>3, <3>1
  <2>. QED
    BY <2>2, <2>4, <2>6
<1>5. CASE p.type = "S_RemoveObject"
  <2>1. IF p.id \notin DOMAIN c.copies THEN d.copies = c.copies /\ d.undefined = TRUE
        ELSE d.copies = Erase(c.copies, p.id) /\ d.undefined = c.undefined
    <3>. HIDE DEF c
    <3>1. Erased(c, p, d)
      BY <1>1, <1>5, RemoveHandled
    <3>. HIDE DEF d
    <3>. QED
      BY <3>1 DEF Erased
  <2>. HIDE DEF d
  <2>2. \A id \in DOMAIN c.copies : ~RemovedAt(s, 1, id) => id # p.id
    BY <1>5 DEF RemovedAt
  <2>3. \A id \in Nat : ~NewsAt(s, 1, id)
    BY <1>5 DEF NewsAt, AddedAt
  <2>. QED
    BY <2>1, <2>2, <2>3 DEF Erase
<1>6. CASE p.type = "S_Move"
  <2>0. p.id \in Nat /\ NamedAt(s, 1, p.id)
    BY <1>6, PacketHolds DEF NamedAt
  <2>1. /\ DOMAIN d.copies = DOMAIN c.copies
        /\ IF c.scene # "game" \/ c.my = p.id THEN d = c
           ELSE IF c.my = NoPlayer \/ p.id \notin DOMAIN c.copies
             THEN d.copies = c.copies /\ d.undefined = TRUE
           ELSE /\ d.undefined = c.undefined
                /\ d.copies[p.id] = <<p.info>>
                /\ \A id \in DOMAIN c.copies \ {p.id} : d.copies[id] = c.copies[id]
    <3>. HIDE DEF c
    <3>1. Moved(c, p, d)
      BY <1>1, <1>6, MoveHandled
    <3>. HIDE DEF d
    <3>. QED
      BY <3>1 DEF Moved
  <2>. HIDE DEF d
  <2>2. p.id # player[s] => p.id \in DOMAIN c.copies
    <3>1. \A j \in News(s) : ~(j < 1)
      OBVIOUS
    <3>. QED
      BY <2>0, <3>1 DEF Known
  <2>3. c.my = player[s]
    BY <1>1, <1>2, <1>6
  <2>4. \A id : NewsAt(s, 1, id) <=> id = p.id
    BY <1>6 DEF NewsAt, AddedAt
  <2>5. InfoAt(s, 1, p.id) = p.info
    BY <1>6 DEF InfoAt
  <2>6. CASE p.id = player[s]
    <3>1. d = c
      BY <2>1, <2>3, <2>6
    <3>. QED
      BY <2>4, <2>6, <3>1
  <2>7. CASE p.id # player[s]
    <3>1. /\ d.copies[p.id] = <<p.info>>
          /\ \A id \in DOMAIN c.copies \ {p.id} : d.copies[id] = c.copies[id]
      BY <1>1, <1>2, <1>6, <2>1, <2>2, <2>3, <2>7
    <3>. QED
      BY <1>3, <2>1, <2>2, <2>4, <2>5, <2>7, <3>1
  <2>. QED
    BY <2>6, <2>7
<1>7. CASE p.type \in {"S_EnterGame", "S_MyPlayer"}
  <2>1. d.copies = c.copies
    <3>. HIDE DEF c
    <3>. QED
      BY <1>1, <1>7, OtherHandled
  <2>. HIDE DEF d
  <2>2. \A id \in Nat : ~NewsAt(s, 1, id)
    BY <1>7 DEF NewsAt, AddedAt
  <2>. QED
    BY <2>1, <2>2
<1>8. p.type \in {"S_EnterGame", "S_MyPlayer", "S_Move", "S_AddObject", "S_RemoveObject"}
  BY PacketHolds
<1>. HIDE DEF Goal
<1>. QED
  BY <1>4, <1>5, <1>6, <1>7, <1>8

\* A client that handles a packet misses nothing.
LEMMA ReadTold ==
  ASSUME IInv, IdsLast, Posted, Fields, NEW s \in Sessions, Mine(s), AddedOnce(s), Copied(s),
         Sound(s), Introduced(s), Known(s), Parted(s), UpToDate(s), Dispatch(s)
  PROVE  UpToDate(s)'
<1>. DEFINE d == HandlePacket(client[s], Head(toClient[s]))
<1>1. /\ client' = [client EXCEPT ![s] = d] /\ DOMAIN client = Sessions
      /\ UNCHANGED <<sessionVars, roomVars, loopVars>>
  BY DEF Dispatch, Fields
<1>2. /\ 1 \in News(s) /\ News(s) \subseteq Nat \ {0} /\ News(s)' \subseteq Nat \ {0}
      /\ Head(toClient[s]) = toClient[s][1] /\ toClient[s][1] \in Packets
      /\ \A k \in News(s)' : toClient'[s][k] = toClient[s][k + 1]
      /\ \A k \in News(s)' : k + 1 \in News(s) /\ k + 1 > 1
      /\ \A j \in News(s) : j = 1 \/ \E i \in News(s)' : j = i + 1
      /\ \A i, k \in News(s)' : i < k => i + 1 < k + 1
  BY Shifted
<1>3. /\ \A id \in Nat : NewsAt(s, 1, id) /\ id # player[s] =>
           id \in DOMAIN d.copies /\ d.copies[id][1] = InfoAt(s, 1, id)
      /\ \A id \in DOMAIN client[s].copies : ~NewsAt(s, 1, id) /\ ~RemovedAt(s, 1, id) =>
           id \in DOMAIN d.copies /\ d.copies[id] = client[s].copies[id]
  BY <1>2, HandledNews
<1>. HIDE DEF d
<1>4. /\ client'[s] = d
      /\ UNCHANGED <<player, players, info, conn, loop, message, current>>
  BY <1>1 DEF roomVars, sessionVars, loopVars
<1>5. \A k \in News(s)' : \A id \in Nat : /\ NewsAt(s, k, id)' <=> NewsAt(s, k + 1, id)
                                          /\ InfoAt(s, k, id)' = InfoAt(s, k + 1, id)
  BY <1>2 DEF NewsAt, AddedAt, InfoAt
<1>6. ASSUME NEW id \in Nat, id # player[s], ~RemovedAt(s, 1, id), NEW i, Latest(s, id, i)
      PROVE  Latest(s, id, i)'
  <2>1. ASSUME NEW k \in News(s), NewsAt(s, k, id), InfoAt(s, k, id) = i,
               \A l \in News(s) : k < l => ~NewsAt(s, l, id)
        PROVE  Latest(s, id, i)'
    <3>1. CASE k = 1
      <4>1. \A l \in News(s)' : ~NewsAt(s, l, id)'
        BY <1>2, <1>5, <2>1, <3>1
      <4>2. id \in DOMAIN d.copies /\ d.copies[id][1] = i
        BY <1>3, <1>6, <2>1, <3>1
      <4>. QED
        BY <1>4, <4>1, <4>2 DEF Latest
    <3>2. CASE k # 1
      <4>1. PICK j \in News(s)' : k = j + 1
        BY <1>2, <3>2
      <4>2. NewsAt(s, j, id)' /\ InfoAt(s, j, id)' = i
        BY <1>5, <2>1, <4>1
      <4>3. \A l \in News(s)' : j < l => ~NewsAt(s, l, id)'
        BY <1>2, <1>5, <2>1, <4>1
      <4>. QED
        BY <4>2, <4>3 DEF Latest
    <3>. QED
      BY <3>1, <3>2
  <2>2. ASSUME \A k \in News(s) : ~NewsAt(s, k, id),
               id \in DOMAIN client[s].copies, client[s].copies[id][1] = i
        PROVE  Latest(s, id, i)'
    <3>1. \A l \in News(s)' : ~NewsAt(s, l, id)'
      BY <1>2, <1>5, <2>2
    <3>2. id \in DOMAIN d.copies /\ d.copies[id][1] = i
      BY <1>2, <1>3, <1>6, <2>2
    <3>. QED
      BY <1>4, <3>1, <3>2 DEF Latest
  <2>. QED
    BY <1>6, <2>1, <2>2 DEF Latest
<1>7. \A id \in InGame : id \in Nat /\ ~RemovedAt(s, 1, id)
  <2>1. InGame \subseteq Nat
    BY GameRoomAssumption DEF InGame, IInv, TypeOK
  <2>. QED
    BY <1>2, <2>1 DEF Parted
<1>8. InGame' = InGame /\ (Announcing' <=> Announcing) /\ \A id : Changing(id)' <=> Changing(id)
  BY <1>4 DEF InGame, Announcing, Changing
<1>. QED
  BY <1>4, <1>6, <1>7, <1>8 DEF UpToDate

LEMMA ToldStep ==
  ASSUME Faults = {}, ClientEvents = {}, IInv, IdsLast, IdsLast', Orderly, RInv, SInv,
         Truthful, [RNext]_rvars, NEW t \in Sessions, UpToDate(t)
  PROVE  UpToDate(t)'
<1>. USE DEF rvars, vars, sessionVars, roomVars, loopVars, netVars, Running
<1>0. /\ Posted /\ Fields /\ Keyed
      /\ DOMAIN toClient = Sessions /\ DOMAIN client = Sessions /\ DOMAIN conn = Sessions
  BY DEF RInv, Posted, Fields, IInv, TypeOK
<1>1. ASSUME toClient'[t] = toClient[t], client'[t].copies = client[t].copies, player'[t] = player[t],
             DOMAIN players' \subseteq DOMAIN players,
             conn'[t] = "connected" /\ player[t] # NoPlayer => conn[t] = "connected",
             Announcing => Announcing' /\ UNCHANGED <<player, current>>,
             \A id \in InGame : ~Changing(id)' => ~Changing(id) /\ info'[id] = info[id]
      PROVE  UpToDate(t)'
  <2>1. \A id \in InGame' : id \in InGame
    BY <1>1 DEF InGame
  <2>. QED
    BY <1>1, <2>1, StillTold
<1>2. ASSUME NEW s \in Sessions, OnConnected(s), UNCHANGED client PROVE UpToDate(t)'
  <2>1. /\ conn' = [conn EXCEPT ![s] = "connected"] /\ UNCHANGED <<player, players, info>>
        /\ toClient' = [toClient EXCEPT ![s] = <<[type |-> "S_EnterGame"]>>]
        /\ player[s] = NoPlayer /\ ~Announcing /\ loop' = "EnterRoom" /\ loop = "Dispatch"
    BY <1>2 DEF OnConnected, IInv, IdsGiven, Announcing
  <2>2. CASE s = t
    BY <2>1, <2>2 DEF UpToDate
  <2>3. CASE s # t
    <3>1. toClient'[t] = toClient[t] /\ conn'[t] = conn[t]
      BY <1>0, <2>1, <2>3
    <3>. QED
      BY <1>1, <1>2, <2>1, <3>1 DEF Changing
  <2>. QED
    BY <2>2, <2>3
<1>3. ASSUME EnterRoom, UNCHANGED client PROVE UpToDate(t)'
  <2>1. CASE t = current
    BY <1>0, <1>3, <2>1, EnteredTold
  <2>2. CASE t # current
    <3>1. /\ toClient'[t] = toClient[t] /\ player'[t] = player[t] /\ ~Announcing
          /\ UNCHANGED <<players, conn>> /\ loop = "EnterRoom" /\ loop' = "AddObject"
      BY <1>0, <1>3, <2>2 DEF EnterRoom, SendTo, Announcing, IInv, TypeOK
    <3>2. \A id \in InGame : info'[id] = info[id]
      <4>1. \A id \in InGame : id \in DOMAIN info /\ id # nextId
        <5>1. nextId \in Nat /\ nextId' = nextId + 1
          BY <1>3 DEF EnterRoom, IInv, TypeOK
        <5>2. nextId <= MaxPlayerId
          BY <5>1, GameRoomAssumption DEF IdsLast
        <5>3. \A id \in MonsterIds : id # nextId
          BY <5>1, <5>2, GameRoomAssumption
        <5>4. \A id \in 1 .. nextId - 1 : id # nextId
          BY <5>1
        <5>5. DOMAIN info = MonsterIds \cup 1 .. nextId - 1
          BY DEF IInv, TypeOK
        <5>. QED
          BY <1>0, <5>3, <5>4, <5>5 DEF InGame, Keyed
      <4>2. info' = Insert(info, nextId, SpawnInfo)
        BY <1>3 DEF EnterRoom
      <4>. QED
        BY <4>1, <4>2 DEF Insert
    <3>. QED
      BY <1>1, <1>3, <3>1, <3>2 DEF Changing
  <2>. QED
    BY <2>1, <2>2
<1>4. ASSUME AddObject, UNCHANGED client PROVE UpToDate(t)'
  <2>1. /\ UNCHANGED <<toClient, player, current, conn, info>> /\ loop = "AddObject"
        /\ loop' = "Broadcast" /\ Announcing' /\ message'.type = "S_AddObject"
    BY <1>4 DEF AddObject, StartBroadcast, Announcing
  <2>2. \A id \in InGame' : id # player'[current'] => id \in InGame
    <3>1. players' = players \/ players' = Insert(players, player[current], current)
      BY <1>4 DEF AddObject
    <3>2. DOMAIN players' \subseteq DOMAIN players \cup {player[current]}
      BY <3>1 DEF Insert
    <3>. QED
      BY <2>1, <3>2 DEF InGame
  <2>3. \A id \in InGame' : id # player[t] /\ (Announcing' => id # player'[current']) /\ ~Changing(id)' =>
          /\ id \in InGame /\ (Announcing => id # player[current]) /\ ~Changing(id)
          /\ info'[id] = info[id]
    BY <2>1, <2>2 DEF Changing
  <2>. QED
    BY <1>4, <2>1, <2>3, StillTold
<1>5. ASSUME Broadcast, UNCHANGED client PROVE UpToDate(t)'
  <2>1. /\ UNCHANGED <<player, players, info, conn, current>> /\ loop = "Broadcast" /\ loop' = after
        /\ toClient' = [s \in Sessions |->
             IF s \in Receivers /\ conn[s] = "connected"
               THEN Append(toClient[s], message) ELSE toClient[s]]
    BY <1>5 DEF Broadcast
  <2>2. loop' \notin {"Broadcast", "AddObject"}
    BY <2>1 DEF IInv, TypeOK
  <2>3. CASE conn[t] = "connected" /\ player[t] # NoPlayer
    <3>1. t \in Receivers
      <4>1. player[t] \in DOMAIN players /\ players[player[t]] = t
        BY <2>1, <2>3, InTheRoom DEF Entering
      <4>. QED
        BY <4>1, GameRoomAssumption DEF Receivers
    <3>2. toClient'[t] = Append(toClient[t], message) /\ ~Announcing'
      BY <2>1, <2>2, <2>3, <3>1 DEF Announcing
    <3>. QED
      BY <1>0, <1>5, <2>1, <2>2, <3>2, BroadcastTold
  <2>4. CASE ~(conn[t] = "connected" /\ player[t] # NoPlayer)
    BY <2>1, <2>4 DEF UpToDate
  <2>. QED
    BY <2>3, <2>4
<1>6. ASSUME NEW s \in Sessions, RecvZero(s) \/ ProcessSend(s), UNCHANGED client
      PROVE  UpToDate(t)'
  <2>1. /\ UNCHANGED <<toClient, player, current, info>> /\ ~Announcing /\ loop = "Dispatch"
        /\ Disconnect(s) \/ (UNCHANGED <<conn, players>> /\ loop' = "Update")
    BY <1>6 DEF RecvZero, ProcessSend, Announcing
  <2>2. /\ DOMAIN players' \subseteq DOMAIN players
        /\ conn'[t] = "connected" => conn[t] = "connected"
    <3>1. \/ UNCHANGED <<conn, players>>
          \/ conn' = [conn EXCEPT ![s] = "closed"] /\ players' = Erase(players, player[s])
      BY <2>1, LeaveFound
    <3>. QED
      BY <1>0, <3>1 DEF Erase
  <2>. QED
    BY <1>1, <1>6, <2>1, <2>2 DEF Changing
<1>7. ASSUME NEW s \in Sessions, ProcessRecv(s) \/ ProcessDisconnect(s), UNCHANGED client
      PROVE  UpToDate(t)'
  <2>1. /\ UNCHANGED <<toClient, player, players, info, conn>> /\ ~Announcing
        /\ loop = "Dispatch"
    BY <1>7 DEF ProcessRecv, ProcessDisconnect, Announcing
  <2>. QED
    BY <1>1, <1>7, <2>1 DEF Changing
<1>8. ASSUME RegisterRecv \/ OnRecvReturns \/ UpdateReturns, UNCHANGED client PROVE UpToDate(t)'
  <2>1. /\ UNCHANGED <<toClient, player, players, info, conn>> /\ ~Announcing
        /\ loop # "Broadcast"
    BY <1>8 DEF RegisterRecv, OnRecvReturns, UpdateReturns, Announcing
  <2>. QED
    BY <1>1, <1>8, <2>1 DEF Changing
<1>9. ASSUME HandleMove, UNCHANGED client PROVE UpToDate(t)'
  <2>1. PICK move : /\ UNCHANGED players /\ loop' = "Broadcast"
                    /\ message' = [type |-> "S_Move", id |-> move.id, info |-> move.info]
                    /\ info' = [info EXCEPT ![move.id] = move.info]
    BY <1>9, MoveFound
  <2>2. UNCHANGED <<toClient, player, current, conn>> /\ ~Announcing /\ loop = "OnRecv"
    BY <1>9 DEF HandleMove, Announcing
  <2>3. \A id : ~Changing(id)' => id # move.id /\ info'[id] = info[id]
    BY <2>1 DEF Changing
  <2>. QED
    BY <1>1, <1>9, <2>1, <2>2, <2>3 DEF Changing
<1>10. ASSUME UpdateMonster, UNCHANGED client PROVE UpToDate(t)'
  <2>1. UNCHANGED <<toClient, player, players, current, conn>> /\ ~Announcing /\ loop = "Update"
    BY <1>10 DEF UpdateMonster, Announcing
  <2>2. \/ UNCHANGED <<info, loop, message, after>>
        \/ \E m, i : /\ info' = [info EXCEPT ![m] = i] /\ loop' = "Broadcast"
                     /\ message' = [type |-> "S_Move", id |-> m, info |-> i]
    BY <1>10 DEF UpdateMonster, StartBroadcast
  <2>3. \A id : ~Changing(id)' => info'[id] = info[id]
    <3>1. ASSUME NEW m, NEW i, info' = [info EXCEPT ![m] = i], loop' = "Broadcast",
                 message' = [type |-> "S_Move", id |-> m, info |-> i]
          PROVE  \A id : ~Changing(id)' => info'[id] = info[id]
      <4>1. Changing(m)'
        BY <3>1 DEF Changing
      <4>2. \A id : id # m => info'[id] = info[id]
        BY <3>1
      <4>. QED
        BY <4>1, <4>2
    <3>. QED
      BY <2>2, <3>1
  <2>. QED
    BY <1>1, <1>10, <2>1, <2>3 DEF Changing
<1>11. ASSUME Network, UNCHANGED client PROVE UpToDate(t)'
  <2>1. UNCHANGED <<toClient, player, players, info, current, conn, loop, message>>
    BY <1>11 DEF Network, Arrive, RecvEnd
  <2>. QED
    BY <1>1, <1>11, <2>1 DEF Announcing, Changing
<1>12. ASSUME NEW s \in Sessions, Dispatch(s) PROVE UpToDate(t)'
  <2>1. CASE t = s
    <3>1. /\ Mine(s) /\ AddedOnce(s) /\ Copied(s)
          /\ Sound(s) /\ Introduced(s) /\ Known(s) /\ Parted(s)
      BY DEF RInv, SInv
    <3>. QED
      BY <1>0, <1>12, <2>1, <3>1, ReadTold
  <2>2. CASE t # s
    <3>1. toClient'[t] = toClient[t] /\ client'[t] = client[t]
          /\ UNCHANGED <<player, players, info, conn, loop, message, current>>
      BY <1>0, <1>12, <2>2 DEF Dispatch
    <3>. QED
      BY <1>1, <3>1 DEF Announcing, Changing
  <2>. QED
    BY <2>1, <2>2
<1>13. ASSUME NEW s \in Sessions,
              \/ Tick(s) \/ Collide(s) \/ ChangeScene(s)
              \/ \E m \in MonsterIds : Kill(s, m) \/ TickDead(s, m)
       PROVE  UpToDate(t)'
  <2>1. /\ UNCHANGED <<toClient, player, players, info, conn, loop, message, current>>
        /\ client'[t].copies = client[t].copies
    BY <1>0, <1>13, FrameOfClient DEF Same
  <2>. QED
    BY <1>1, <2>1 DEF Announcing, Changing
<1>14. CASE UNCHANGED rvars
  BY <1>1, <1>14 DEF Announcing, Changing
<1>15. CASE Server /\ UNCHANGED <<client, sent>>
  BY <1>2, <1>3, <1>4, <1>5, <1>6, <1>7, <1>8, <1>9, <1>10, <1>15 DEF Server
<1>. QED
  BY <1>11, <1>12, <1>13, <1>14, <1>15 DEF RNext, Client

LEMMA TruthfulStep ==
  ASSUME Faults = {}, ClientEvents = {}, IInv, IdsLast, Orderly, RInv, SInv,
         Truthful, [RNext]_rvars
  PROVE  Truthful'
<1>. USE DEF rvars, vars, sessionVars, roomVars, loopVars, netVars, Running
<1>1. ASSUME loop' # "Broadcast" PROVE Truthful'
  BY <1>1 DEF Truthful
<1>2. ASSUME UNCHANGED <<loop, message, info, player, current>> PROVE Truthful'
  BY <1>2 DEF Truthful
<1>3. ASSUME NEW s \in Sessions, RecvZero(s) \/ ProcessSend(s) PROVE Truthful'
  <2>1. loop = "Dispatch" /\ (loop' = "Update" \/ Disconnect(s))
    BY <1>3 DEF RecvZero, ProcessSend
  <2>2. loop' = "Update" \/ message' = [type |-> "S_RemoveObject", id |-> player[s]]
    BY <2>1, LeaveFound
  <2>. QED
    BY <1>1, <2>2 DEF Truthful
<1>4. ASSUME \/ EnterRoom \/ RegisterRecv \/ OnRecvReturns \/ UpdateReturns \/ Broadcast
             \/ \E s \in Sessions : OnConnected(s) \/ ProcessRecv(s) \/ ProcessDisconnect(s)
      PROVE  Truthful'
  <2>1. loop' # "Broadcast"
    BY <1>4 DEF EnterRoom, RegisterRecv, OnRecvReturns, UpdateReturns, Broadcast,
                OnConnected, ProcessRecv, ProcessDisconnect, IInv, TypeOK
  <2>. QED
    BY <1>1, <2>1
<1>5. ASSUME AddObject PROVE Truthful'
  <2>1. /\ UNCHANGED <<player, current, info>>
        /\ message' = [type |-> "S_AddObject", objects |-> [o \in {player[current]} |-> info[o]]]
    BY <1>5 DEF AddObject, StartBroadcast
  <2>. QED
    BY <2>1 DEF Truthful
<1>6. ASSUME HandleMove PROVE Truthful'
  <2>1. PICK move : /\ move.id = player[current] /\ player[current] \in DOMAIN players
                    /\ message' = [type |-> "S_Move", id |-> move.id, info |-> move.info]
                    /\ info' = [info EXCEPT ![move.id] = move.info]
    BY <1>6, MoveFound
  <2>2. player[current] \in DOMAIN info
    BY <2>1 DEF RInv, Keyed, IInv, TypeOK
  <2>3. message'.type = "S_Move" /\ message'.id = move.id /\ message'.info = move.info
    BY <2>1
  <2>4. info'[move.id] = move.info
    BY <2>1, <2>2
  <2>. QED
    BY <2>3, <2>4 DEF Truthful
<1>7. ASSUME UpdateMonster PROVE Truthful'
  <2>1. \/ loop' = "Update"
        \/ \E m \in MonsterIds, i \in Infos :
             /\ info' = [info EXCEPT ![m] = i]
             /\ message' = [type |-> "S_Move", id |-> m, info |-> i]
    BY <1>7 DEF UpdateMonster, StartBroadcast, Orderly
  <2>2. ASSUME NEW m \in MonsterIds, NEW i, info' = [info EXCEPT ![m] = i],
               message' = [type |-> "S_Move", id |-> m, info |-> i]
        PROVE  Truthful'
    <3>1. message'.type = "S_Move" /\ message'.id = m /\ message'.info = i
      BY <2>2
    <3>2. m \in DOMAIN info
      BY DEF IInv, TypeOK
    <3>3. info'[m] = i
      BY <2>2, <3>2
    <3>. QED
      BY <3>1, <3>3 DEF Truthful
  <2>. QED
    BY <1>1, <2>1, <2>2
<1>8. ASSUME Network PROVE Truthful'
  BY <1>2, <1>8 DEF Network, Arrive, RecvEnd
<1>9. ASSUME NEW s \in Sessions, Client(s) PROVE Truthful'
  BY <1>2, <1>9 DEF Client, Dispatch, Tick, Collide, ChangeScene, Kill, TickDead
<1>10. CASE UNCHANGED rvars
  BY <1>2, <1>10
<1>11. CASE Server
  BY <1>3, <1>4, <1>5, <1>6, <1>7, <1>11 DEF Server
<1>. QED
  BY <1>8, <1>9, <1>10, <1>11 DEF RNext

\* Nothing is on its way from a session that has no player.
LEMMA Silent ==
  ASSUME IInv, Orderly, NEW s \in Sessions, player[s] = NoPlayer
  PROVE  arrived[s] = <<>> /\ toServer[s] = <<>> /\ recv[s] = "none"
<1>1. /\ arrived[s] \in Seq([id : Nat, info : Infos]) /\ toServer[s] \in Seq([id : Nat, info : Infos])
      /\ \A k \in 1 .. Len(arrived[s]) : arrived[s][k].id \notin Nat
      /\ \A k \in 1 .. Len(toServer[s]) : toServer[s][k].id \notin Nat
  BY GameRoomAssumption DEF IInv, TypeOK, Orderly
<1>2. ASSUME NEW q \in Seq([id : Nat, info : Infos]), \A k \in 1 .. Len(q) : q[k].id \notin Nat
      PROVE  q = <<>>
  <2>. SUFFICES ASSUME q # <<>> PROVE FALSE
    OBVIOUS
  <2>1. 1 \in 1 .. Len(q)
    BY NonEmptySeq
  <2>2. q[1] \in [id : Nat, info : Infos]
    BY <2>1, Element
  <2>. QED
    BY <1>2, <2>1, <2>2
<1>3. recv[s] = "none"
  BY DEF Orderly
<1>. QED
  BY <1>1, <1>2, <1>3

LEMMA EmptiedStep ==
  ASSUME Faults = {}, IInv, IdsLast, Orderly, [RNext]_rvars, NEW t \in Sessions, Emptied(t)
  PROVE  Emptied(t)'
<1>. USE DEF rvars, vars, sessionVars, roomVars, loopVars, netVars, Running
<1>0. recv \in [Sessions -> {"none", "posted", "data", "end"}] /\ DOMAIN arrived = Sessions
  BY DEF IInv, TypeOK
<1>1. ASSUME UNCHANGED <<recv, arrived, loop, after, current>> PROVE Emptied(t)'
  BY <1>1 DEF Emptied, Serving
<1>2. ASSUME ~Serving', recv'[t] = "posted" => recv[t] = "posted", arrived'[t] = arrived[t]
      PROVE  Emptied(t)'
  BY <1>2 DEF Emptied
<1>3. ASSUME NEW s \in Sessions, OnConnected(s) PROVE Emptied(t)'
  <2>1. UNCHANGED <<recv, arrived>> /\ current' = s /\ player[s] = NoPlayer
    BY <1>3 DEF OnConnected, IInv, IdsGiven
  <2>2. s = t => recv[t] = "none" /\ arrived[t] = <<>>
    BY <2>1, Silent
  <2>. QED
    BY <2>1, <2>2 DEF Emptied
<1>4. ASSUME NEW s \in Sessions, ProcessRecv(s) PROVE Emptied(t)'
  <2>1. recv' = [recv EXCEPT ![s] = "none"] /\ UNCHANGED arrived /\ loop' = "OnRecv" /\ current' = s
    BY <1>4 DEF ProcessRecv
  <2>. QED
    BY <1>0, <2>1 DEF Emptied
<1>5. ASSUME NEW s \in Sessions, RecvZero(s) \/ ProcessSend(s) \/ ProcessDisconnect(s)
      PROVE  Emptied(t)'
  <2>1. UNCHANGED arrived /\ recv'[t] \in {recv[t], "none"}
        /\ (Disconnect(s) \/ loop' = "Update")
    BY <1>0, <1>5 DEF RecvZero, ProcessSend, ProcessDisconnect
  <2>2. ~Serving'
    BY <2>1, LeaveType DEF Serving, IInv
  <2>. QED
    BY <1>2, <2>1, <2>2
<1>6. ASSUME EnterRoom \/ AddObject PROVE Emptied(t)'
  <2>1. /\ UNCHANGED <<recv, arrived, current>> /\ loop \in {"EnterRoom", "AddObject"}
        /\ loop' = "AddObject" \/ (loop' = "Broadcast" /\ after' = "RegisterRecv")
    BY <1>6 DEF EnterRoom, AddObject, StartBroadcast
  <2>. QED
    BY <2>1 DEF Emptied, Serving
<1>7. ASSUME Broadcast PROVE Emptied(t)'
  <2>1. UNCHANGED <<recv, arrived, current>> /\ loop = "Broadcast" /\ loop' = after
        /\ after \in {"RegisterRecv", "OnRecv", "Update"}
    BY <1>7 DEF Broadcast, IInv, TypeOK
  <2>. QED
    BY <2>1 DEF Emptied, Serving
<1>8. ASSUME RegisterRecv PROVE Emptied(t)'
  <2>1. /\ loop = "RegisterRecv" /\ loop' = "Update" /\ UNCHANGED arrived
        /\ recv' = recv \/ recv' = [recv EXCEPT ![current] = "posted"]
    BY <1>8 DEF RegisterRecv
  <2>2. CASE current = t
    BY <1>0, <2>1, <2>2 DEF Emptied, Serving
  <2>3. CASE current # t
    BY <1>0, <2>1, <2>3 DEF Emptied, Serving
  <2>. QED
    BY <2>2, <2>3
<1>9. ASSUME HandleMove PROVE Emptied(t)'
  <2>1. /\ UNCHANGED <<recv, current>> /\ loop = "OnRecv" /\ loop' = "Broadcast" /\ after' = "OnRecv"
        /\ arrived' = [arrived EXCEPT ![current] = Tail(@)] /\ arrived[current] # <<>>
    BY <1>9, MoveFound DEF HandleMove
  <2>2. current # t => arrived'[t] = arrived[t]
    BY <1>0, <2>1
  <2>. QED
    BY <2>1, <2>2 DEF Emptied, Serving
<1>10. ASSUME OnRecvReturns PROVE Emptied(t)'
  BY <1>10 DEF OnRecvReturns, Emptied, Serving
<1>11. ASSUME UpdateMonster \/ UpdateReturns PROVE Emptied(t)'
  <2>1. UNCHANGED <<recv, arrived>> /\ loop = "Update"
        /\ (UNCHANGED loop \/ loop' = "Dispatch" \/ (loop' = "Broadcast" /\ after' = "Update"))
    BY <1>11 DEF UpdateMonster, UpdateReturns, StartBroadcast
  <2>2. ~Serving'
    BY <2>1 DEF Serving
  <2>. QED
    BY <1>2, <2>1, <2>2
<1>12. ASSUME NEW s \in Sessions, Arrive(s) \/ RecvEnd(s) PROVE Emptied(t)'
  <2>1. /\ UNCHANGED <<loop, after, current>> /\ recv[s] = "posted"
        /\ recv' = [recv EXCEPT ![s] = "data"] \/ recv' = [recv EXCEPT ![s] = "end"]
    BY <1>12 DEF Arrive, RecvEnd
  <2>2. s # t => recv'[t] = recv[t] /\ arrived'[t] = arrived[t]
    BY <1>0, <1>12 DEF Arrive, RecvEnd
  <2>3. s = t => recv'[t] # "posted"
    BY <1>0, <2>1
  <2>. QED
    BY <2>1, <2>2, <2>3 DEF Emptied, Serving
<1>13. ASSUME NEW s \in Sessions, Client(s) PROVE Emptied(t)'
  BY <1>1, <1>13 DEF Client, Dispatch, Tick, Collide, ChangeScene, Kill, TickDead
<1>14. CASE UNCHANGED rvars
  BY <1>1, <1>14
<1>15. CASE Server
  BY <1>3, <1>4, <1>5, <1>6, <1>7, <1>8, <1>9, <1>10, <1>11, <1>15 DEF Server
<1>. QED
  BY <1>12, <1>13, <1>14, <1>15 DEF RNext, Network

\* What Arrive and HandleMove take from the front leaves the last packet.
LEMMA LastKept ==
  ASSUME NEW S, NEW q \in Seq(S), q # <<>>
  PROVE  /\ Tail(q) # <<>> => Tail(q)[Len(Tail(q))] = q[Len(q)]
         /\ Tail(q) = <<>> => Head(q) = q[Len(q)]
         /\ \A n \in 1 .. Len(q) : LET a == SubSeq(q, 1, n)
                                       b == SubSeq(q, n + 1, Len(q))
                                   IN /\ a # <<>>
                                      /\ b = <<>> => a[Len(a)] = q[Len(q)]
                                      /\ b # <<>> => b[Len(b)] = q[Len(q)]
<1>1. /\ Len(q) \in Nat /\ Len(q) > 0 /\ Head(q) = q[1] /\ Len(Tail(q)) = Len(q) - 1
      /\ \A k \in 1 .. Len(Tail(q)) : Tail(q)[k] = q[k + 1]
  BY NonEmptySeq
<1>2. Tail(q) # <<>> => Tail(q)[Len(Tail(q))] = q[Len(q)]
  <2>1. Tail(q) \in Seq(S)
    OBVIOUS
  <2>2. Tail(q) # <<>> => Len(Tail(q)) \in 1 .. Len(Tail(q)) /\ Len(Tail(q)) + 1 = Len(q)
    BY <1>1, <2>1
  <2>. QED
    BY <1>1, <2>2
<1>3. Tail(q) = <<>> => Head(q) = q[Len(q)]
  <2>1. Len(<<>>) = 0
    OBVIOUS
  <2>2. Tail(q) = <<>> => Len(q) = 1
    BY <1>1, <2>1
  <2>. QED
    BY <1>1, <2>2
<1>4. ASSUME NEW n \in 1 .. Len(q), NEW a, a = SubSeq(q, 1, n), NEW b, b = SubSeq(q, n + 1, Len(q))
      PROVE  /\ a # <<>>
             /\ b = <<>> => a[Len(a)] = q[Len(q)]
             /\ b # <<>> => b[Len(b)] = q[Len(q)]
  <2>1. /\ a \in Seq(S) /\ Len(a) = n /\ \A k \in 1 .. n : a[k] = q[k]
        /\ b \in Seq(S) /\ Len(b) = Len(q) - n /\ \A k \in 1 .. Len(q) - n : b[k] = q[n + k]
    BY <1>4, Cut
  <2>2. n \in 1 .. n /\ n > 0 /\ n \in Nat
    OBVIOUS
  <2>3. a # <<>>
    BY <2>1, <2>2
  <2>4. b = <<>> => n = Len(q)
    <3>. SUFFICES ASSUME b = <<>> PROVE n = Len(q)
      OBVIOUS
    <3>1. Len(<<>>) = 0
      OBVIOUS
    <3>2. Len(b) = 0
      BY <3>1
    <3>3. Len(q) - n = 0
      BY <2>1, <3>2
    <3>4. \A l, m \in Nat : l - m = 0 => m = l
      OBVIOUS
    <3>. QED
      BY <1>1, <2>2, <3>3, <3>4
  <2>5. b # <<>> => Len(b) \in 1 .. Len(q) - n /\ n + Len(b) = Len(q)
    BY <1>1, <2>1, <2>2
  <2>. QED
    BY <2>1, <2>2, <2>3, <2>4, <2>5
<1>. QED
  BY <1>2, <1>3, <1>4

\* What Tick adds is the last packet.
LEMMA LastAppended ==
  ASSUME NEW S, NEW q \in Seq(S), NEW x
  PROVE  Append(q, x) # <<>> /\ Append(q, x)[Len(Append(q, x))] = x
OBVIOUS

\* The last report of s is as far on its way as it was.
LEMMA StillReported ==
  ASSUME NEW s \in Sessions, Reported(s), player'[s] = player[s], sent'[s] = sent[s],
         toServer'[s] = toServer[s], arrived'[s] = arrived[s],
         conn'[s] = "connected" /\ player[s] # NoPlayer =>
           conn[s] = "connected" /\ info'[player[s]] = info[player[s]]
  PROVE  Reported(s)'
BY DEF Reported

LEMMA ReportedStep ==
  ASSUME Faults = {}, ClientEvents = {}, IInv, IdsLast, IdsLast', Orderly, RInv, SInv,
         [RNext]_rvars, NEW t \in Sessions, Reported(t), Emptied(t), DOMAIN sent = Sessions
  PROVE  Reported(t)'
<1>. USE DEF rvars, vars, sessionVars, roomVars, loopVars, netVars, Running
<1>0. /\ DOMAIN conn = Sessions /\ DOMAIN arrived = Sessions /\ DOMAIN toServer = Sessions
      /\ arrived[t] \in Seq([id : Nat, info : Infos]) /\ toServer[t] \in Seq([id : Nat, info : Infos])
  BY DEF IInv, TypeOK
<1>1. player[t] # NoPlayer =>
        /\ player[t] \in 1 .. nextId - 1 /\ player[t] \in DOMAIN info /\ player[t] \notin MonsterIds
  <2>1. nextId \in Nat /\ (player[t] # NoPlayer => player[t] \in 1 .. nextId - 1)
    BY DEF IInv, IdsGiven, TypeOK
  <2>2. DOMAIN info = MonsterIds \cup 1 .. nextId - 1
    BY DEF IInv, TypeOK
  <2>3. \A id \in 1 .. nextId - 1 : id \notin MonsterIds
    BY <2>1, GameRoomAssumption DEF IdsLast
  <2>. QED
    BY <2>1, <2>2, <2>3
<1>2. ASSUME UNCHANGED <<conn, player, toServer, arrived, info, sent>> PROVE Reported(t)'
  BY <1>2, StillReported
<1>3. ASSUME NEW s \in Sessions, OnConnected(s), UNCHANGED sent PROVE Reported(t)'
  <2>1. /\ UNCHANGED <<player, info, toServer, arrived>> /\ player[s] = NoPlayer
        /\ conn' = [conn EXCEPT ![s] = "connected"]
    BY <1>3 DEF OnConnected, IInv, IdsGiven
  <2>2. conn'[t] = "connected" /\ player[t] # NoPlayer => conn[t] = "connected"
    BY <1>0, <2>1
  <2>. QED
    BY <1>3, <2>1, <2>2, StillReported
<1>4. ASSUME EnterRoom, UNCHANGED sent PROVE Reported(t)'
  <2>1. /\ UNCHANGED <<conn, toServer, arrived>> /\ current \in Sessions
        /\ player' = [player EXCEPT ![current] = nextId] /\ player[current] = NoPlayer
        /\ info' = Insert(info, nextId, SpawnInfo)
        /\ player \in [Sessions -> Nat \cup {NoPlayer}] /\ nextId \in Nat
    BY <1>4 DEF EnterRoom, IInv, IdsGiven, Serving, TypeOK
  <2>2. CASE t = current
    <3>1. arrived[t] = <<>> /\ toServer[t] = <<>>
      BY <2>1, <2>2, Silent
    <3>2. player'[t] = nextId /\ nextId # NoPlayer
      BY <2>1, <2>2, GameRoomAssumption
    <3>3. info'[nextId] = SpawnInfo
      BY <2>1 DEF Insert
    <3>4. sent[t] = SpawnInfo
      BY <2>1, <2>2 DEF Reported
    <3>. QED
      BY <1>4, <2>1, <3>1, <3>2, <3>3, <3>4 DEF Reported
  <2>3. CASE t # current
    <3>1. player'[t] = player[t]
      BY <2>1, <2>3
    <3>2. player[t] # NoPlayer => player[t] # nextId
      BY <1>1, <2>1
    <3>3. player[t] # NoPlayer => info'[player[t]] = info[player[t]]
      BY <1>1, <2>1, <3>2 DEF Insert
    <3>. QED
      BY <1>4, <2>1, <3>1, <3>3, StillReported
  <2>. QED
    BY <2>2, <2>3
<1>5. ASSUME NEW s \in Sessions, RecvZero(s) \/ ProcessSend(s), UNCHANGED sent PROVE Reported(t)'
  <2>1. /\ UNCHANGED <<player, info, toServer, arrived>> /\ loop = "Dispatch"
        /\ Disconnect(s) \/ UNCHANGED conn
    BY <1>5 DEF RecvZero, ProcessSend
  <2>2. UNCHANGED conn \/ conn' = [conn EXCEPT ![s] = "closed"]
    BY <2>1, LeaveFound
  <2>3. conn'[t] = "connected" => conn[t] = "connected"
    BY <1>0, <2>2
  <2>. QED
    BY <1>5, <2>1, <2>3, StillReported
<1>6. ASSUME \/ AddObject \/ RegisterRecv \/ OnRecvReturns \/ UpdateReturns \/ Broadcast
             \/ \E s \in Sessions : ProcessRecv(s) \/ ProcessDisconnect(s),
             UNCHANGED sent
      PROVE  Reported(t)'
  BY <1>2, <1>6 DEF AddObject, RegisterRecv, OnRecvReturns, UpdateReturns, Broadcast,
                    ProcessRecv, ProcessDisconnect
<1>7. ASSUME HandleMove, UNCHANGED sent PROVE Reported(t)'
  <2>1. PICK move : /\ move = Head(arrived[current]) /\ move.id = player[current]
                    /\ info' = [info EXCEPT ![move.id] = move.info]
                    /\ current \in Sessions /\ arrived[current] # <<>>
    BY <1>7, MoveFound
  <2>2. /\ UNCHANGED <<player, conn, toServer>>
        /\ arrived' = [arrived EXCEPT ![current] = Tail(@)]
    BY <1>7 DEF HandleMove
  <2>3. CASE current = t
    <3>1. /\ Tail(arrived[t]) # <<>> =>
               Tail(arrived[t])[Len(Tail(arrived[t]))] = arrived[t][Len(arrived[t])]
          /\ Tail(arrived[t]) = <<>> => move = arrived[t][Len(arrived[t])]
      BY <1>0, <2>1, <2>3, LastKept
    <3>2. arrived'[t] = Tail(arrived[t])
      BY <1>0, <2>2, <2>3
    <3>3. player[t] # NoPlayer => info'[player[t]] = move.info
      BY <1>1, <2>1, <2>3
    <3>. QED
      BY <1>7, <2>1, <2>2, <2>3, <3>1, <3>2, <3>3 DEF Reported
  <2>4. CASE current # t
    <3>1. arrived'[t] = arrived[t]
      BY <1>0, <2>2, <2>4
    <3>2. player[t] # NoPlayer => player[t] # move.id
      BY <2>1, <2>4 DEF IInv, IdsGiven
    <3>3. player[t] # NoPlayer => info'[player[t]] = info[player[t]]
      BY <1>1, <2>1, <3>2
    <3>. QED
      BY <1>7, <2>2, <3>1, <3>3, StillReported
  <2>. QED
    BY <2>3, <2>4
<1>8. ASSUME UpdateMonster, UNCHANGED sent PROVE Reported(t)'
  <2>1. /\ UNCHANGED <<conn, player, toServer, arrived>>
        /\ \/ UNCHANGED info
           \/ \E m \in MonsterIds, i \in Infos : info' = [info EXCEPT ![m] = i]
    BY <1>8 DEF UpdateMonster, Orderly
  <2>2. player[t] # NoPlayer => info'[player[t]] = info[player[t]]
    BY <1>1, <2>1
  <2>. QED
    BY <1>8, <2>1, <2>2, StillReported
<1>9. ASSUME NEW s \in Sessions, Arrive(s), UNCHANGED sent PROVE Reported(t)'
  <2>1. /\ UNCHANGED <<conn, player, info>> /\ recv[s] = "posted"
        /\ \E n \in 1 .. Len(toServer[s]) :
             /\ arrived' = [arrived EXCEPT ![s] = SubSeq(toServer[s], 1, n)]
             /\ toServer' = [toServer EXCEPT ![s] = SubSeq(@, n + 1, Len(@))]
    BY <1>9 DEF Arrive
  <2>2. CASE s = t
    <3>1. PICK n \in 1 .. Len(toServer[t]) :
            /\ arrived' = [arrived EXCEPT ![t] = SubSeq(toServer[t], 1, n)]
            /\ toServer' = [toServer EXCEPT ![t] = SubSeq(@, n + 1, Len(@))]
      BY <2>1, <2>2
    <3>2. toServer[t] # <<>>
      BY <3>1
    <3>3. /\ arrived'[t] = SubSeq(toServer[t], 1, n)
          /\ toServer'[t] = SubSeq(toServer[t], n + 1, Len(toServer[t]))
      BY <1>0, <3>1
    <3>4. /\ arrived'[t] # <<>>
          /\ toServer'[t] = <<>> => arrived'[t][Len(arrived'[t])] = toServer[t][Len(toServer[t])]
          /\ toServer'[t] # <<>> => toServer'[t][Len(toServer'[t])] = toServer[t][Len(toServer[t])]
      BY <1>0, <3>1, <3>2, <3>3, LastKept
    <3>. QED
      BY <1>9, <2>1, <3>2, <3>4 DEF Reported
  <2>3. CASE s # t
    <3>1. arrived'[t] = arrived[t] /\ toServer'[t] = toServer[t]
      BY <1>0, <2>1, <2>3
    <3>. QED
      BY <1>9, <2>1, <3>1, StillReported
  <2>. QED
    BY <2>2, <2>3
<1>10. ASSUME NEW s \in Sessions, RecvEnd(s), UNCHANGED sent PROVE Reported(t)'
  BY <1>2, <1>10 DEF RecvEnd
<1>11. ASSUME NEW s \in Sessions, Dispatch(s) \/ Collide(s) PROVE Reported(t)'
  BY <1>2, <1>11 DEF Dispatch, Collide
<1>12. ASSUME NEW s \in Sessions, Tick(s) PROVE Reported(t)'
  <2>1. /\ UNCHANGED <<conn, player, info, arrived>> /\ player[s] # NoPlayer
        /\ \E i, dirty : SyncToServer(s, i, dirty)
    <3>1. client[s].my # NoPlayer /\ client[s].my \in {NoPlayer, player[s]}
      BY <1>12 DEF Tick, Playing, RInv, Mine
    <3>. QED
      BY <1>12, <3>1 DEF Tick
  <2>2. PICK i, dirty : SyncToServer(s, i, dirty)
    BY <2>1
  <2>3. CASE ~dirty
    BY <1>2, <2>1, <2>2, <2>3 DEF SyncToServer
  <2>4. CASE dirty
    <3>1. /\ sent' = [sent EXCEPT ![s] = i]
          /\ toServer' = IF conn[s] = "connected"
               THEN [toServer EXCEPT ![s] = Append(@, [id |-> client[s].my, info |-> i])]
               ELSE toServer
      BY <2>2, <2>4 DEF SyncToServer
    <3>2. CASE s # t
      <4>1. sent'[t] = sent[t] /\ toServer'[t] = toServer[t]
        BY <1>0, <3>1, <3>2
      <4>. QED
        BY <2>1, <4>1, StillReported
    <3>3. CASE s = t /\ conn[t] # "connected"
      BY <2>1, <3>3 DEF Reported
    <3>4. CASE s = t /\ conn[t] = "connected"
      <4>1. toServer'[t] = Append(toServer[t], [id |-> client[t].my, info |-> i])
        BY <1>0, <3>1, <3>4
      <4>2. sent'[t] = i
        BY <3>1, <3>4
      <4>3. /\ toServer'[t] # <<>>
            /\ toServer'[t][Len(toServer'[t])] = [id |-> client[t].my, info |-> i]
        <5>1. PICK m : m = [id |-> client[t].my, info |-> i]
          OBVIOUS
        <5>2. toServer'[t] = Append(toServer[t], m)
          BY <4>1, <5>1
        <5>3. PICK q \in Seq([id : Nat, info : Infos]) : q = toServer[t]
          BY <1>0
        <5>4. Append(q, m) # <<>> /\ Append(q, m)[Len(Append(q, m))] = m
          BY LastAppended
        <5>. QED
          BY <5>1, <5>2, <5>3, <5>4
      <4>4. [id |-> client[t].my, info |-> i].info = i
        OBVIOUS
      <4>5. toServer'[t][Len(toServer'[t])].info = i
        BY <4>3, <4>4
      <4>. QED
        BY <2>1, <3>4, <4>2, <4>3, <4>5 DEF Reported
    <3>. QED
      BY <3>2, <3>3, <3>4
  <2>. QED
    BY <2>3, <2>4
<1>13. ASSUME NEW s \in Sessions, Client(s) PROVE Reported(t)'
  <2>1. Dispatch(s) \/ Tick(s) \/ Collide(s)
    BY <1>13, FrameOfClient DEF Client, RInv
  <2>. QED
    BY <1>11, <1>12, <2>1
<1>14. CASE UNCHANGED rvars
  BY <1>2, <1>14
<1>15. CASE Server /\ UNCHANGED <<client, sent>>
  BY <1>3, <1>4, <1>5, <1>6, <1>7, <1>8, <1>15 DEF Server
<1>. QED
  BY <1>9, <1>10, <1>13, <1>14, <1>15 DEF RNext, Network

LEMMA TInvInit == RInit => TInv
<1>. SUFFICES ASSUME RInit PROVE TInv
  OBVIOUS
<1>. USE DEF RInit, Init
<1>1. Truthful /\ DOMAIN sent = Sessions
  BY DEF Truthful
<1>2. ASSUME NEW s \in Sessions PROVE UpToDate(s) /\ Emptied(s) /\ Reported(s)
  BY DEF UpToDate, Emptied, Serving, Reported
<1>. QED
  BY <1>1, <1>2 DEF TInv

LEMMA TInvStep ==
  ASSUME Faults = {}, ClientEvents = {}, IInv, IdsLast, IdsLast', OInv, RInv, SInv, TInv,
         [RNext]_rvars
  PROVE  TInv'
<1>0. Orderly
  BY DEF OInv
<1>1. DOMAIN sent' = Sessions
  <2>1. UNCHANGED sent \/ \E s, i : sent' = [sent EXCEPT ![s] = i]
    BY DEF RNext, rvars, Client, Dispatch, Tick, SyncToServer, Collide, ChangeScene, Kill, TickDead
  <2>. QED
    BY <2>1 DEF TInv
<1>2. Truthful'
  BY <1>0, TruthfulStep DEF TInv
<1>3. ASSUME NEW s \in Sessions PROVE UpToDate(s)' /\ Emptied(s)' /\ Reported(s)'
  BY <1>0, ToldStep, EmptiedStep, ReportedStep DEF TInv
<1>. QED
  BY <1>1, <1>2, <1>3 DEF TInv

\* MyPlayer.cpp:350-357 to ClientPacketHandler.cpp:176-184: while connections
\* end in order and nobody leaves the game scene, what a client last reported of
\* its player is what every other client shows of it, once nothing is on its way.
THEOREM LastReportShown ==
  ASSUME IsFiniteSet(Sessions), Cardinality(Sessions) <= MaxPlayerId,
         Faults = {}, ClientEvents = {}
  PROVE  RSpec => []ReportsReachAll
<1>1. RInit => TInv
  BY TInvInit
<1>2. IInv /\ IdsLast /\ IdsLast' /\ OInv /\ RInv /\ SInv /\ TInv /\ [RNext]_rvars => TInv'
  BY TInvStep
<1>3. IInv /\ IdsLast /\ RInv /\ TInv => ReportsReachAll
  <2>. SUFFICES ASSUME IInv, IdsLast, RInv, TInv, loop = "Dispatch",
                       \A s \in Sessions : toClient[s] = <<>> /\ toServer[s] = <<>> /\ arrived[s] = <<>>,
                       NEW s \in Sessions, NEW t \in Sessions, s # t, InRoom(s), InRoom(t)
                PROVE  client[t].copies[player[s]] = <<sent[s]>>
    BY DEF ReportsReachAll
  <2>1. /\ conn[s] = "connected" /\ player[s] \in DOMAIN players /\ player[s] # NoPlayer
        /\ conn[t] = "connected" /\ player[t] # NoPlayer /\ player[s] # player[t]
    BY GameRoomAssumption DEF InRoom, IInv, IdsGiven, TypeOK
  <2>2. info[player[s]] = sent[s]
    BY <2>1 DEF TInv, Reported
  <2>3. Latest(t, player[s], info[player[s]])
    BY <2>1 DEF TInv, UpToDate, InGame, Announcing, Changing
  <2>4. News(t) = {}
    BY DEF News
  <2>5. player[s] \in DOMAIN client[t].copies /\ client[t].copies[player[s]][1] = sent[s]
    BY <2>2, <2>3, <2>4 DEF Latest
  <2>6. client[t].copies[player[s]] = <<client[t].copies[player[s]][1]>>
    BY <2>5 DEF RInv, Copied, Single
  <2>. QED
    BY <2>5, <2>6
<1>. QED
  BY <1>1, <1>2, <1>3, SInvAlways, PTL DEF RSpec

\* GameRoom.cpp:86-96, 135-157, 167-176: with the clients' programs, too,
\* nothing but the end of its own session takes a connected player out of the
\* room.
THEOREM EveryoneStaysInGame ==
  ASSUME IsFiniteSet(Sessions), Cardinality(Sessions) <= MaxPlayerId
  PROVE  RSpec => []LivePlayersStay
<1>1. IInv /\ IdsLast => LivePlayersStay
  <2>. SUFFICES ASSUME IInv, IdsLast, loop = "Dispatch", NEW s \in Sessions, conn[s] = "connected"
                PROVE  player[s] \in DOMAIN players /\ players[player[s]] = s
    BY DEF LivePlayersStay
  <2>. QED
    BY InTheRoom DEF Entering
<1>. QED
  BY <1>1, RInvAlways, PTL

-----------------------------------------------------------------------------
(* Once the packets on its way are handled, a client shows the room.       *)

\* Induction with a set for the predicate: what holds of 0, and up to N of the
\* number after each it holds of, holds of all of 0 .. N.
LEMMA FromZero ==
  ASSUME NEW N \in Nat, NEW S, 0 \in S,
         \A n \in 0 .. N : n \in S /\ n + 1 <= N => n + 1 \in S
  PROVE  0 .. N \subseteq S
<1>. DEFINE T == (0 .. N) \ S
            R == OpToRel(<, Nat)
<1>1. IsWellFoundedOn(R, Nat)
  BY NatLessThanWellFounded
<1>2. \A x, y \in Nat : <<x, y>> \in R <=> x < y
  BY DEF OpToRel
<1>3. T \subseteq Nat
  OBVIOUS
<1>4. ASSUME T # {} PROVE FALSE
  <2>. HIDE DEF R
  <2>1. PICK x \in T : \A y \in T : ~ (<<y, x>> \in R)
    <3>. HIDE DEF T
    <3>. QED
      BY <1>1, <1>3, <1>4, WFMin
  <2>2. x \in 0 .. N /\ x # 0 /\ x \notin S
    BY <2>1
  <2>3. PICK y \in 0 .. N : x = y + 1 /\ y < x
    <3>1. x - 1 \in 0 .. N /\ x = (x - 1) + 1 /\ x - 1 < x
      BY <2>2
    <3>. QED
      BY <3>1
  <2>4. y \notin T
    <3>1. x \in Nat /\ y \in Nat
      BY <2>2
    <3>2. <<y, x>> \in R
      BY <1>2, <2>3, <3>1
    <3>. HIDE DEF T
    <3>. QED
      BY <2>1, <3>2
  <2>. QED
    BY <2>2, <2>3, <2>4
<1>. QED
  BY <1>4

\* A function that folds every set of the first n packets into the client.
Folds(s, f, n) ==
  f = [S \in SUBSET (1 .. n) |->
         IF S = {} THEN client[s]
         ELSE HandlePacket(f[S \ {Seqs!Max(S)}], toClient[s][Seqs!Max(S)])]

LEMMA FoldIs ==
  ASSUME NEW s \in Sessions, NEW n \in Nat, DOMAIN toClient[s] = 1 .. n
  PROVE  Seqs!FoldLeft(HandlePacket, client[s], toClient[s]) = (CHOOSE f : Folds(s, f, n))[1 .. n]
<1>1. Seqs!FoldLeft(HandlePacket, client[s], toClient[s]) =
        LET iter[S \in SUBSET (DOMAIN toClient[s])] ==
              IF S = {} THEN client[s]
              ELSE LET x == Seqs!Max(S) IN HandlePacket(iter[S \ {x}], toClient[s][x])
        IN iter[DOMAIN toClient[s]]
  BY Zenon DEF Seqs!FoldLeft, Seqs!MapThenFoldSet
<1>. QED
  BY <1>1, Zenon DEF Folds

\* The last of the first n packets.
LEMMA LastPlace ==
  ASSUME NEW n \in Nat, NEW S \in SUBSET (1 .. n), n \in S
  PROVE  Seqs!Max(S) = n
<1>1. \A y \in S : n >= y /\ (y >= n => y = n)
  OBVIOUS
<1>2. Seqs!Max(S) \in S /\ \A y \in S : Seqs!Max(S) >= y
  BY <1>1 DEF Seqs!Max
<1>. QED
  BY <1>1, <1>2

\* There is such a function, for as many packets as there are.
LEMMA FoldExists ==
  ASSUME NEW s \in Sessions, NEW N \in Nat
  PROVE  \E f : Folds(s, f, N)
<1>. DEFINE Some == {n \in Nat : \E f : Folds(s, f, n)}
<1>1. 0 \in Some
  <2>. DEFINE f == [S \in SUBSET (1 .. 0) |-> client[s]]
  <2>1. \A S \in SUBSET (1 .. 0) : S = {}
    OBVIOUS
  <2>2. Folds(s, f, 0)
    BY <2>1 DEF Folds
  <2>. QED
    BY <2>2
<1>2. ASSUME NEW n \in Nat, \E f : Folds(s, f, n) PROVE n + 1 \in Some
  <2>1. PICK f : Folds(s, f, n)
    BY <1>2
  <2>2. PICK m \in Nat : m = n + 1
    OBVIOUS
  <2>3. /\ \A S \in SUBSET (1 .. n) : S \in SUBSET (1 .. m)
        /\ \A S \in SUBSET (1 .. m) : m \notin S => S \in SUBSET (1 .. n)
        /\ \A S \in SUBSET (1 .. m) : S \ {m} \in SUBSET (1 .. n)
        /\ \A S \in SUBSET (1 .. n) : m \notin S
    BY <2>2
  <2>. DEFINE g == [S \in SUBSET (1 .. m) |->
                      IF m \in S THEN HandlePacket(f[S \ {m}], toClient[s][m]) ELSE f[S]]
              E(h, S) == IF S = {} THEN client[s]
                         ELSE HandlePacket(h[S \ {Seqs!Max(S)}], toClient[s][Seqs!Max(S)])
  <2>4. \A S \in SUBSET (1 .. n) : f[S] = E(f, S)
    BY <2>1, Zenon DEF Folds
  <2>5. \A S \in SUBSET (1 .. n) : g[S] = f[S]
    BY <2>3
  <2>6. \A S \in SUBSET (1 .. m) : m \in S => g[S] = HandlePacket(f[S \ {m}], toClient[s][m])
    OBVIOUS
  <2>7. \A S \in SUBSET (1 .. m) : g[S] = E(g, S)
    <3>. SUFFICES ASSUME NEW S \in SUBSET (1 .. m) PROVE g[S] = E(g, S)
      OBVIOUS
    <3>1. CASE m \in S
      <4>1. Seqs!Max(S) = m
        BY <3>1, LastPlace
      <4>2. g[S \ {m}] = f[S \ {m}]
        BY <2>3, <2>5
      <4>. HIDE DEF g
      <4>. QED
        BY <2>6, <3>1, <4>1, <4>2
    <3>2. CASE m \notin S
      <4>1. S \in SUBSET (1 .. n) /\ S \ {Seqs!Max(S)} \in SUBSET (1 .. n)
        BY <2>3, <3>2
      <4>. HIDE DEF g
      <4>2. g[S] = E(f, S) /\ g[S \ {Seqs!Max(S)}] = f[S \ {Seqs!Max(S)}]
        BY <2>4, <2>5, <4>1
      <4>. QED
        BY <4>2
    <3>. QED
      BY <3>1, <3>2
  <2>8. g = [S \in SUBSET (1 .. m) |-> g[S]]
    OBVIOUS
  <2>. HIDE DEF g
  <2>9. [S \in SUBSET (1 .. m) |-> g[S]] = [S \in SUBSET (1 .. m) |-> E(g, S)]
    BY <2>7
  <2>10. Folds(s, g, m)
    BY <2>8, <2>9 DEF Folds
  <2>. QED
    BY <2>2, <2>10
<1>3. 0 .. N \subseteq Some
  <2>1. \A n \in 0 .. N : n \in Some /\ n + 1 <= N => n + 1 \in Some
    BY <1>2
  <2>. HIDE DEF Some
  <2>. QED
    BY <1>1, <2>1, FromZero
<1>. QED
  BY <1>3

\* The client after each packet, up to what the fold makes of all.
LEMMA PacketByPacket ==
  ASSUME NEW s \in Sessions, NEW N \in Nat, DOMAIN toClient[s] = 1 .. N
  PROVE  \E c : /\ c[0] = client[s]
                /\ \A n \in 0 .. N : \A m \in 1 .. N :
                     m = n + 1 => c[m] = HandlePacket(c[n], toClient[s][m])
                /\ Seqs!FoldLeft(HandlePacket, client[s], toClient[s]) = c[N]
<1>. DEFINE f == CHOOSE g : Folds(s, g, N)
            c == [n \in 0 .. N |-> f[1 .. n]]
<1>1. Folds(s, f, N)
  BY FoldExists
<1>. HIDE DEF f
<1>2. f[{}] = client[s] /\ 1 .. 0 = {}
  BY <1>1 DEF Folds
<1>3. ASSUME NEW n \in 0 .. N, NEW m \in 1 .. N, m = n + 1
      PROVE  f[1 .. m] = HandlePacket(f[1 .. n], toClient[s][m])
  <2>1. 1 .. m \in SUBSET (1 .. N) /\ 1 .. m # {} /\ m \in 1 .. m /\ m \in Nat
    BY <1>3
  <2>2. (1 .. m) \ {m} = 1 .. n
    BY <1>3
  <2>3. Seqs!Max(1 .. m) = m
    BY <2>1, LastPlace
  <2>4. f[1 .. m] = HandlePacket(f[(1 .. m) \ {Seqs!Max(1 .. m)}], toClient[s][Seqs!Max(1 .. m)])
    BY <1>1, <2>1, Zenon DEF Folds
  <2>. QED
    BY <2>2, <2>3, <2>4
<1>4. Seqs!FoldLeft(HandlePacket, client[s], toClient[s]) = f[1 .. N]
  BY FoldIs, Zenon DEF f
<1>5. /\ c[0] = client[s]
      /\ \A n \in 0 .. N : \A m \in 1 .. N :
           m = n + 1 => c[m] = HandlePacket(c[n], toClient[s][m])
      /\ Seqs!FoldLeft(HandlePacket, client[s], toClient[s]) = c[N]
  <2>1. c[0] = client[s] /\ c[N] = f[1 .. N]
    BY <1>2
  <2>2. \A n \in 0 .. N : c[n] = f[1 .. n]
    OBVIOUS
  <2>. HIDE DEF c
  <2>3. \A m \in 1 .. N : m \in 0 .. N
    OBVIOUS
  <2>. QED
    BY <1>3, <1>4, <2>1, <2>2, <2>3
<1>. QED
  BY <1>5

-----------------------------------------------------------------------------
\* A function, whatever it maps.
IsMap(f) == f = [x \in DOMAIN f |-> f[x]]

\* What the client holds, and what the first k packets on their way say.
ToldBy(s, k, id) ==
  id \in DOMAIN client[s].copies \/ \E j \in News(s) : j <= k /\ AddedAt(s, j, id)

RemovedBy(s, k, id) == \E j \in News(s) : j <= k /\ RemovedAt(s, j, id)

LatestBy(s, k, id, i) ==
  \/ \E j \in News(s) :
       /\ j <= k /\ NewsAt(s, j, id) /\ InfoAt(s, j, id) = i
       /\ \A l \in News(s) : j < l /\ l <= k => ~NewsAt(s, l, id)
  \/ /\ \A j \in News(s) : j <= k => ~NewsAt(s, j, id)
     /\ id \in DOMAIN client[s].copies /\ client[s].copies[id][1] = i

\* The client c is what the first k packets make of the client.
After(s, k, c) ==
  /\ DOMAIN c = DOMAIN NewScene /\ c.scene = "game" /\ Single(c.copies) /\ IsMap(c.copies)
  /\ c.my \in {NoPlayer, player[s]}
  /\ client[s].my # NoPlayer \/ (\E j \in News(s) : j <= k /\ MineAt(s, j)) => c.my = player[s]
  /\ \A id \in DOMAIN c.copies :
       /\ id \in Nat /\ id # player[s] /\ ToldBy(s, k, id) /\ ~RemovedBy(s, k, id)
       /\ LatestBy(s, k, id, c.copies[id][1])
  /\ \A id \in Nat : id # player[s] /\ ToldBy(s, k, id) /\ ~RemovedBy(s, k, id) =>
       id \in DOMAIN c.copies

\* What the induction over the packets needs of the state.
Readable(s) ==
  /\ IInv /\ IdsLast /\ Posted /\ Fields /\ player[s] # NoPlayer
  /\ Mine(s) /\ AddedOnce(s) /\ Copied(s) /\ IsMap(client[s].copies)
  /\ Sound(s) /\ Introduced(s) /\ Known(s) /\ Parted(s)

\* No handler makes of the copies anything but a function.
LEMMA HandlersMap ==
  ASSUME NEW c, DOMAIN c = DOMAIN NewScene, IsMap(c.copies), NEW p \in Packets
  PROVE  IsMap(HandlePacket(c, p).copies)
<1>. DEFINE d == HandlePacket(c, p)
<1>1. \A f, k, v : IsMap([f EXCEPT ![k] = v])
  BY DEF IsMap
<1>2. \A S : \A f : IsMap([x \in S |-> f[x]])
  BY DEF IsMap
<1>3. CASE p.type = "S_AddObject"
  <2>. DEFINE k == [id \in DOMAIN c.copies \cup New(c, p) |->
                      (IF id \in DOMAIN c.copies THEN c.copies[id] ELSE <<>>)
                      \o (IF id \in New(c, p) THEN <<p.objects[id]>> ELSE <<>>)]
  <2>1. d = Handle_S_AddObject(c, p)
    BY <1>3 DEF HandlePacket
  <2>2. \/ d = c \/ d = [c EXCEPT !.undefined = TRUE] \/ d = [c EXCEPT !.copies = k]
    BY <2>1 DEF Handle_S_AddObject, New, Crashed
  <2>3. IsMap(k)
    BY DEF IsMap
  <2>. HIDE DEF k, d
  <2>4. d.copies = c.copies \/ d.copies = k
    BY <2>2, NewFields
  <2>. QED
    BY <2>3, <2>4 DEF d
<1>4. CASE p.type = "S_RemoveObject"
  <2>1. d = Handle_S_RemoveObject(c, p)
    BY <1>4 DEF HandlePacket
  <2>2. \/ d = [c EXCEPT !.undefined = TRUE] \/ d = [c EXCEPT !.copies = Erase(c.copies, p.id)]
        \/ d = [c EXCEPT !.copies = [c.copies EXCEPT ![p.id] = Tail(c.copies[p.id])]]
    BY <2>1 DEF Handle_S_RemoveObject, Crashed
  <2>3. IsMap(Erase(c.copies, p.id)) /\ IsMap([c.copies EXCEPT ![p.id] = Tail(c.copies[p.id])])
    BY DEF IsMap, Erase
  <2>. HIDE DEF d
  <2>4. \/ d.copies = c.copies \/ d.copies = Erase(c.copies, p.id)
        \/ d.copies = [c.copies EXCEPT ![p.id] = Tail(c.copies[p.id])]
    BY <2>2, NewFields
  <2>. QED
    BY <2>3, <2>4 DEF d
<1>5. CASE p.type = "S_Move"
  <2>. DEFINE k == [c.copies EXCEPT ![p.id] = [@ EXCEPT ![1] = p.info]]
  <2>1. d = Handle_S_Move(c, p)
    BY <1>5 DEF HandlePacket
  <2>2. \/ d = c \/ d = [c EXCEPT !.undefined = TRUE] \/ d = [c EXCEPT !.copies = k]
    BY <2>1 DEF Handle_S_Move, Crashed
  <2>3. IsMap(k)
    BY DEF IsMap
  <2>. HIDE DEF k, d
  <2>4. d.copies = c.copies \/ d.copies = k
    BY <2>2, NewFields
  <2>. QED
    BY <2>3, <2>4 DEF d
<1>6. CASE p.type \in {"S_EnterGame", "S_MyPlayer"}
  <2>1. d.copies = c.copies
    BY <1>6, OtherHandled
  <2>. QED
    BY <2>1 DEF d
<1>. QED
  BY <1>3, <1>4, <1>5, <1>6, PacketHolds

\* Before the first packet.
LEMMA AfterNone ==
  ASSUME NEW s \in Sessions, Readable(s), NEW N \in Nat, News(s) = 1 .. N
  PROVE  After(s, 0, client[s])
<1>. USE DEF Readable
<1>1. \A j \in News(s) : ~(j <= 0)
  OBVIOUS
<1>2. /\ DOMAIN client[s] = DOMAIN NewScene /\ client[s].scene = "game"
      /\ Single(client[s].copies) /\ IsMap(client[s].copies)
      /\ client[s].my \in {NoPlayer, player[s]}
  BY DEF Fields, Sound, Copied, Mine
<1>3. player[s] \in 1 .. MaxPlayerId
  <2>1. player[s] \in 1 .. nextId - 1 /\ nextId \in Nat
    BY DEF IInv, IdsGiven, TypeOK
  <2>. QED
    BY <2>1, GameRoomAssumption DEF IdsLast
<1>4. player[s] \notin DOMAIN client[s].copies
  BY <1>2, <1>3 DEF Copied
<1>5. \A id \in DOMAIN client[s].copies :
        /\ id \in Nat /\ id # player[s] /\ ToldBy(s, 0, id) /\ ~RemovedBy(s, 0, id)
        /\ LatestBy(s, 0, id, client[s].copies[id][1])
  BY <1>1, <1>4 DEF AddedOnce, ToldBy, RemovedBy, LatestBy
<1>6. \A id \in Nat : ToldBy(s, 0, id) => id \in DOMAIN client[s].copies
  BY <1>1 DEF ToldBy
<1>. QED
  BY <1>1, <1>2, <1>5, <1>6 DEF After

\* What one more packet says.
LEMMA OneMore ==
  ASSUME NEW s \in Sessions, NEW N \in Nat, News(s) = 1 .. N, NEW n \in 0 .. N, NEW m \in 1 .. N,
         m = n + 1, NEW id
  PROVE  /\ ToldBy(s, m, id) <=> ToldBy(s, n, id) \/ AddedAt(s, m, id)
         /\ RemovedBy(s, m, id) <=> RemovedBy(s, n, id) \/ RemovedAt(s, m, id)
         /\ NewsAt(s, m, id) => LatestBy(s, m, id, InfoAt(s, m, id))
         /\ ~NewsAt(s, m, id) => \A i : LatestBy(s, n, id, i) => LatestBy(s, m, id, i)
<1>1. /\ m \in News(s) /\ m <= m /\ \A l \in News(s) : ~(m < l /\ l <= m)
      /\ \A j \in News(s) : j <= m <=> j <= n \/ j = m
  OBVIOUS
<1>2. ToldBy(s, m, id) <=> ToldBy(s, n, id) \/ AddedAt(s, m, id)
  BY <1>1 DEF ToldBy
<1>3. RemovedBy(s, m, id) <=> RemovedBy(s, n, id) \/ RemovedAt(s, m, id)
  BY <1>1 DEF RemovedBy
<1>4. NewsAt(s, m, id) => LatestBy(s, m, id, InfoAt(s, m, id))
  BY <1>1 DEF LatestBy
<1>5. ASSUME ~NewsAt(s, m, id), NEW i, LatestBy(s, n, id, i) PROVE LatestBy(s, m, id, i)
  BY <1>1, <1>5 DEF LatestBy
<1>. QED
  BY <1>2, <1>3, <1>4, <1>5

\* What a packet adds is new when it comes; what it names is there.
LEMMA NewWhenAdded ==
  ASSUME NEW s \in Sessions, Readable(s), NEW N \in Nat, News(s) = 1 .. N, NEW n \in 0 .. N,
         NEW m \in 1 .. N, m = n + 1, NEW id \in Nat
  PROVE  /\ AddedAt(s, m, id) => ~ToldBy(s, n, id) /\ ~RemovedBy(s, n, id)
         /\ NamedAt(s, m, id) /\ id # player[s] => ToldBy(s, n, id) /\ ~RemovedBy(s, n, id)
<1>. USE DEF Readable
<1>1. /\ m \in News(s) /\ \A j \in News(s) : j <= n <=> j < m
      /\ \A j \in News(s) : j <= n => j # m
      /\ \A i, j \in News(s) : i < j /\ j <= n => i <= n
  OBVIOUS
<1>2. ASSUME AddedAt(s, m, id) PROVE ~ToldBy(s, n, id)
  BY <1>1, <1>2 DEF AddedOnce, ToldBy
<1>3. ASSUME AddedAt(s, m, id), NEW j \in News(s), j <= n, RemovedAt(s, j, id) PROVE FALSE
  <2>1. id # player[s] /\ NamedAt(s, j, id)
    BY <1>3 DEF Parted, RemovedAt, NamedAt
  <2>2. id \in DOMAIN client[s].copies \/ \E i \in News(s) : i < j /\ AddedAt(s, i, id)
    BY <2>1 DEF Known
  <2>3. ToldBy(s, n, id)
    BY <1>1, <1>3, <2>2 DEF ToldBy
  <2>. QED
    BY <1>2, <1>3, <2>3
<1>4. ASSUME NamedAt(s, m, id), id # player[s] PROVE ToldBy(s, n, id) /\ ~RemovedBy(s, n, id)
  <2>1. id \in DOMAIN client[s].copies \/ \E j \in News(s) : j < m /\ AddedAt(s, j, id)
    BY <1>1, <1>4 DEF Known
  <2>2. \A j \in News(s) : j < m => ~RemovedAt(s, j, id)
    BY <1>1, <1>4 DEF Parted
  <2>. QED
    BY <1>1, <2>1, <2>2 DEF ToldBy, RemovedBy
<1>. QED
  BY <1>2, <1>3, <1>4 DEF RemovedBy

\* After one more packet.
LEMMA AfterNext ==
  ASSUME NEW s \in Sessions, Readable(s), NEW N \in Nat, News(s) = 1 .. N, NEW n \in 0 .. N,
         NEW m \in 1 .. N, m = n + 1, NEW c, After(s, n, c)
  PROVE  After(s, m, HandlePacket(c, toClient[s][m]))
<1>. PICK d : d = HandlePacket(c, toClient[s][m])
  OBVIOUS
<1>. SUFFICES After(s, m, d)
  OBVIOUS
<1>0. PICK p \in Packets : p = toClient[s][m]
  <2>1. toClient[s] \in Seq(Packets) /\ m \in 1 .. Len(toClient[s])
    BY DEF Readable, Posted, News
  <2>. QED
    BY <2>1, Element
<1>1. /\ DOMAIN c = DOMAIN NewScene /\ c.scene = "game" /\ Single(c.copies) /\ IsMap(c.copies)
      /\ c.my \in {NoPlayer, player[s]} /\ player[s] # NoPlayer
  BY DEF After, Readable
<1>2. /\ \A id : ToldBy(s, m, id) <=> ToldBy(s, n, id) \/ AddedAt(s, m, id)
      /\ \A id : RemovedBy(s, m, id) <=> RemovedBy(s, n, id) \/ RemovedAt(s, m, id)
      /\ \A id : NewsAt(s, m, id) => LatestBy(s, m, id, InfoAt(s, m, id))
      /\ \A id, i : ~NewsAt(s, m, id) /\ LatestBy(s, n, id, i) => LatestBy(s, m, id, i)
  BY OneMore
<1>3. \A id \in Nat :
        /\ AddedAt(s, m, id) => ~ToldBy(s, n, id) /\ ~RemovedBy(s, n, id)
        /\ NamedAt(s, m, id) /\ id # player[s] => ToldBy(s, n, id) /\ ~RemovedBy(s, n, id)
  BY NewWhenAdded
<1>4. /\ \A id \in DOMAIN c.copies :
           /\ id \in Nat /\ id # player[s] /\ ToldBy(s, n, id) /\ ~RemovedBy(s, n, id)
           /\ LatestBy(s, n, id, c.copies[id][1])
      /\ \A id \in Nat : id # player[s] /\ ToldBy(s, n, id) /\ ~RemovedBy(s, n, id) =>
           id \in DOMAIN c.copies
  BY DEF After
<1>5. p.type \notin {"S_EnterGame", "S_MyPlayer"} => c.my = player[s]
  <2>1. \A j \in News(s) : j < m <=> j <= n
    OBVIOUS
  <2>2. p.type \notin {"S_EnterGame", "S_MyPlayer"} =>
          client[s].my # NoPlayer \/ \E j \in News(s) : j < m /\ MineAt(s, j)
    BY <1>0 DEF Readable, Introduced
  <2>. QED
    BY <2>1, <2>2 DEF After
<1>6. IsMap(d.copies)
  BY <1>0, <1>1, HandlersMap
<1>7. d.my = (IF p.type = "S_MyPlayer" THEN player[s] ELSE c.my) =>
        /\ d.my \in {NoPlayer, player[s]}
        /\ client[s].my # NoPlayer \/ (\E j \in News(s) : j <= m /\ MineAt(s, j)) => d.my = player[s]
  <2>1. \A j \in News(s) : j <= m <=> j <= n \/ j = m
    OBVIOUS
  <2>2. MineAt(s, m) => p.type = "S_MyPlayer"
    BY <1>0 DEF MineAt
  <2>. QED
    BY <1>1, <2>1, <2>2 DEF After
<1>8. \A x : <<x>>[1] = x
  OBVIOUS
<1>9. CASE p.type = "S_AddObject"
  <2>1. Added(c, p, d)
    BY <1>0, <1>1, <1>9, AddHandled
  <2>2. /\ DOMAIN d = DOMAIN NewScene /\ d.my = c.my /\ d.scene = "game"
        /\ DOMAIN d.copies = DOMAIN c.copies \cup New(c, p)
        /\ \A id \in DOMAIN c.copies \ New(c, p) : d.copies[id] = c.copies[id]
        /\ \A id \in New(c, p) \ DOMAIN c.copies : d.copies[id] = <<p.objects[id]>>
    BY <1>1, <1>5, <1>9, <2>1 DEF Added
  <2>3. \A id \in Nat : AddedAt(s, m, id) <=> id \in DOMAIN p.objects
    BY <1>0, <1>9 DEF AddedAt
  <2>4. \A id \in New(c, p) : id \in Nat /\ id # player[s] /\ AddedAt(s, m, id) /\ id \notin DOMAIN c.copies
    <3>1. \A id \in New(c, p) : id \in Nat /\ id # player[s] /\ id \in DOMAIN p.objects
      BY <1>5, <1>9, PacketHolds DEF New
    <3>. QED
      BY <1>3, <1>4, <2>3, <3>1
  <2>5. \A id \in Nat : AddedAt(s, m, id) /\ id # player[s] => id \in New(c, p)
    <3>. SUFFICES ASSUME NEW id \in Nat, AddedAt(s, m, id), id # player[s]
                  PROVE  id \in New(c, p)
      OBVIOUS
    <3>1. id \in 1 .. nextId - 1 \cup MonsterIds
      BY DEF Readable, AddedOnce, Told
    <3>2. 1 .. nextId - 1 \subseteq 1 .. MaxPlayerId
      BY GameRoomAssumption DEF Readable, IdsLast, IInv, TypeOK
    <3>. QED
      BY <1>5, <1>9, <2>3, <3>1, <3>2 DEF New
  <2>6. \A id : ~RemovedAt(s, m, id)
    BY <1>0, <1>9 DEF RemovedAt
  <2>7. \A id : NewsAt(s, m, id) => AddedAt(s, m, id) /\ InfoAt(s, m, id) = p.objects[id]
    BY <1>0, <1>9 DEF NewsAt, AddedAt, InfoAt
  <2>8. \A id : AddedAt(s, m, id) => NewsAt(s, m, id)
    BY DEF NewsAt
  <2>9. \A id \in DOMAIN d.copies :
          /\ id \in Nat /\ id # player[s] /\ ToldBy(s, m, id) /\ ~RemovedBy(s, m, id)
          /\ LatestBy(s, m, id, d.copies[id][1]) /\ d.copies[id] = <<d.copies[id][1]>>
    <3>. SUFFICES ASSUME NEW id \in DOMAIN d.copies
                  PROVE  /\ id \in Nat /\ id # player[s] /\ ToldBy(s, m, id) /\ ~RemovedBy(s, m, id)
                         /\ LatestBy(s, m, id, d.copies[id][1]) /\ d.copies[id] = <<d.copies[id][1]>>
      OBVIOUS
    <3>1. CASE id \in New(c, p)
      <4>1. d.copies[id] = <<p.objects[id]>> /\ d.copies[id][1] = p.objects[id]
        BY <1>8, <2>2, <2>4, <3>1
      <4>2. LatestBy(s, m, id, d.copies[id][1])
        BY <1>2, <2>4, <2>7, <2>8, <3>1, <4>1
      <4>3. id \in Nat /\ id # player[s] /\ ToldBy(s, m, id) /\ ~RemovedBy(s, m, id)
        BY <1>2, <1>3, <2>4, <2>6, <3>1
      <4>. QED
        BY <4>1, <4>2, <4>3
    <3>2. CASE id \notin New(c, p)
      <4>1. id \in DOMAIN c.copies /\ d.copies[id] = c.copies[id]
        BY <2>2, <3>2
      <4>2. ~NewsAt(s, m, id)
        BY <1>4, <2>5, <2>7, <3>2, <4>1
      <4>. QED
        BY <1>1, <1>2, <1>4, <2>6, <4>1, <4>2 DEF Single
    <3>. QED
      BY <3>1, <3>2
  <2>10. \A id \in Nat : id # player[s] /\ ToldBy(s, m, id) /\ ~RemovedBy(s, m, id) =>
           id \in DOMAIN d.copies
    BY <1>2, <1>4, <2>2, <2>5
  <2>11. Single(d.copies)
    BY <2>9 DEF Single
  <2>. QED
    BY <1>6, <1>7, <1>9, <2>2, <2>9, <2>10, <2>11 DEF After
<1>10. CASE p.type = "S_RemoveObject"
  <2>0. p.id \in Nat /\ RemovedAt(s, m, p.id) /\ NamedAt(s, m, p.id)
    BY <1>0, <1>10, PacketHolds DEF RemovedAt, NamedAt
  <2>1. /\ DOMAIN d = DOMAIN NewScene /\ d.my = c.my /\ d.scene = c.scene
        /\ IF p.id \notin DOMAIN c.copies THEN d.copies = c.copies /\ d.undefined = TRUE
           ELSE d.copies = Erase(c.copies, p.id) /\ d.undefined = c.undefined
    <3>1. Erased(c, p, d)
      BY <1>0, <1>1, <1>10, RemoveHandled
    <3>. QED
      BY <3>1 DEF Erased
  <2>2. p.id \in DOMAIN c.copies
    <3>1. p.id # player[s]
      BY <2>0 DEF Readable, Parted
    <3>. QED
      BY <1>3, <1>4, <2>0, <3>1
  <2>3. /\ DOMAIN d.copies = DOMAIN c.copies \ {p.id}
        /\ \A id \in DOMAIN d.copies : d.copies[id] = c.copies[id]
    BY <2>1, <2>2 DEF Erase
  <2>4. /\ \A id : RemovedAt(s, m, id) <=> id = p.id
        /\ \A id : ~AddedAt(s, m, id) /\ ~NewsAt(s, m, id)
    BY <1>0, <1>10 DEF RemovedAt, AddedAt, NewsAt
  <2>5. \A id \in DOMAIN d.copies :
          /\ id \in Nat /\ id # player[s] /\ ToldBy(s, m, id) /\ ~RemovedBy(s, m, id)
          /\ LatestBy(s, m, id, d.copies[id][1])
    BY <1>2, <1>4, <2>3, <2>4
  <2>6. \A id \in Nat : id # player[s] /\ ToldBy(s, m, id) /\ ~RemovedBy(s, m, id) =>
          id \in DOMAIN d.copies
    BY <1>2, <1>4, <2>3, <2>4
  <2>7. Single(d.copies)
    BY <1>1, <2>3 DEF Single
  <2>. QED
    BY <1>1, <1>6, <1>7, <1>10, <2>1, <2>5, <2>6, <2>7 DEF After
<1>11. CASE p.type = "S_Move"
  <2>0. p.id \in Nat /\ NamedAt(s, m, p.id)
    BY <1>0, <1>11, PacketHolds DEF NamedAt
  <2>1. /\ DOMAIN d = DOMAIN NewScene /\ d.my = c.my /\ d.scene = c.scene
        /\ DOMAIN d.copies = DOMAIN c.copies
        /\ IF c.scene # "game" \/ c.my = p.id THEN d = c
           ELSE IF c.my = NoPlayer \/ p.id \notin DOMAIN c.copies
             THEN d.copies = c.copies /\ d.undefined = TRUE
           ELSE /\ d.undefined = c.undefined
                /\ d.copies[p.id] = <<p.info>>
                /\ \A id \in DOMAIN c.copies \ {p.id} : d.copies[id] = c.copies[id]
    <3>1. Moved(c, p, HandlePacket(c, p))
      BY <1>1, <1>11, MoveHandled
    <3>2. Moved(c, p, d)
      BY <1>0, <3>1
    <3>. QED
      BY <3>2 DEF Moved
  <2>2. p.id # player[s] => p.id \in DOMAIN c.copies
    BY <1>3, <1>4, <2>0
  <2>3. c.my = player[s]
    BY <1>5, <1>11
  <2>4. /\ \A id : ~RemovedAt(s, m, id) /\ ~AddedAt(s, m, id)
        /\ \A id : NewsAt(s, m, id) <=> id = p.id
        /\ InfoAt(s, m, p.id) = p.info
    BY <1>0, <1>11 DEF RemovedAt, AddedAt, NewsAt, InfoAt
  <2>5. \A id \in DOMAIN c.copies :
          d.copies[id] = IF id = p.id THEN <<p.info>> ELSE c.copies[id]
    <3>1. CASE p.id = player[s]
      BY <1>4, <2>1, <2>3, <3>1
    <3>2. CASE p.id # player[s]
      BY <1>1, <2>1, <2>2, <2>3, <3>2
    <3>. QED
      BY <3>1, <3>2
  <2>6. ASSUME NEW id \in DOMAIN c.copies
        PROVE  LatestBy(s, m, id, d.copies[id][1]) /\ d.copies[id] = <<d.copies[id][1]>>
    <3>1. CASE id = p.id
      BY <1>2, <1>8, <2>4, <2>5, <3>1
    <3>2. CASE id # p.id
      BY <1>1, <1>2, <1>4, <2>4, <2>5, <3>2 DEF Single
    <3>. QED
      BY <3>1, <3>2
  <2>7. /\ \A id \in DOMAIN d.copies :
             /\ id \in Nat /\ id # player[s] /\ ToldBy(s, m, id) /\ ~RemovedBy(s, m, id)
             /\ LatestBy(s, m, id, d.copies[id][1])
        /\ Single(d.copies)
    BY <1>2, <1>4, <2>1, <2>4, <2>6 DEF Single
  <2>8. \A id \in Nat : id # player[s] /\ ToldBy(s, m, id) /\ ~RemovedBy(s, m, id) =>
          id \in DOMAIN d.copies
    BY <1>2, <1>4, <2>1, <2>4
  <2>. QED
    BY <1>1, <1>6, <1>7, <1>11, <2>1, <2>7, <2>8 DEF After
<1>12. CASE p.type \in {"S_EnterGame", "S_MyPlayer"}
  <2>1. /\ DOMAIN d = DOMAIN NewScene /\ d.scene = c.scene /\ d.copies = c.copies
        /\ d.my = IF p.type = "S_MyPlayer" /\ c.scene = "game" THEN p.id ELSE c.my
    BY <1>0, <1>1, <1>12, OtherHandled
  <2>2. p.type = "S_MyPlayer" => p.id = player[s]
    BY <1>0 DEF Readable, Mine
  <2>3. d.my = IF p.type = "S_MyPlayer" THEN player[s] ELSE c.my
    BY <1>1, <2>1, <2>2
  <2>4. \A id : ~RemovedAt(s, m, id) /\ ~AddedAt(s, m, id) /\ ~NewsAt(s, m, id)
    BY <1>0, <1>12 DEF RemovedAt, AddedAt, NewsAt
  <2>5. /\ \A id \in DOMAIN d.copies :
             /\ id \in Nat /\ id # player[s] /\ ToldBy(s, m, id) /\ ~RemovedBy(s, m, id)
             /\ LatestBy(s, m, id, d.copies[id][1])
        /\ \A id \in Nat : id # player[s] /\ ToldBy(s, m, id) /\ ~RemovedBy(s, m, id) =>
             id \in DOMAIN d.copies
    BY <1>2, <1>4, <2>1, <2>4
  <2>. QED
    BY <1>1, <1>6, <1>7, <2>1, <2>3, <2>5 DEF After
<1>13. p.type \in {"S_EnterGame", "S_MyPlayer", "S_Move", "S_AddObject", "S_RemoveObject"}
  BY PacketHolds
<1>. QED
  BY <1>9, <1>10, <1>11, <1>12, <1>13

\* So the fold is what all the packets make of the client.
LEMMA AfterAll ==
  ASSUME NEW s \in Sessions, Readable(s)
  PROVE  \E N \in Nat : /\ News(s) = 1 .. N
                        /\ After(s, N, Seqs!FoldLeft(HandlePacket, client[s], toClient[s]))
<1>1. PICK N \in Nat : News(s) = 1 .. N
  <2>1. toClient[s] \in Seq(Packets)
    BY DEF Readable, Posted
  <2>. QED
    BY <2>1 DEF News
<1>2. PICK c : /\ c[0] = client[s]
               /\ \A n \in 0 .. N : \A m \in 1 .. N :
                    m = n + 1 => c[m] = HandlePacket(c[n], toClient[s][m])
               /\ Seqs!FoldLeft(HandlePacket, client[s], toClient[s]) = c[N]
  BY <1>1, PacketByPacket DEF News
<1>. DEFINE Right == {n \in 0 .. N : After(s, n, c[n])}
<1>3. 0 \in Right
  BY <1>1, <1>2, AfterNone
<1>4. ASSUME NEW n \in 0 .. N, n \in Right, n + 1 <= N PROVE n + 1 \in Right
  <2>1. PICK m \in 1 .. N : m = n + 1
    BY <1>4
  <2>2. c[m] = HandlePacket(c[n], toClient[s][m])
    BY <1>2, <2>1
  <2>3. After(s, m, c[m])
    BY <1>1, <1>4, <2>1, <2>2, AfterNext
  <2>. QED
    BY <2>1, <2>3
<1>5. 0 .. N \subseteq Right
  <2>. HIDE DEF Right
  <2>. QED
    BY <1>3, <1>4, FromZero
<1>6. After(s, N, c[N])
  BY <1>5
<1>. QED
  BY <1>1, <1>2, <1>6

-----------------------------------------------------------------------------
\* The room is about to tell that the object is gone.
Ending(id) == loop = "Broadcast" /\ message.type = "S_RemoveObject" /\ message.id = id

\* Of what a client in the room was told, what is not in the game was removed
\* or is about to be.
Ended(s) ==
  conn[s] = "connected" /\ player[s] # NoPlayer =>
    \A id \in Nat : Told(s, id) /\ id # player[s] =>
      id \in InGame \/ Ending(id) \/ \E k \in News(s) : RemovedAt(s, k, id)

\* A player is announced once it is in the room.
Announced == loop = "Broadcast" /\ message.type = "S_AddObject" => player[current] \in InGame

VInv ==
  /\ \A s \in Sessions : Ended(s) /\ IsMap(client[s].copies)
  /\ Announced

\* Nothing comes to the client, and what is in the game stays or is ending.
LEMMA StillEnded ==
  ASSUME NEW t \in Sessions, Ended(t), toClient'[t] = toClient[t], player'[t] = player[t],
         client'[t].copies = client[t].copies,
         conn'[t] = "connected" /\ player[t] # NoPlayer => conn[t] = "connected",
         \A id : id \in InGame \/ Ending(id) => id \in InGame' \/ Ending(id)'
  PROVE  Ended(t)'
<1>1. /\ News(t)' = News(t)
      /\ \A id : Told(t, id)' <=> Told(t, id)
      /\ \A k, id : RemovedAt(t, k, id)' <=> RemovedAt(t, k, id)
  BY DEF News, Told, AddedAt, RemovedAt
<1>. QED
  BY <1>1 DEF Ended

\* A session that enters is told of what is in the game.
LEMMA EnteredEnded ==
  ASSUME IInv, Orderly, Posted, Keyed, NEW t \in Sessions, t = current, AddedOnce(t),
         EnterRoom, UNCHANGED client
  PROVE  Ended(t)'
<1>. DEFINE known == DOMAIN players \cup monsters
            objects == [o \in known |-> info'[o]]
            own == [type |-> "S_MyPlayer", id |-> nextId, info |-> SpawnInfo]
            all == [type |-> "S_AddObject", objects |-> objects]
<1>0. PICK n \in Nat : n = Len(toClient[t])
  <2>1. toClient[t] \in Seq(Packets)
    BY DEF Posted
  <2>. QED
    BY <2>1
<1>1. /\ UNCHANGED <<players, current, conn>> /\ conn[t] = "connected" /\ player[t] = NoPlayer
      /\ toClient \in [Sessions -> Seq(Packets)]
  BY DEF EnterRoom, Running, Orderly, IInv, IdsGiven, Serving, Posted
<1>2. toClient'[t] = toClient[t] \o <<own, all>>
  BY <1>1 DEF EnterRoom, SendTo
<1>3. DOMAIN objects = InGame'
  BY <1>1 DEF Keyed, InGame
<1>4. own.type = "S_MyPlayer" /\ all.type = "S_AddObject" /\ all.objects = objects
  OBVIOUS
<1>. HIDE DEF own, all, objects, known
<1>5. /\ News(t) = 1 .. n /\ News(t)' = 1 .. n + 2
      /\ \A k \in 1 .. n : toClient'[t][k] = toClient[t][k]
      /\ toClient'[t][n + 1] = own /\ toClient'[t][n + 2] = all
  <2>1. Len(<<own, all>>) = 2 /\ <<own, all>>[1] = own /\ <<own, all>>[2] = all
    OBVIOUS
  <2>2. \A T : \A x, y \in Seq(T) :
          /\ DOMAIN (x \o y) = 1 .. Len(x) + Len(y)
          /\ \A k \in 1 .. Len(x) : (x \o y)[k] = x[k]
          /\ \A k \in 1 .. Len(y) : (x \o y)[Len(x) + k] = y[k]
    OBVIOUS
  <2>3. <<own, all>> \in Seq(Packets \cup {own, all}) /\ toClient[t] \in Seq(Packets \cup {own, all})
    BY <1>1
  <2>4. /\ DOMAIN toClient'[t] = 1 .. n + 2
        /\ \A k \in 1 .. n : toClient'[t][k] = toClient[t][k]
        /\ \A k \in 1 .. 2 : toClient'[t][n + k] = <<own, all>>[k]
    BY <1>0, <1>2, <2>1, <2>2, <2>3
  <2>5. toClient'[t][n + 1] = own /\ toClient'[t][n + 2] = all
    BY <2>1, <2>4
  <2>6. DOMAIN toClient[t] = 1 .. n
    BY <1>0, <1>1
  <2>. QED
    BY <2>4, <2>5, <2>6 DEF News
<1>6. \A k \in News(t)' : k \in News(t) \/ k = n + 1 \/ k = n + 2
  BY <1>5
<1>7. \A id \in Nat : ~Told(t, id)
  BY <1>1 DEF AddedOnce
<1>8. \A id \in Nat : Told(t, id)' => id \in InGame'
  <2>. SUFFICES ASSUME NEW id \in Nat, NEW k \in News(t)', AddedAt(t, k, id)' PROVE id \in InGame'
    BY <1>7 DEF Told
  <2>1. CASE k \in News(t)
    <3>1. AddedAt(t, k, id)
      BY <1>5, <2>1 DEF AddedAt
    <3>. QED
      BY <1>7, <2>1, <3>1 DEF Told
  <2>2. CASE k = n + 1
    BY <1>4, <1>5, <2>2 DEF AddedAt
  <2>3. CASE k = n + 2
    BY <1>3, <1>4, <1>5, <2>3 DEF AddedAt
  <2>. QED
    BY <1>6, <2>1, <2>2, <2>3
<1>. QED
  BY <1>8 DEF Ended

\* The room's packet adds what is in the game, or removes what is ending.
LEMMA BroadcastEnded ==
  ASSUME Posted, NEW t \in Sessions, Ended(t), Announced, loop = "Broadcast",
         toClient'[t] = Append(toClient[t], message),
         UNCHANGED <<player, players, conn, client>>
  PROVE  Ended(t)'
<1>0. PICK n \in Nat : n = Len(toClient[t])
  <2>1. toClient[t] \in Seq(Packets)
    BY DEF Posted
  <2>. QED
    BY <2>1
<1>1. /\ News(t) = 1 .. n /\ News(t)' = 1 .. n + 1
      /\ \A k \in News(t) : toClient'[t][k] = toClient[t][k]
      /\ toClient'[t][n + 1] = message
  <2>1. toClient[t] \in Seq(Packets)
    BY DEF Posted
  <2>. QED
    BY <1>0, <2>1 DEF News
<1>2. message.type = "S_AddObject" => DOMAIN message.objects = {player[current]}
  BY DEF Posted
<1>3. /\ \A k \in News(t) : k \in News(t)'
      /\ \A k \in News(t)' : k \in News(t) \/ k = n + 1
      /\ n + 1 \in News(t)'
  BY <1>1
<1>4. \A k \in News(t) : \A id : /\ AddedAt(t, k, id)' <=> AddedAt(t, k, id)
                                 /\ RemovedAt(t, k, id)' <=> RemovedAt(t, k, id)
  BY <1>1 DEF AddedAt, RemovedAt
<1>5. \A id : /\ AddedAt(t, n + 1, id)' => id \in InGame
              /\ Ending(id) => RemovedAt(t, n + 1, id)'
  BY <1>1, <1>2 DEF AddedAt, RemovedAt, Announced, Ending
<1>6. \A id : Told(t, id)' => Told(t, id) \/ id \in InGame
  BY <1>3, <1>4, <1>5 DEF Told
<1>7. \A id : Ending(id) \/ (\E k \in News(t) : RemovedAt(t, k, id)) =>
        \E k \in News(t)' : RemovedAt(t, k, id)'
  BY <1>3, <1>4, <1>5
<1>8. InGame' = InGame
  BY DEF InGame
<1>. QED
  BY <1>6, <1>7, <1>8 DEF Ended

\* A client that handles a packet forgets what that removes.
LEMMA ReadEnded ==
  ASSUME IInv, IdsLast, Posted, Fields, NEW s \in Sessions, Mine(s), AddedOnce(s), Copied(s),
         Known(s), Parted(s), Ended(s), Dispatch(s)
  PROVE  Ended(s)'
<1>. PICK d : d = HandlePacket(client[s], toClient[s][1])
  OBVIOUS
<1>2. /\ 1 \in News(s) /\ News(s) \subseteq Nat \ {0} /\ News(s)' \subseteq Nat \ {0}
      /\ Head(toClient[s]) = toClient[s][1] /\ toClient[s][1] \in Packets
      /\ \A k \in News(s)' : toClient'[s][k] = toClient[s][k + 1]
      /\ \A k \in News(s)' : k + 1 \in News(s) /\ k + 1 > 1
      /\ \A j \in News(s) : j = 1 \/ \E i \in News(s)' : j = i + 1
  BY Shifted
<1>1. /\ client'[s] = d
      /\ UNCHANGED <<player, players, conn, loop, message>>
  BY <1>2 DEF Dispatch, Fields, sessionVars, roomVars, loopVars
<1>3. \A id \in DOMAIN d.copies : id \in DOMAIN client[s].copies \/ (id \in Nat /\ AddedAt(s, 1, id))
  BY <1>2, Handled
<1>4. \A k \in News(s)' : \A id : /\ AddedAt(s, k, id)' <=> AddedAt(s, k + 1, id)
                                  /\ RemovedAt(s, k, id)' <=> RemovedAt(s, k + 1, id)
  BY <1>2 DEF AddedAt, RemovedAt
<1>5. \A id : Told(s, id)' => Told(s, id)
  BY <1>1, <1>2, <1>3, <1>4 DEF Told
<1>6. ASSUME NEW id \in Nat, RemovedAt(s, 1, id) PROVE ~Told(s, id)'
  <2>1. toClient[s][1].type = "S_RemoveObject" /\ toClient[s][1].id = id
    BY <1>6 DEF RemovedAt
  <2>2. id \in DOMAIN client[s].copies
    <3>1. id # player[s] /\ NamedAt(s, 1, id)
      BY <1>2, <1>6, <2>1 DEF Parted, NamedAt
    <3>2. \A j \in News(s) : ~(j < 1)
      BY <1>2
    <3>. QED
      BY <1>2, <3>1, <3>2 DEF Known
  <2>3. d.copies = Erase(client[s].copies, id)
    <3>1. DOMAIN client[s] = DOMAIN NewScene /\ Single(client[s].copies)
      BY DEF Fields, Copied
    <3>. QED
      BY <1>2, <2>1, <2>2, <3>1, RemoveHandled DEF Erased
  <2>4. id \notin DOMAIN d.copies
    BY <2>3 DEF Erase
  <2>5. \A k \in News(s)' : ~AddedAt(s, k, id)'
    BY <1>2, <1>4, <2>2 DEF AddedOnce
  <2>. QED
    BY <1>1, <2>4, <2>5 DEF Told
<1>7. /\ InGame' = InGame /\ \A id : Ending(id)' <=> Ending(id)
  BY <1>1 DEF InGame, Ending
<1>8. \A id \in Nat : \A k \in News(s) : RemovedAt(s, k, id) /\ Told(s, id)' =>
        \E j \in News(s)' : RemovedAt(s, j, id)'
  BY <1>2, <1>4, <1>6
<1>. QED
  BY <1>1, <1>5, <1>7, <1>8 DEF Ended

LEMMA AnnouncedStep ==
  ASSUME Faults = {}, ClientEvents = {}, IInv, IdsLast, Orderly, RInv, SInv,
         Announced, [RNext]_rvars
  PROVE  Announced'
<1>. USE DEF rvars, vars, sessionVars, roomVars, loopVars, netVars, Running
<1>1. ASSUME loop' # "Broadcast" \/ message'.type # "S_AddObject" PROVE Announced'
  BY <1>1 DEF Announced
<1>2. ASSUME UNCHANGED <<loop, message, players, player, current>> PROVE Announced'
  BY <1>2 DEF Announced, InGame
<1>3. CASE AddObject
  <2>1. /\ current \in Sessions /\ player[current] # NoPlayer /\ UNCHANGED <<player, current>>
    BY <1>3 DEF AddObject, IInv, IdsGiven, Serving, Entering
  <2>2. player[current] \in 1 .. MaxPlayerId
    <3>1. player[current] \in 1 .. nextId - 1 /\ nextId \in Nat
      BY <2>1 DEF IInv, IdsGiven, TypeOK
    <3>. QED
      BY <3>1, GameRoomAssumption DEF IdsLast
  <2>3. players' = Insert(players, player[current], current)
    BY <1>3, <2>2 DEF AddObject
  <2>4. player[current] \in DOMAIN players'
    BY <2>3 DEF Insert
  <2>. QED
    BY <2>1, <2>4 DEF Announced, InGame
<1>4. CASE Broadcast
  <2>1. loop' # "Broadcast"
    BY <1>4 DEF Broadcast, IInv, TypeOK
  <2>. QED
    BY <1>1, <2>1
<1>5. ASSUME NEW s \in Sessions, RecvZero(s) \/ ProcessSend(s) PROVE Announced'
  <2>1. loop = "Dispatch" /\ (Disconnect(s) \/ loop' = "Update")
    BY <1>5 DEF RecvZero, ProcessSend
  <2>2. loop' = "Update" \/ message' = [type |-> "S_RemoveObject", id |-> player[s]]
    BY <2>1, LeaveFound
  <2>. QED
    BY <1>1, <2>2
<1>6. CASE HandleMove
  <2>1. \E move : message' = [type |-> "S_Move", id |-> move.id, info |-> move.info]
    BY <1>6, MoveFound
  <2>. QED
    BY <1>1, <2>1
<1>7. CASE UpdateMonster
  <2>1. \/ loop' = "Update"
        \/ \E m, i : message' = [type |-> "S_Move", id |-> m, info |-> i]
    BY <1>7 DEF UpdateMonster, StartBroadcast
  <2>. QED
    BY <1>1, <2>1
<1>8. CASE \/ \E s \in Sessions : OnConnected(s) \/ ProcessRecv(s) \/ ProcessDisconnect(s)
           \/ EnterRoom \/ RegisterRecv \/ OnRecvReturns \/ UpdateReturns
  <2>1. loop' # "Broadcast"
    BY <1>8 DEF OnConnected, ProcessRecv, ProcessDisconnect, EnterRoom, RegisterRecv,
       OnRecvReturns, UpdateReturns
  <2>. QED
    BY <1>1, <2>1
<1>9. CASE Network
  BY <1>2, <1>9 DEF Network, Arrive, RecvEnd
<1>10. ASSUME NEW s \in Sessions, Client(s) PROVE Announced'
  <2>1. UNCHANGED <<loop, message, players, player, current>>
    BY <1>10 DEF Client, Dispatch, Tick, Collide, ChangeScene, Kill, TickDead
  <2>. QED
    BY <1>2, <2>1
<1>11. CASE UNCHANGED rvars
  BY <1>2, <1>11
<1>12. CASE Server
  BY <1>3, <1>4, <1>5, <1>6, <1>7, <1>8, <1>12 DEF Server
<1>. QED
  BY <1>9, <1>10, <1>11, <1>12 DEF RNext

LEMMA EndedStep ==
  ASSUME Faults = {}, ClientEvents = {}, IInv, IdsLast, IdsLast', Orderly, RInv, SInv,
         Announced, [RNext]_rvars, NEW t \in Sessions, Ended(t)
  PROVE  Ended(t)'
<1>. USE DEF rvars, vars, sessionVars, roomVars, loopVars, netVars, Running
<1>0. /\ Posted /\ Fields /\ Keyed /\ Mine(t) /\ AddedOnce(t) /\ Copied(t) /\ Known(t) /\ Parted(t)
      /\ DOMAIN toClient = Sessions /\ DOMAIN client = Sessions /\ DOMAIN conn = Sessions
  BY DEF RInv, SInv, Posted, Fields, IInv, TypeOK
<1>1. ASSUME toClient'[t] = toClient[t], client'[t].copies = client[t].copies, player'[t] = player[t],
             conn'[t] = conn[t], DOMAIN players \subseteq DOMAIN players',
             loop # "Broadcast" \/ UNCHANGED <<loop, message>>
      PROVE  Ended(t)'
  <2>1. \A id : id \in InGame \/ Ending(id) => id \in InGame' \/ Ending(id)'
    BY <1>1 DEF InGame, Ending
  <2>. QED
    BY <1>1, <2>1, StillEnded
<1>2. ASSUME NEW s \in Sessions, OnConnected(s), UNCHANGED client PROVE Ended(t)'
  <2>1. /\ conn' = [conn EXCEPT ![s] = "connected"] /\ UNCHANGED <<player, players>>
        /\ toClient' = [toClient EXCEPT ![s] = <<[type |-> "S_EnterGame"]>>]
        /\ player[s] = NoPlayer /\ loop = "Dispatch"
    BY <1>2 DEF OnConnected, IInv, IdsGiven
  <2>2. CASE s = t
    BY <2>1, <2>2 DEF Ended
  <2>3. CASE s # t
    <3>1. toClient'[t] = toClient[t] /\ conn'[t] = conn[t]
      BY <1>0, <2>1, <2>3
    <3>. QED
      BY <1>1, <1>2, <2>1, <3>1
  <2>. QED
    BY <2>2, <2>3
<1>3. ASSUME EnterRoom, UNCHANGED client PROVE Ended(t)'
  <2>1. CASE t = current
    BY <1>0, <1>3, <2>1, EnteredEnded
  <2>2. CASE t # current
    <3>1. /\ toClient'[t] = toClient[t] /\ player'[t] = player[t]
          /\ UNCHANGED <<players, conn>> /\ loop = "EnterRoom"
      BY <1>0, <1>3, <2>2 DEF EnterRoom, SendTo, IInv, TypeOK
    <3>. QED
      BY <1>1, <1>3, <3>1
  <2>. QED
    BY <2>1, <2>2
<1>4. ASSUME AddObject, UNCHANGED client PROVE Ended(t)'
  <2>1. UNCHANGED <<toClient, player, conn>> /\ loop = "AddObject"
    BY <1>4 DEF AddObject
  <2>2. players' = players \/ players' = Insert(players, player[current], current)
    BY <1>4 DEF AddObject
  <2>3. DOMAIN players \subseteq DOMAIN players'
    BY <2>2 DEF Insert
  <2>. QED
    BY <1>1, <1>4, <2>1, <2>3
<1>5. ASSUME Broadcast, UNCHANGED client PROVE Ended(t)'
  <2>1. /\ UNCHANGED <<player, players, conn>> /\ loop = "Broadcast"
        /\ toClient' = [s \in Sessions |->
             IF s \in Receivers /\ conn[s] = "connected"
               THEN Append(toClient[s], message) ELSE toClient[s]]
    BY <1>5 DEF Broadcast
  <2>2. CASE conn[t] = "connected" /\ player[t] # NoPlayer
    <3>1. t \in Receivers
      <4>1. player[t] \in DOMAIN players /\ players[player[t]] = t
        BY <2>1, <2>2, InTheRoom DEF Entering
      <4>. QED
        BY <4>1, GameRoomAssumption DEF Receivers
    <3>2. toClient'[t] = Append(toClient[t], message)
      BY <2>1, <2>2, <3>1
    <3>. QED
      BY <1>0, <1>5, <2>1, <3>2, BroadcastEnded
  <2>3. CASE ~(conn[t] = "connected" /\ player[t] # NoPlayer)
    BY <2>1, <2>3 DEF Ended
  <2>. QED
    BY <2>2, <2>3
<1>6. ASSUME NEW s \in Sessions, RecvZero(s) \/ ProcessSend(s), UNCHANGED client
      PROVE  Ended(t)'
  <2>1. /\ UNCHANGED <<toClient, player>> /\ loop = "Dispatch"
        /\ Disconnect(s) \/ UNCHANGED <<conn, players>>
    BY <1>6 DEF RecvZero, ProcessSend
  <2>2. CASE UNCHANGED <<conn, players>>
    BY <1>1, <1>6, <2>1, <2>2
  <2>3. CASE ~UNCHANGED <<conn, players>>
    <3>1. /\ loop' = "Broadcast" /\ message' = [type |-> "S_RemoveObject", id |-> player[s]]
          /\ conn' = [conn EXCEPT ![s] = "closed"] /\ players' = Erase(players, player[s])
      BY <2>1, <2>3, LeaveFound
    <3>2. /\ conn'[t] = "connected" => conn[t] = "connected"
          /\ DOMAIN players' = DOMAIN players \ {player[s]}
      BY <1>0, <3>1 DEF Erase
    <3>3. \A id : id \in InGame \/ Ending(id) => id \in InGame' \/ Ending(id)'
      BY <2>1, <3>1, <3>2 DEF InGame, Ending
    <3>. QED
      BY <1>6, <2>1, <3>2, <3>3, StillEnded
  <2>. QED
    BY <2>2, <2>3
<1>7. ASSUME NEW s \in Sessions, ProcessRecv(s) \/ ProcessDisconnect(s), UNCHANGED client
      PROVE  Ended(t)'
  <2>1. UNCHANGED <<toClient, player, players, conn>> /\ loop = "Dispatch"
    BY <1>7 DEF ProcessRecv, ProcessDisconnect
  <2>. QED
    BY <1>1, <1>7, <2>1
<1>8. ASSUME RegisterRecv \/ OnRecvReturns \/ UpdateReturns \/ UpdateMonster, UNCHANGED client
      PROVE  Ended(t)'
  <2>1. UNCHANGED <<toClient, player, players, conn>> /\ loop # "Broadcast"
    BY <1>8 DEF RegisterRecv, OnRecvReturns, UpdateReturns, UpdateMonster
  <2>. QED
    BY <1>1, <1>8, <2>1
<1>9. ASSUME HandleMove, UNCHANGED client PROVE Ended(t)'
  <2>1. UNCHANGED <<toClient, player, players, conn>> /\ loop = "OnRecv"
    BY <1>9, MoveFound DEF HandleMove
  <2>. QED
    BY <1>1, <1>9, <2>1
<1>10. ASSUME Network, UNCHANGED client PROVE Ended(t)'
  <2>1. UNCHANGED <<toClient, player, players, conn, loop, message>>
    BY <1>10 DEF Network, Arrive, RecvEnd
  <2>. QED
    BY <1>1, <1>10, <2>1
<1>11. ASSUME NEW s \in Sessions, Dispatch(s) PROVE Ended(t)'
  <2>1. CASE t = s
    BY <1>0, <1>11, <2>1, ReadEnded
  <2>2. CASE t # s
    <3>1. toClient'[t] = toClient[t] /\ client'[t] = client[t]
          /\ UNCHANGED <<player, players, conn, loop, message>>
      BY <1>0, <1>11, <2>2 DEF Dispatch
    <3>. QED
      BY <1>1, <3>1
  <2>. QED
    BY <2>1, <2>2
<1>12. ASSUME NEW s \in Sessions,
              \/ Tick(s) \/ Collide(s) \/ ChangeScene(s)
              \/ \E m \in MonsterIds : Kill(s, m) \/ TickDead(s, m)
       PROVE  Ended(t)'
  <2>1. /\ UNCHANGED <<toClient, player, players, conn, loop, message>>
        /\ client'[t].copies = client[t].copies
    BY <1>0, <1>12, FrameOfClient DEF Same
  <2>. QED
    BY <1>1, <2>1
<1>13. CASE UNCHANGED rvars
  BY <1>1, <1>13
<1>14. CASE Server /\ UNCHANGED <<client, sent>>
  BY <1>2, <1>3, <1>4, <1>5, <1>6, <1>7, <1>8, <1>9, <1>14 DEF Server
<1>. QED
  BY <1>10, <1>11, <1>12, <1>13, <1>14 DEF RNext, Client

\* The copies of a client stay a function.
LEMMA MapStep ==
  ASSUME ClientEvents = {}, RInv, SInv, [RNext]_rvars, NEW t \in Sessions, IsMap(client[t].copies)
  PROVE  IsMap(client'[t].copies)
<1>0. Fields /\ Posted
  BY DEF RInv
<1>1. ASSUME client'[t].copies = client[t].copies PROVE IsMap(client'[t].copies)
  BY <1>1
<1>2. ASSUME NEW s \in Sessions, Dispatch(s) PROVE IsMap(client'[t].copies)
  <2>1. /\ client' = [client EXCEPT ![s] = HandlePacket(@, Head(toClient[s]))]
        /\ DOMAIN client = Sessions /\ DOMAIN client[t] = DOMAIN NewScene
    BY <1>0, <1>2 DEF Dispatch, Fields
  <2>2. CASE s = t
    <3>1. client'[t] = HandlePacket(client[t], Head(toClient[t])) /\ Head(toClient[t]) \in Packets
      BY <1>0, <1>2, <2>1, <2>2, Shifted
    <3>. QED
      BY <2>1, <3>1, HandlersMap
  <2>3. CASE s # t
    BY <1>1, <2>1, <2>3
  <2>. QED
    BY <2>2, <2>3
<1>3. ASSUME NEW s \in Sessions,
             \/ Tick(s) \/ Collide(s) \/ ChangeScene(s)
             \/ \E m \in MonsterIds : Kill(s, m) \/ TickDead(s, m)
      PROVE  IsMap(client'[t].copies)
  BY <1>0, <1>1, <1>3, FrameOfClient DEF Same
<1>4. CASE UNCHANGED client
  BY <1>1, <1>4
<1>. QED
  BY <1>2, <1>3, <1>4 DEF RNext, Client, rvars

LEMMA VInvInit == RInit => VInv
<1>. SUFFICES ASSUME RInit PROVE VInv
  OBVIOUS
<1>. USE DEF RInit, Init
<1>1. Announced
  BY DEF Announced
<1>2. ASSUME NEW s \in Sessions PROVE Ended(s) /\ IsMap(client[s].copies)
  BY DEF Ended, IsMap, NewScene
<1>. QED
  BY <1>1, <1>2 DEF VInv

LEMMA VInvStep ==
  ASSUME Faults = {}, ClientEvents = {}, IInv, IdsLast, IdsLast', OInv, RInv, SInv, VInv,
         [RNext]_rvars
  PROVE  VInv'
<1>1. Orderly
  BY DEF OInv
<1>2. Announced'
  BY <1>1, AnnouncedStep DEF VInv
<1>3. ASSUME NEW s \in Sessions PROVE Ended(s)' /\ IsMap(client'[s].copies)
  BY <1>1, EndedStep, MapStep DEF VInv
<1>. QED
  BY <1>2, <1>3 DEF VInv

\* There is one last thing to hear of an object.
LEMMA OneLatest ==
  ASSUME NEW s, NEW N \in Nat, News(s) = 1 .. N, NEW id, NEW i, NEW j, Latest(s, id, i),
         LatestBy(s, N, id, j)
  PROVE  i = j
<1>1. /\ \A k \in News(s) : k <= N
      /\ \A k, l \in News(s) : k < l \/ l < k \/ k = l
  OBVIOUS
<1>. QED
  BY <1>1 DEF Latest, LatestBy

\* What a client in the room is once it has handled what is on its way.
LEMMA ShowsTheRoom ==
  ASSUME IInv, IdsLast, Orderly, RInv, SInv, TInv, VInv, loop = "Dispatch",
         NEW s \in Sessions, InRoom(s),
         NEW c, c = Seqs!FoldLeft(HandlePacket, client[s], toClient[s])
  PROVE  /\ c.my = player[s]
         /\ c.copies = [id \in (DOMAIN players \cup monsters) \ {player[s]} |-> <<info[id]>>]
<1>1. /\ conn[s] = "connected" /\ player[s] # NoPlayer
      /\ DOMAIN players \cup monsters = InGame
  BY GameRoomAssumption DEF InRoom, Orderly, InGame, IInv, TypeOK
<1>2. Readable(s) /\ Whole(s) /\ UpToDate(s) /\ Ended(s)
  BY <1>1 DEF Readable, RInv, SInv, TInv, VInv
<1>3. PICK N \in Nat : News(s) = 1 .. N /\ After(s, N, c)
  BY <1>2, AfterAll
<1>4. \A j \in News(s) : j <= N
  BY <1>3
<1>5. c.my = player[s]
  <2>1. client[s].my # NoPlayer \/ \E j \in News(s) : j <= N /\ MineAt(s, j)
    BY <1>1, <1>2, <1>4 DEF Readable, Introduced
  <2>. QED
    BY <1>3, <2>1 DEF After
<1>6. \A id : /\ ToldBy(s, N, id) <=> Told(s, id)
              /\ RemovedBy(s, N, id) <=> \E k \in News(s) : RemovedAt(s, k, id)
  BY <1>4 DEF ToldBy, Told, RemovedBy
<1>7. InGame \subseteq Nat
  BY GameRoomAssumption DEF InGame, IInv, TypeOK
<1>8. ~Announcing /\ \A id : ~Changing(id) /\ ~Ending(id)
  BY DEF Announcing, Changing, Ending
<1>9. DOMAIN c.copies = InGame \ {player[s]}
  <2>1. ASSUME NEW id \in DOMAIN c.copies PROVE id \in InGame /\ id # player[s]
    <3>1. id \in Nat /\ id # player[s] /\ ToldBy(s, N, id) /\ ~RemovedBy(s, N, id)
      BY <1>3 DEF After
    <3>. QED
      BY <1>1, <1>2, <1>6, <1>8, <3>1 DEF Ended
  <2>2. ASSUME NEW id \in InGame, id # player[s] PROVE id \in DOMAIN c.copies
    <3>1. ToldBy(s, N, id)
      BY <1>1, <1>2, <1>6, <1>8, <2>2 DEF Whole
    <3>2. ~RemovedBy(s, N, id)
      BY <1>2, <1>6, <1>7 DEF Readable, Parted
    <3>. QED
      BY <1>3, <1>7, <2>2, <3>1, <3>2 DEF After
  <2>. QED
    BY <2>1, <2>2
<1>10. \A id \in DOMAIN c.copies : c.copies[id] = <<info[id]>>
  <2>. SUFFICES ASSUME NEW id \in DOMAIN c.copies PROVE c.copies[id] = <<info[id]>>
    OBVIOUS
  <2>1. Latest(s, id, info[id])
    BY <1>1, <1>2, <1>8, <1>9 DEF UpToDate
  <2>2. LatestBy(s, N, id, c.copies[id][1]) /\ c.copies[id] = <<c.copies[id][1]>>
    BY <1>3 DEF After, Single
  <2>3. info[id] = c.copies[id][1]
    BY <1>3, <2>1, <2>2, OneLatest
  <2>. QED
    BY <2>2, <2>3
<1>11. c.copies = [id \in DOMAIN c.copies |-> c.copies[id]]
  BY <1>3 DEF After, IsMap
<1>12. c.copies = [id \in InGame \ {player[s]} |-> <<info[id]>>]
  BY <1>9, <1>10, <1>11
<1>. QED
  BY <1>1, <1>5, <1>12

\* GameRoom.cpp:42-157, 178-199: while connections end in order and nobody
\* leaves the game scene, the packets on their way to a client are what its
\* scene lacks: whatever their number, once it has handled them it shows its own
\* player, and one copy of every other object of the room, as the room has
\* recorded it.
THEOREM PacketsTellTheRoom ==
  ASSUME IsFiniteSet(Sessions), Cardinality(Sessions) <= MaxPlayerId,
         Faults = {}, ClientEvents = {}
  PROVE  RSpec => []ToldTheRoom
<1>1. RInit => TInv /\ VInv
  BY TInvInit, VInvInit
<1>2. IInv /\ IdsLast /\ IdsLast' /\ OInv /\ RInv /\ SInv /\ TInv /\ [RNext]_rvars => TInv'
  BY TInvStep
<1>3. IInv /\ IdsLast /\ IdsLast' /\ OInv /\ RInv /\ SInv /\ VInv /\ [RNext]_rvars => VInv'
  BY VInvStep
<1>4. IInv /\ IdsLast /\ OInv /\ RInv /\ SInv /\ TInv /\ VInv => ToldTheRoom
  BY ShowsTheRoom DEF ToldTheRoom, OInv
<1>. QED
  BY <1>1, <1>2, <1>3, <1>4, SInvAlways, PTL DEF RSpec
=============================================================================
