------------------------------ MODULE GameRoom ------------------------------
(***************************************************************************)
(* The game server: the main loop of Server.cpp, the callbacks of          *)
(* GameSession and the one GameRoom they share.  One thread runs it all;   *)
(* loop says which function it is in, and only the network moves between   *)
(* its steps.  The sessions below are what module Session shows them to    *)
(* be: packets reach the client in the order of the Sends, a session is    *)
(* disconnected once, and a receive completed before that is still         *)
(* handled.                                                                *)
(*                                                                         *)
(* An operation without a defined outcome (an erased map iterator is       *)
(* advanced, a null player dereferenced, a Player used as a Monster) sets  *)
(* undefined, and the model stops there.                                   *)
(***************************************************************************)
EXTENDS Integers, Sequences

CONSTANTS
  Sessions,     \* the connections made while the server runs
  MaxPlayerId,  \* ids up to this one are players', 100 in the code
  MonsterIds,   \* the ids of the field monsters
  Infos,        \* what an ActorInfo and an ObjectInfo can say
  SpawnInfo,    \* what they say of a new object
  Faults,       \* how a connection breaks besides by an orderly close:
                \* "immediate": WSASend returns a reset at once
                \* "sendFailed": a posted send completes with an error
  NoSession, NoPlayer, NoMessage,
  MaxChanges    \* bound: C_Move packets and state changes of monsters

ASSUME GameRoomAssumption ==
  /\ MaxPlayerId \in Nat /\ MaxChanges \in Nat
  /\ MonsterIds \subseteq Nat /\ \A m \in MonsterIds : m > MaxPlayerId
  /\ SpawnInfo \in Infos
  /\ NoSession \notin Sessions /\ NoPlayer \notin Nat
  /\ Faults \subseteq {"immediate", "sendFailed"}

VARIABLES
  conn,       \* Session::_connected, and whether it ever was
  sending,    \* Session::_sendRegistered
  recv,       \* the receive of a session: none, posted, or its completion
  arrived,    \* the packets a completed receive has brought
  sessions,   \* GameSessionManager::_sessions
  player,     \* the id of GameSession::player
  players,    \* GameRoom::_players: the session of a player, or a null entry
  monsters,   \* the keys of GameRoom::_monsters
  info,       \* _actorInfo and _objectInfo of every object made
  nextId,     \* GameObject::_idGenerator
  loop,       \* the function the main loop is in
  current,    \* the session it works for
  message,    \* the packet Broadcast is sending
  after,      \* where Broadcast returns to
  todo,       \* the monsters Update has still to visit
  undefined,
  toClient,   \* environment: packets on their way to each client
  toServer,   \* environment: C_Move packets on their way from each client
  changes     \* environment: how many changes there have been

sessionVars == <<conn, sending, recv, arrived, sessions>>
roomVars    == <<player, players, monsters, info, nextId>>
loopVars    == <<loop, current, message, after, todo, undefined>>
netVars     == <<toClient, toServer, changes>>
vars        == <<sessionVars, roomVars, loopVars, netVars>>

\* GameRoom::Init has added the field monsters; the service is accepting.
Init ==
  /\ conn = [s \in Sessions |-> "none"]
  /\ sending = [s \in Sessions |-> FALSE]
  /\ recv = [s \in Sessions |-> "none"]
  /\ arrived = [s \in Sessions |-> <<>>]
  /\ sessions = {}
  /\ player = [s \in Sessions |-> NoPlayer]
  /\ players = <<>>
  /\ monsters = MonsterIds
  /\ info = [m \in MonsterIds |-> SpawnInfo]
  /\ nextId = 1
  /\ loop = "Dispatch" /\ current = NoSession
  /\ message = NoMessage /\ after = "Update" /\ todo = {}
  /\ undefined = FALSE
  /\ toClient = [s \in Sessions |-> <<>>]
  /\ toServer = [s \in Sessions |-> <<>>]
  /\ changes = 0

-----------------------------------------------------------------------------
Insert(f, k, v) == [x \in DOMAIN f \cup {k} |-> IF x = k THEN v ELSE f[x]]
Erase(f, k) == [x \in DOMAIN f \ {k} |-> f[x]]

Running(function) == loop = function /\ ~undefined

\* Session::Send of packets to one session: a closed one keeps them.
SendTo(s, packets) ==
  /\ sending' = [sending EXCEPT ![s] = TRUE]
  /\ toClient' = IF conn[s] = "connected"
                   THEN [toClient EXCEPT ![s] = @ \o packets] ELSE toClient

\* Starts GameRoom::Broadcast.
StartBroadcast(packet, return) ==
  /\ loop' = "Broadcast" /\ message' = packet /\ after' = return

\* GameRoom::Broadcast over _players.  A null entry is dereferenced; a Send
\* that is reset at once disconnects its session and so erases the entry the
\* loop stands on.
Receivers == {players[id] : id \in DOMAIN players} \ {NoSession}

Broadcast ==
  /\ Running("Broadcast")
  /\ loop' = after
  /\ \/ /\ undefined' = (\E id \in DOMAIN players : players[id] = NoSession)
        /\ sending' = [s \in Sessions |-> sending[s] \/ s \in Receivers]
        /\ toClient' = [s \in Sessions |->
             IF s \in Receivers /\ conn[s] = "connected"
               THEN Append(toClient[s], message) ELSE toClient[s]]
     \/ /\ "immediate" \in Faults
        /\ \E s \in Receivers : conn[s] = "connected" /\ ~sending[s]
        /\ undefined' = TRUE
        /\ UNCHANGED <<sending, toClient>>
  /\ UNCHANGED <<conn, recv, arrived, sessions, roomVars, current, message,
                 after, todo, toServer, changes>>

-----------------------------------------------------------------------------
(* Leaving.                                                                *)

\* Mutation: the player stays in _players.
LeaveRoom_KeepsEntry(s) ==
  /\ UNCHANGED players
  /\ IF player[s] = NoPlayer
       THEN loop' = "Update" /\ UNCHANGED <<message, after>>
       ELSE StartBroadcast([type |-> "S_RemoveObject", id |-> player[s]], "Update")

\* OnDisconnected, LeaveRoom, RemoveObject: the id is erased from _players,
\* whatever it names, and the others are told.
LeaveRoom(s) ==
  IF player[s] = NoPlayer
    THEN loop' = "Update" /\ UNCHANGED <<players, message, after>>
    ELSE /\ players' = Erase(players, player[s])
         /\ StartBroadcast([type |-> "S_RemoveObject", id |-> player[s]], "Update")

\* Session::Disconnect with the callback.
Disconnect(s) ==
  IF conn[s] = "connected"
    THEN /\ conn' = [conn EXCEPT ![s] = "closed"]
         /\ sessions' = sessions \ {s}
         /\ LeaveRoom(s)
    ELSE /\ loop' = "Update"
         /\ UNCHANGED <<conn, sessions, players, message, after>>

\* A receive completes with zero bytes.
RecvZero(s) ==
  /\ Running("Dispatch")
  /\ recv[s] = "end"
  /\ recv' = [recv EXCEPT ![s] = "none"]
  /\ todo' = monsters
  /\ Disconnect(s)
  /\ UNCHANGED <<sending, arrived, player, monsters, info, nextId, current,
                 undefined, netVars>>

\* A send completes, with nothing left to send, or with an error.
ProcessSend(s) ==
  /\ Running("Dispatch")
  /\ conn[s] = "connected" /\ sending[s]
  /\ todo' = monsters
  /\ \/ /\ sending' = [sending EXCEPT ![s] = FALSE]
        /\ loop' = "Update"
        /\ UNCHANGED <<conn, sessions, players, message, after>>
     \/ /\ "sendFailed" \in Faults
        /\ Disconnect(s)
        /\ UNCHANGED sending
  /\ UNCHANGED <<recv, arrived, player, monsters, info, nextId, current,
                 undefined, netVars>>

\* A completion that reaches no session's state: of DisconnectEx.
ProcessDisconnect(s) ==
  /\ Running("Dispatch")
  /\ conn[s] = "closed"
  /\ loop' = "Update" /\ todo' = monsters
  /\ UNCHANGED <<sessionVars, roomVars, current, message, after, undefined, netVars>>

-----------------------------------------------------------------------------
(* Entering.                                                               *)

\* OnConnected up to EnterRoom.  The first Send finds the session's send
\* event free; if it is reset, OnDisconnected finds no player to remove.
OnConnected(s) ==
  /\ Running("Dispatch")
  /\ conn[s] = "none"
  /\ loop' = "EnterRoom" /\ current' = s
  /\ \/ /\ conn' = [conn EXCEPT ![s] = "connected"]
        /\ sessions' = sessions \cup {s}
        /\ sending' = [sending EXCEPT ![s] = TRUE]
        /\ toClient' = [toClient EXCEPT ![s] = <<[type |-> "S_EnterGame"]>>]
     \/ /\ "immediate" \in Faults
        /\ conn' = [conn EXCEPT ![s] = "closed"]
        /\ UNCHANGED <<sessions, sending, toClient>>
  /\ UNCHANGED <<recv, arrived, roomVars, message, after, todo, undefined,
                 toServer, changes>>

\* Mutation: the id generator is read and not advanced.
EnterRoom_SameId ==
  LET s == current
      known == DOMAIN players \cup monsters
  IN /\ Running("EnterRoom")
     /\ loop' = "AddObject"
     /\ player' = [player EXCEPT ![s] = nextId]
     /\ info' = Insert(info, nextId, SpawnInfo)
     /\ SendTo(s, <<[type |-> "S_MyPlayer", id |-> nextId, info |-> SpawnInfo],
                    [type |-> "S_AddObject", objects |-> [o \in known |-> info'[o]]]>>)
     /\ UNCHANGED <<conn, recv, arrived, sessions, players, monsters, nextId,
                    current, message, after, todo, undefined, toServer, changes>>

\* Mutation: the client hears of the room before it hears of its player.
EnterRoom_PlayerLast ==
  LET s == current
      known == DOMAIN players \cup monsters
  IN /\ Running("EnterRoom")
     /\ loop' = "AddObject"
     /\ player' = [player EXCEPT ![s] = nextId]
     /\ nextId' = nextId + 1
     /\ info' = Insert(info, nextId, SpawnInfo)
     /\ SendTo(s, <<[type |-> "S_AddObject", objects |-> [o \in known |-> info'[o]]],
                    [type |-> "S_MyPlayer", id |-> nextId, info |-> SpawnInfo]>>)
     /\ UNCHANGED <<conn, recv, arrived, sessions, players, monsters, current,
                    message, after, todo, undefined, toServer, changes>>

\* EnterRoom up to AddObject: a player is made, and the client is sent its
\* own player and everything in the room.
EnterRoom ==
  LET s == current
      known == DOMAIN players \cup monsters
  IN /\ Running("EnterRoom")
     /\ loop' = "AddObject"
     /\ player' = [player EXCEPT ![s] = nextId]
     /\ nextId' = nextId + 1
     /\ info' = Insert(info, nextId, SpawnInfo)
     /\ SendTo(s, <<[type |-> "S_MyPlayer", id |-> nextId, info |-> SpawnInfo],
                    [type |-> "S_AddObject", objects |-> [o \in known |-> info'[o]]]>>)
     /\ undefined' = (\E id \in DOMAIN players : players[id] = NoSession)
     /\ UNCHANGED <<conn, recv, arrived, sessions, players, monsters, current,
                    message, after, todo, toServer, changes>>

\* Mutation: the last id is taken for a monster's.
AddObject_OffByOne ==
  LET id == player[current]
  IN /\ Running("AddObject")
     /\ IF id \in 1..MaxPlayerId - 1
          THEN players' = Insert(players, id, current) /\ UNCHANGED monsters
          ELSE monsters' = monsters \cup {id} /\ UNCHANGED players
     /\ StartBroadcast([type |-> "S_AddObject", objects |-> [o \in {id} |-> info[o]]],
                       "RegisterRecv")
     /\ UNCHANGED <<sessionVars, player, info, nextId, current, todo, undefined,
                    netVars>>

\* AddObject of that player: filed by its id alone, then announced to all.
AddObject ==
  LET id == player[current]
  IN /\ Running("AddObject")
     /\ IF id \in 1..MaxPlayerId
          THEN players' = Insert(players, id, current) /\ UNCHANGED monsters
          ELSE monsters' = monsters \cup {id} /\ UNCHANGED players
     /\ StartBroadcast([type |-> "S_AddObject", objects |-> [o \in {id} |-> info[o]]],
                       "RegisterRecv")
     /\ UNCHANGED <<sessionVars, player, info, nextId, current, todo, undefined,
                    netVars>>

RegisterRecv ==
  /\ Running("RegisterRecv")
  /\ loop' = "Update" /\ todo' = monsters
  /\ recv' = IF conn[current] = "connected"
               THEN [recv EXCEPT ![current] = "posted"] ELSE recv
  /\ current' = NoSession
  /\ UNCHANGED <<conn, sending, arrived, sessions, roomVars, message, after,
                 undefined, netVars>>

-----------------------------------------------------------------------------
(* Packets of the client.                                                  *)

\* ProcessRecv: packets have arrived.  It does not ask whether the session is
\* still connected.
ProcessRecv(s) ==
  /\ Running("Dispatch")
  /\ recv[s] = "data"
  /\ recv' = [recv EXCEPT ![s] = "none"]
  /\ loop' = "OnRecv" /\ current' = s
  /\ UNCHANGED <<conn, sending, arrived, sessions, roomVars, message, after,
                 todo, undefined, netVars>>

\* FindObject reads _players[id], which makes a null entry where there is
\* none; the id is a player's.
FindObject(id) ==
  players' = IF id \in 1..MaxPlayerId \ DOMAIN players
               THEN Insert(players, id, NoSession) ELSE players

Found(id) == id \in 1..MaxPlayerId \cap DOMAIN players /\ players[id] # NoSession

\* Mutation: the room tells the others but does not record the move.
HandleMove_NotRecorded ==
  LET move == Head(arrived[current])
  IN /\ Running("OnRecv")
     /\ arrived[current] # <<>>
     /\ arrived' = [arrived EXCEPT ![current] = Tail(@)]
     /\ FindObject(move.id)
     /\ IF Found(move.id)
          THEN StartBroadcast([type |-> "S_Move", id |-> move.id, info |-> move.info],
                              "OnRecv")
          ELSE UNCHANGED <<loop, message, after>>
     /\ UNCHANGED <<conn, sending, recv, sessions, player, monsters, info, nextId,
                    current, todo, undefined, netVars>>

\* One turn of OnRecv's loop: OnRecvPacket and Handle_C_Move.
HandleMove ==
  LET move == Head(arrived[current])
  IN /\ Running("OnRecv")
     /\ arrived[current] # <<>>
     /\ arrived' = [arrived EXCEPT ![current] = Tail(@)]
     /\ FindObject(move.id)
     /\ IF Found(move.id)
          THEN /\ info' = [info EXCEPT ![move.id] = move.info]
               /\ StartBroadcast([type |-> "S_Move", id |-> move.id, info |-> move.info],
                                 "OnRecv")
          ELSE UNCHANGED <<info, loop, message, after>>
     /\ UNCHANGED <<conn, sending, recv, sessions, player, monsters, nextId, current,
                    todo, undefined, netVars>>

OnRecvReturns ==
  /\ Running("OnRecv")
  /\ arrived[current] = <<>>
  /\ loop' = "RegisterRecv"
  /\ UNCHANGED <<sessionVars, roomVars, current, message, after, todo, undefined,
                 netVars>>

-----------------------------------------------------------------------------
(* GameRoom::Update, after every dispatched completion.                    *)

\* Monster::Update: a monster may change its state and broadcasts it; a
\* Player filed as a Monster has no such function.
UpdateMonster ==
  /\ Running("Update")
  /\ \E m \in todo :
       /\ \A n \in todo : m <= n
       /\ todo' = todo \ {m}
       /\ undefined' = (m \notin MonsterIds)
       /\ \/ UNCHANGED <<info, loop, message, after, changes>>
          \/ /\ changes < MaxChanges
             /\ changes' = changes + 1
             /\ \E i \in Infos \ {info[m]} :
                  /\ info' = [info EXCEPT ![m] = i]
                  /\ StartBroadcast([type |-> "S_Move", id |-> m, info |-> i], "Update")
  /\ UNCHANGED <<sessionVars, player, players, monsters, nextId, current,
                 toClient, toServer>>

UpdateReturns ==
  /\ Running("Update")
  /\ todo = {}
  /\ loop' = "Dispatch"
  /\ UNCHANGED <<sessionVars, roomVars, current, message, after, todo, undefined,
                 netVars>>

Server ==
  \/ \E s \in Sessions :
       \/ OnConnected(s) \/ ProcessRecv(s) \/ RecvZero(s)
       \/ ProcessSend(s) \/ ProcessDisconnect(s)
  \/ EnterRoom \/ AddObject \/ Broadcast \/ RegisterRecv
  \/ HandleMove \/ OnRecvReturns
  \/ UpdateMonster \/ UpdateReturns

-----------------------------------------------------------------------------
(* The environment: clients and the network.                               *)

\* Part of what the client wrote arrives, also after a disconnect.
Arrive(s) ==
  /\ recv[s] = "posted"
  /\ \E n \in 1..Len(toServer[s]) :
       /\ arrived' = [arrived EXCEPT ![s] = SubSeq(toServer[s], 1, n)]
       /\ toServer' = [toServer EXCEPT ![s] = SubSeq(@, n + 1, Len(@))]
  /\ recv' = [recv EXCEPT ![s] = "data"]
  /\ UNCHANGED <<conn, sending, sessions, roomVars, loopVars, toClient, changes>>

\* The client has closed, or the receive was cancelled.
RecvEnd(s) ==
  /\ recv[s] = "posted"
  /\ recv' = [recv EXCEPT ![s] = "end"]
  /\ UNCHANGED <<conn, sending, arrived, sessions, roomVars, loopVars, netVars>>

\* A client that knows its player writes a C_Move.
ClientMoves(s, i) ==
  /\ conn[s] = "connected"
  /\ changes < MaxChanges
  /\ changes' = changes + 1
  /\ toServer' = [toServer EXCEPT ![s] = Append(@, [id |-> player[s], info |-> i])]
  /\ UNCHANGED <<sessionVars, roomVars, loopVars, toClient>>

\* A client reads its next packet.
ClientReads(s) ==
  /\ toClient[s] # <<>>
  /\ toClient' = [toClient EXCEPT ![s] = Tail(@)]
  /\ UNCHANGED <<sessionVars, roomVars, loopVars, toServer, changes>>

MyPlayerRead(s) ==
  /\ player[s] # NoPlayer
  /\ \A k \in 1..Len(toClient[s]) : toClient[s][k].type # "S_MyPlayer"

Network == \E s \in Sessions : Arrive(s) \/ RecvEnd(s)

Next ==
  \/ Server \/ Network
  \/ \E s \in Sessions :
       \/ ClientReads(s)
       \/ \E i \in Infos : MyPlayerRead(s) /\ ClientMoves(s, i)

Spec == Init /\ [][Next]_vars
-----------------------------------------------------------------------------
\* Every variable keeps its type, and the ids made are 1, 2, ... without a gap.
TypeOK ==
  /\ conn \in [Sessions -> {"none", "connected", "closed"}]
  /\ sending \in [Sessions -> BOOLEAN]
  /\ recv \in [Sessions -> {"none", "posted", "data", "end"}]
  /\ arrived \in [Sessions -> Seq([id : Nat, info : Infos])]
  /\ sessions \subseteq Sessions
  /\ player \in [Sessions -> Nat \cup {NoPlayer}]
  /\ DOMAIN players \subseteq Nat
  /\ \A id \in DOMAIN players : players[id] \in Sessions \cup {NoSession}
  /\ monsters \subseteq Nat
  /\ DOMAIN info = MonsterIds \cup 1..nextId - 1
  /\ \A o \in DOMAIN info : info[o] \in Infos
  /\ nextId \in Nat \ {0}
  /\ loop \in {"Dispatch", "EnterRoom", "AddObject", "Broadcast", "RegisterRecv",
               "OnRecv", "Update"}
  /\ current \in Sessions \cup {NoSession}
  /\ after \in {"RegisterRecv", "OnRecv", "Update"}
  /\ todo \subseteq Nat
  /\ undefined \in BOOLEAN
  /\ toServer \in [Sessions -> Seq([id : Nat, info : Infos])]
  /\ changes \in 0..MaxChanges

\* GameRoom.cpp:98-157, GameSession.cpp:7-23: between two completions the room
\* holds the players of the connected sessions, each under its own id, and
\* nobody else; the session manager holds the same sessions.
RoomIsSessions ==
  loop = "Dispatch" /\ ~undefined =>
    /\ sessions = {s \in Sessions : conn[s] = "connected"}
    /\ \A s \in sessions :
         player[s] \in DOMAIN players /\ players[player[s]] = s
    /\ \A id \in DOMAIN players :
         players[id] \in sessions /\ player[players[id]] = id

\* GameRoom.cpp:86-96, 135-157, 167-176: whatever breaks, no path but its own
\* session's takes a connected player out of the room.
LivePlayersStay ==
  loop = "Dispatch" =>
    \A s \in Sessions : conn[s] = "connected" =>
      player[s] \in DOMAIN players /\ players[player[s]] = s

\* GameRoom.cpp:161-164, 36-39: no iteration over _players or _monsters meets
\* an entry erased under it, a null player or an object of another class.
NoUndefined == ~undefined

\* GameRoom.cpp:167-176: looking an id up leaves no entry without a player.
NoNullPlayer == \A id \in DOMAIN players : players[id] # NoSession

\* GameRoom.cpp:102-114: what the room keeps as a monster is one.
MonstersAreMonsters == monsters = MonsterIds

-----------------------------------------------------------------------------
(* The invariants of GameRoomProofs.                                       *)

\* The main loop works for one session.
Serving ==
  \/ loop \in {"EnterRoom", "AddObject", "RegisterRecv", "OnRecv"}
  \/ loop = "Broadcast" /\ after \in {"RegisterRecv", "OnRecv"}

Entering == loop \in {"EnterRoom", "AddObject"}

IdsGiven ==
  /\ Serving => current \in Sessions
  /\ Entering => conn[current] # "none"
  /\ loop = "EnterRoom" => player[current] = NoPlayer
  /\ loop = "AddObject" => player[current] # NoPlayer
  /\ \A s \in Sessions : conn[s] = "none" => player[s] = NoPlayer
  /\ \A s \in Sessions : player[s] # NoPlayer => player[s] \in 1..nextId - 1
  /\ \A s, t \in Sessions : player[s] # NoPlayer /\ player[s] = player[t] => s = t

LiveEntered ==
  \A s \in Sessions : conn[s] = "connected" =>
    \/ Entering /\ current = s
    \/ /\ player[s] # NoPlayer
       /\ player[s] <= MaxPlayerId =>
            player[s] \in DOMAIN players /\ players[player[s]] = s

IInv == TypeOK /\ IdsGiven /\ LiveEntered

\* Every id given so far is a player's.
IdsLast == nextId <= MaxPlayerId + 1

\* What holds besides while no connection breaks and the ids last.
Orderly ==
  /\ ~undefined
  /\ sessions = {s \in Sessions : conn[s] = "connected"}
  /\ monsters = MonsterIds /\ todo \subseteq MonsterIds
  /\ \A id \in DOMAIN players :
       players[id] \in sessions /\ player[players[id]] = id
  /\ Serving => conn[current] = "connected"
  /\ \A s \in Sessions : recv[s] # "none" => conn[s] = "connected" /\ player[s] # NoPlayer
  /\ \A s \in Sessions : \A k \in 1..Len(arrived[s]) : arrived[s][k].id = player[s]
  /\ \A s \in Sessions : \A k \in 1..Len(toServer[s]) : toServer[s][k].id = player[s]

OInv == IdsLast => Orderly
=============================================================================
