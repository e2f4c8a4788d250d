----------------------------- MODULE Replication -----------------------------
(***************************************************************************)
(* The clients of a GameRoom: ClientPacketHandler's view of the room in    *)
(* the current scene, and the player each client controls and reports.     *)
(*                                                                         *)
(* A client is one thread; a frame of Game::Update is Tick, Collide and    *)
(* Dispatch below.  The three touch disjoint parts of the frame, and one   *)
(* that finds nothing to do changes nothing, so they are actions of their  *)
(* own.  A copy of another client's player or of a monster holds what the  *)
(* last packet about it said; what its own Tick adds for display is not    *)
(* modelled.                                                               *)
(***************************************************************************)
EXTENDS GameRoom

Seqs == INSTANCE SequencesExt

CONSTANTS
  Dead,         \* the state of a monster that has no health left
  ClientEvents  \* what a player may do besides playing on:
                \* "leave": open the title or setting scene and come back
                \* "kill": bring a monster's health to zero

ASSUME ReplicationAssumption ==
  /\ \A i \in Infos : DOMAIN i = {"x", "y", "state"} /\ i.state # Dead
  /\ ClientEvents \subseteq {"leave", "kill"}

VARIABLES
  client,  \* the scene, MyPlayer with its dirty flag, and the copies by id
  sent     \* history: what each client last reported, at first SpawnInfo

rvars == <<vars, client, sent>>

NewScene == [scene |-> "game", my |-> NoPlayer, own |-> SpawnInfo, dirty |-> FALSE,
             copies |-> <<>>, undefined |-> FALSE]

RInit ==
  /\ Init
  /\ client = [s \in Sessions |-> NewScene]
  /\ sent = [s \in Sessions |-> SpawnInfo]

-----------------------------------------------------------------------------
(* The handlers of ClientPacketHandler: a client and a packet to a client. *)

Crashed(c) == [c EXCEPT !.undefined = TRUE]

\* The position is built from posx twice.
Handle_S_MyPlayer(c, p) ==
  IF c.scene # "game" THEN c
    ELSE [c EXCEPT !.my = p.id, !.own = [p.info EXCEPT !.y = p.info.x]]

\* Mutation: the client's own player is not left out.
Handle_S_AddObject_Self(c, p) ==
  IF c.scene # "game" THEN c
    ELSE LET new == DOMAIN p.objects \cap (1..MaxPlayerId \cup MonsterIds)
         IN [c EXCEPT !.copies = [id \in DOMAIN @ \cup new |->
               (IF id \in DOMAIN @ THEN @[id] ELSE <<>>)
               \o (IF id \in new THEN <<p.objects[id]>> ELSE <<>>)]]

\* Every object is spawned, whether or not the id is already there; players
\* are compared with MyPlayer, which must exist.
Handle_S_AddObject(c, p) ==
  LET new == (DOMAIN p.objects \cap (1..MaxPlayerId \cup MonsterIds)) \ {c.my}
  IN IF c.scene # "game" THEN c
     ELSE IF c.my = NoPlayer /\ DOMAIN p.objects \cap 1..MaxPlayerId # {}
       THEN Crashed(c)
     ELSE [c EXCEPT !.copies = [id \in DOMAIN @ \cup new |->
             (IF id \in DOMAIN @ THEN @[id] ELSE <<>>)
             \o (IF id \in new THEN <<p.objects[id]>> ELSE <<>>)]]

\* Scene::GetActor returns the first actor with the id and falls off its end
\* if there is none.  There is no test for the scene.
Handle_S_RemoveObject(c, p) ==
  IF p.id \notin DOMAIN c.copies THEN Crashed(c)
  ELSE IF Len(c.copies[p.id]) = 1 THEN [c EXCEPT !.copies = Erase(@, p.id)]
  ELSE [c EXCEPT !.copies[p.id] = Tail(@)]

Handle_S_Move(c, p) ==
  IF c.scene # "game" \/ c.my = p.id THEN c
  ELSE IF c.my = NoPlayer \/ p.id \notin DOMAIN c.copies THEN Crashed(c)
  ELSE [c EXCEPT !.copies[p.id][1] = p.info]

HandlePacket(c, p) ==
  CASE p.type = "S_EnterGame"    -> c
    [] p.type = "S_MyPlayer"     -> Handle_S_MyPlayer(c, p)
    [] p.type = "S_AddObject"    -> Handle_S_AddObject(c, p)
    [] p.type = "S_RemoveObject" -> Handle_S_RemoveObject(c, p)
    [] p.type = "S_Move"         -> Handle_S_Move(c, p)

\* NetworkManager::Update.
Dispatch(s) ==
  /\ ~client[s].undefined
  /\ toClient[s] # <<>>
  /\ toClient' = [toClient EXCEPT ![s] = Tail(@)]
  /\ client' = [client EXCEPT ![s] = HandlePacket(@, Head(toClient[s]))]
  /\ UNCHANGED <<sessionVars, roomVars, loopVars, toServer, changes, sent>>

-----------------------------------------------------------------------------
(* The player in the scene.                                                *)

Playing(s) ==
  ~client[s].undefined /\ client[s].scene = "game" /\ client[s].my # NoPlayer

\* What SyncToServer sends while the flag is set.
SyncToServer(s, i, dirty) ==
  IF dirty
    THEN /\ sent' = [sent EXCEPT ![s] = i]
         /\ toServer' = IF conn[s] = "connected"
              THEN [toServer EXCEPT ![s] = Append(@, [id |-> client[s].my, info |-> i])]
              ELSE toServer
    ELSE UNCHANGED <<sent, toServer>>

\* Mutation: the report is made before the state machine runs.
Tick_SendsOld(s) ==
  /\ Playing(s)
  /\ \E i \in Infos, setDir \in BOOLEAN :
       LET own == client[s].own
           dirty == i.state # own.state \/ setDir
       IN /\ changes' = changes + (IF i # own \/ setDir THEN 1 ELSE 0)
          /\ changes' <= MaxChanges
          /\ client' = [client EXCEPT ![s].own = i, ![s].dirty = dirty]
          /\ IF dirty
               THEN /\ sent' = [sent EXCEPT ![s] = i]
                    /\ toServer' = [toServer EXCEPT
                         ![s] = Append(@, [id |-> client[s].my, info |-> own])]
               ELSE UNCHANGED <<sent, toServer>>
  /\ UNCHANGED <<sessionVars, roomVars, loopVars, toClient>>

\* SceneManager::Update: GameObject::Tick clears the flag, the state machine
\* may change the player, SetState (to another state) and SetDir set the flag,
\* gravity moves the player without it.
Tick(s) ==
  /\ Playing(s)
  /\ \E i \in Infos, setDir \in BOOLEAN :
       LET own == client[s].own
           dirty == i.state # own.state \/ setDir
       IN /\ changes' = changes + (IF i # own \/ setDir THEN 1 ELSE 0)
          /\ changes' <= MaxChanges
          /\ client' = [client EXCEPT ![s].own = i, ![s].dirty = dirty]
          /\ SyncToServer(s, i, dirty)
  /\ UNCHANGED <<sessionVars, roomVars, loopVars, toClient>>

\* CollisionManager::Update: an overlap pushes the player back, lands it or
\* hurts it.
Collide(s) ==
  /\ Playing(s)
  /\ changes < MaxChanges
  /\ changes' = changes + 1
  /\ \E i \in Infos \ {client[s].own} :
       client' = [client EXCEPT ![s].own = i,
                                ![s].dirty = @ \/ i.state # client[s].own.state]
  /\ UNCHANGED <<sessionVars, roomVars, loopVars, toClient, toServer, sent>>

\* SceneManager::ChangeScene deletes the scene and every actor in it.
ChangeScene(s) ==
  /\ "leave" \in ClientEvents
  /\ ~client[s].undefined
  /\ client' = [client EXCEPT ![s] =
       [NewScene EXCEPT !.scene = IF client[s].scene = "game" THEN "other" ELSE "game"]]
  /\ UNCHANGED <<vars, sent>>

\* Creature::OnDamaged takes the last health of a monster.
Kill(s, m) ==
  /\ "kill" \in ClientEvents
  /\ Playing(s)
  /\ m \in DOMAIN client[s].copies
  /\ client' = [client EXCEPT ![s].copies[m][1].state = Dead]
  /\ UNCHANGED <<vars, sent>>

\* TickDead removes the monster when its time has passed.
TickDead(s, m) ==
  /\ Playing(s)
  /\ m \in DOMAIN client[s].copies /\ client[s].copies[m][1].state = Dead
  /\ client' = [client EXCEPT ![s].copies = Erase(@, m)]
  /\ UNCHANGED <<vars, sent>>

Client(s) ==
  \/ Dispatch(s) \/ Tick(s) \/ Collide(s) \/ ChangeScene(s)
  \/ \E m \in MonsterIds : Kill(s, m) \/ TickDead(s, m)

RNext ==
  \/ (Server \/ Network) /\ UNCHANGED <<client, sent>>
  \/ \E s \in Sessions : Client(s)

RSpec == RInit /\ [][RNext]_rvars

\* What a report of s to t needs: the main loop runs, the completion queue is
\* first in, first out, so a completion of s that waits is dispatched although
\* others keep arriving, its packets travel while the connection stands, and t
\* goes on running its frames.  Nothing is asked of the frames of s.
ReportFairness(s, t) ==
  /\ WF_rvars(Server /\ UNCHANGED <<client, sent>>)
  /\ SF_rvars((ProcessRecv(s) \/ RecvZero(s)) /\ UNCHANGED <<client, sent>>)
  /\ WF_rvars(Arrive(s) /\ UNCHANGED <<client, sent>>)
  /\ WF_rvars(Dispatch(t))

-----------------------------------------------------------------------------
InRoom(s) == conn[s] = "connected" /\ player[s] \in DOMAIN players

\* ClientPacketHandler.cpp:60-186, Scene.cpp:90-100: no packet makes a client
\* use an actor or a player it does not have.
ClientDefined == \A s \in Sessions : ~client[s].undefined

\* ClientPacketHandler.cpp:85-87: a client has one actor for an object, and no
\* second one for its own player.
NoDuplicateActor ==
  \A s \in Sessions :
    /\ client[s].my \notin DOMAIN client[s].copies
    /\ \A id \in DOMAIN client[s].copies : Len(client[s].copies[id]) = 1

\* GameRoom.cpp:42-157, 178-199: the packets on their way to a client are what
\* is missing from its scene: once handled, it shows its own player, and one
\* copy of every other object of the room, as the room has recorded it.
ToldTheRoom ==
  loop = "Dispatch" =>
    \A s \in Sessions : InRoom(s) =>
      LET c == Seqs!FoldLeft(HandlePacket, client[s], toClient[s])
      IN /\ c.my = player[s]
         /\ c.copies = [id \in (DOMAIN players \cup monsters) \ {player[s]} |->
                          <<info[id]>>]

\* MyPlayer.cpp:350-357 to ClientPacketHandler.cpp:176-184: what a client last
\* reported of its player is what every other client shows of it, when nothing
\* is on its way.
ReportsReachAll ==
  /\ loop = "Dispatch"
  /\ \A s \in Sessions : toClient[s] = <<>> /\ toServer[s] = <<>> /\ arrived[s] = <<>>
  => \A s, t \in Sessions :
       s # t /\ InRoom(s) /\ InRoom(t) => client[t].copies[player[s]] = <<sent[s]>>

\* The same as a promise of s to t: a client that shows something else catches
\* up once the other stops reporting, or one of the two leaves.
ReportShown(s, t) ==
  LET Shown == /\ player[s] \in DOMAIN client[t].copies
               /\ client[t].copies[player[s]] = <<sent[s]>>
  IN InRoom(s) /\ InRoom(t) ~> Shown \/ ~InRoom(s) \/ ~InRoom(t)

\* GameObject.cpp:136-155: a state change is reported.  Once its player's flag
\* is clear and its reports have been handled, the room knows the client's state.
StateReported ==
  \A s \in Sessions :
    /\ loop = "Dispatch" /\ InRoom(s) /\ Playing(s)
    /\ ~client[s].dirty /\ toServer[s] = <<>> /\ arrived[s] = <<>>
    => info[player[s]].state = client[s].own.state

\* GameRoom.cpp:51-55: a client starts with the player the server made.
SpawnAgrees ==
  \A s \in Sessions :
    Playing(s) /\ changes = 0 => client[s].own = info[player[s]]

\* BrokenCopyMachine.cpp:121-147: a dead monster is removed.
DeadStaysDead ==
  [][\A s \in Sessions : \A m \in DOMAIN client[s].copies :
       client[s].copies[m][1].state = Dead /\ m \in DOMAIN client'[s].copies
         => client'[s].copies[m][1].state = Dead]_rvars
=============================================================================
