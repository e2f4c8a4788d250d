# B1A2 project in TLA+

A verification project for the B1A2 game: a C++ client (`B1A2_project1`), an
authoritative game server (`Server`), the IOCP network library both link
(`ServerCore`) and a load client (`DummyClient`), all under
`src/B1A2_project2/`. The modules here are translated from the code; paths
below are relative to that directory.

## The system

```
 B1A2_project1 (client)                          Server
 Game::Update, one thread                        main loop, one thread
   InputManager, TimeManager                       IocpCore::Dispatch (blocks)
   SceneManager -> Scene -> actors                 TimeManager::Update
   CollisionManager, DialogueManager               GRoom->Update
   NetworkManager::Update                             GameSession callbacks,
     IocpCore::Dispatch(0)                            GameRoom, GameObjects
        |                                                 |
        +---- ServerCore: Service, Listener, Session -----+
              IOCP events, send queue, RecvBuffer, packets
```

The server and the client each drive `IocpCore::Dispatch` from one thread;
`DummyClient` drives it from five threads, and `ServerCore` is written for that
(locks, atomics). Client and server exchange protobuf messages with a four-byte
header: `S_EnterGame`, `S_MyPlayer`, `S_AddObject`, `S_RemoveObject`, `S_Move`
one way and `C_Move` the other way.

| component | state | operations | what makes it correct |
|---|---|---|---|
| Session (`ServerCore/Session.cpp`) | `_connected`, `_sendQueue`, `_sendRegistered`, four `IocpEvent`s with their owners | Connect, Disconnect, Send, Register/Process of connect, disconnect, recv, send | one user of the send event; no null owner in Dispatch; one release per session; packets in order, none stranded |
| RecvBuffer and framing (`RecvBuffer.cpp`, `PacketSession::OnRecv`) | read and write cursors over one array | OnWrite, OnRead, Clean, the frame loop | a receive always has room; no overflow; frames are handed on whole, once, in order; the move to the front never overlaps |
| Listener and Service (`Listener.cpp`, `Service.cpp`) | accept events, session set and count | StartAccept, RegisterAccept, ProcessAccept, Start | every accept event is posted or being handled |
| Game server (`Server/GameRoom.cpp`, `GameSession.cpp`, `GameObject.cpp`) | `_players`, `_monsters`, sessions, id counter | EnterRoom, LeaveRoom, AddObject, RemoveObject, Broadcast, Handle_C_Move | the room holds exactly the live players; a broadcast survives a failing send; ids name what they claim to |
| Server monsters (`Server/BrokenCopyMachine.cpp`, `TiredOfficeWorker.cpp`) | state, wait counters | Update per state | state changes are broadcast once |
| Client replication (`B1A2_project1/ClientPacketHandler.cpp`, `NetworkManager.cpp`, `MyPlayer.cpp`) | actors by id in the current scene, dirty flag | Handle_S_..., SyncToServer | the client's scene converges to the room |
| Game loop, scenes, collision (`Game.cpp`, `SceneManager.cpp`, `Scene.cpp`, `CollisionManager.cpp`) | scenes, actors per layer, colliders | Update, AddActor, RemoveActor, ChangeScene | no actor or collider is used after its removal |
| Player (`Player.cpp`, `MyPlayer.cpp`, `Stat.cpp`) | state machine, health, skill points, contacts | Tick per state, OnBeginOverlap | health and skill stay in range; no state is a trap |
| Monsters and bosses (`BrokenCopyMachine`, `TiredOfficeWorker`, `AmateurFencer`, `CloseAtkMonster`, `LongAtkMonster`, `FinalBoss`, `BehaviorTree`) | state machines, timers, phase | Tick per state, damage | a phase is entered once; a dead monster stays dead |
| Stages and saving (`GameScene.cpp`, `ValueManager.cpp`) | stage, saved position and items | SetStage, SaveCurData, LoadGameData | loading restores what was saved |
| Dialogue (`DialogueManager.cpp`, `DialogueComponent.cpp`, `Dialogue.cpp`) | current dialogue, line, event count | Update, StartDialogue, EndDialogue | no index past the last line; a dialogue ends |
| Items, structures (`Inventory.cpp`, `Item*.cpp`, `LockedDoorAndKey.cpp`, `ZipLine.cpp`, `BreakingWall.cpp`, ...) | counts, equipment, switches | acquire, drop, use | an item is in one place |
| UI, rendering, resources, sound | widgets, assets | draw, load | not modelled: no protocol of its own |

What is hard: several threads in one session's handlers; completions that fail;
callbacks that re-enter (a `Send` that disconnects, inside a broadcast); a
room entered by a connection that died meanwhile; messages for objects the
client no longer has; actors removed while a frame iterates over them.

## Modules

| module | models | role |
|---|---|---|
| `Session` | `Session.cpp`, `IocpCore::Dispatch`, `Service::AddSession/ReleaseSession` | detailed specification, its properties and inductive invariant |
| `SendChannel` | what a session promises the code that calls `Send` | abstract specification, implemented by `Session` |
| `MCSession` | | worker symmetry for TLC |
| `SessionProofs` | | theorems about `Session` |
| `RecvBuffer` | `RecvBuffer.cpp`, `RegisterRecv`/`ProcessRecv`, `PacketSession::OnRecv` | detailed specification |
| `PacketStream` | what the receive path promises `OnRecvPacket` | abstract specification, implemented by `RecvBuffer` |
| `GameRoom` | `Server.cpp`, `GameSession.cpp`, `GameRoom.cpp` | the server as one thread; the network is its environment |
| `MCGameRoom` | | symmetry of the sessions |
| `GameRoomProofs` | | theorems about `GameRoom` and `Replication` |
| `Replication` | `ClientPacketHandler.cpp`, `NetworkManager`, `MyPlayer::SyncToServer`, the frame of `Game::Update` | extends `GameRoom`: its clients are real programs here |
| `MCReplication` | | what an object's information can be, symmetry |
| `Listener` | `Listener.cpp`, `ServerService::Start`, the start of `Server.cpp` | the accepts of the server |
| `ServerCoreProofs` | | theorems about `RecvBuffer` and `Listener` |
| `PlayerState` | `Player.cpp`, `MyPlayer.cpp`, `GameObject::SetState` | the state machine of the player one owns, beside copies of others |
| `PlayerStateProofs` | | theorems about `PlayerState` |
| `FinalBoss` | `FinalBoss.cpp`, `BehaviorTree.cpp` | the last boss and the tree that drives it |
| `MCFinalBoss` | | the levels of health at which a crystal phase is due |
| `FinalBossProofs` | | theorems about `FinalBoss` |
| `Contacts` | `CollisionManager.cpp`, the overlap callbacks of `Player` and `Slashwave`, `Scene::RemoveActor` | the collision pass over a list its callbacks shorten |
| `ContactsProofs` | | theorems about `Contacts` |
| `Dialogue` | `DialogueManager.cpp`, `DialogueComponent.cpp` | lines, typing, walks, the end |
| `MCDialogue` | | every script of up to four lines |
| `DialogueProofs` | | theorems about `Dialogue` |
| `Stages` | `GameScene.cpp` (stages, save, load), `TitleScene.cpp`, `SettingScene.cpp` | stages, the save file, death and revival |
| `MCStages` | | the monsters of each stage |
| `StagesProofs` | | theorems about `Stages` |

How they fit: `Listener` hands a session to `Session` (`ProcessAccept` there is
the step in which the session appears). `Session` implements `SendChannel` and
`RecvBuffer` implements `PacketStream`; `GameRoom` relies on exactly these two
promises (packets leave in the order of the `Send` calls, arrive whole, once,
in order) and on the session being disconnected once. `Replication` composes
`GameRoom` with its clients by sharing `toClient` and `toServer`. The modules of
the client's game stand on their own: `Replication` sees of them what the
network does (a state, a position, a change of scene), and each of them takes
what the others decide (where things are, who hits whom) as a choice of the
frame.

### Session

A worker is a thread inside `IocpCore::Dispatch`. Its stack on one session is
`handler` (a `Process...` function, or the callback it runs), `sender`
(`RegisterSend`) and `closer` (`Disconnect`); the innermost frame runs. A step
is what the code does between two points where another thread can be seen: one
atomic exchange, one locked block, one system call. `owner[e]` and `io[e]`
follow the four `IocpEvent`s; the socket and the kernel are the environment.
`sent` and `accepted` are history variables. The callbacks of the session, and
handlers of other sessions that call `Send` on it, are abstracted to "may call
`Send`". The asserts of the code are evaluated (Debug build) unless `NDebug`.

### RecvBuffer

`readPos`, `writePos` and the array are the fields of `RecvBuffer`; a byte is
its place in the stream the peer wrote, so a byte that is lost, doubled or
moved shows. `phase` is where the receive is: posted, completed, inside the
loop of `OnRecv` (with its `processLen`), or between. `Clean` is part of the
step that calls it, with the copy byte by byte. `packets` maps the first byte
of each packet to its size; `handed` counts what `OnRecvPacket` was given. The
peer's packets obey the protocol (the header tells the size).

### GameRoom

`loop` is the function the server's one thread is in. Only the network moves
between two steps of a function, so a step runs up to the next `Broadcast` or
return. `Broadcast` is one step: its `Send`s have no other thread to meet, but
one that is reset at once runs `Disconnect`, `OnDisconnected` and `LeaveRoom`
inside the loop, which is what `undefined` is for. `players` maps ids to
sessions, or to `NoSession` for a null entry, which `FindObject` can make.
`Faults` names how a connection may break besides an orderly close:
`"immediate"` (`WSASend` returns a reset) and `"sendFailed"` (a posted send
completes with an error while the receive is still posted). A monster's own
state machine is abstracted to "may change its state and broadcast it".

### Replication

`client[s]` is one client: whether the current scene is the game, the id and
the information of its own player with the dirty flag, and `copies`, the actors
by id, each id with the sequence of the actors that carry it (there should be
one). `undefined` marks a client that used a null player or the result of
`GetActor` for an unknown id. The three parts of a frame (`Tick`, `Collide`,
`Dispatch`) are actions of their own. `ClientEvents` lets a player leave the
scene or kill a monster. `sent` is history: the last report.

### Listener

A worker that dequeued an accept event has it in `handler` with the function it
runs in `step`. A session is a number in the order of `CreateSession`; the
sessions held by the accept events, those in the service and the clients at
their other ends are three separate pieces of state. A failing call may fail
`MaxFailures` times. An accept event's old session is destroyed, and its client
closed, when `RegisterAccept` replaces it and the service does not hold it.

### PlayerState

`me` is the player one owns, `other` the state of each copy. `shared` holds the
static variables of the `Tick` functions: every player of the process has the
same ones. `turn` follows `Game::Update`: my player ticks (the handler of its
state, then colliders, window and ground), then the copies in any order, then
the callbacks of the collision pass, then the `S_Move` packets. `timer` and
`frame` count frames up to `Span`; where the player is and what he meets is a
choice. `observed` says whether the two observers were set: a call of an empty
`std::function` throws (`threw`) and ends the process. The disjuncts of a
handler are its `if` and `else if` branches in their order.

### FinalBoss

One action per behaviour. The root selector tries its children in order: `at`
is the last child that ran, `Runs(s)` the child whose condition holds now (a
behaviour may change the state and so make a later child's condition true), and
`Returns` ends the run on success or running and goes on after a failure.
Four behaviours leave a path without a `return`; there every result is possible
(`NoReturn`). `TickBegins` and `TickEnds` are the rest of `Tick`: the creation
of monsters and the return to IDLE. Health is counted in levels, time in frames.

### Contacts

`list` is `CollisionManager::_colliders` in its order; `i`, `j` and `src` are
the locals of its two loops, `map` the contact maps of the colliders. One
action is one check of a pair with the callback it runs, so a callback that
deletes an actor (`RemoveActor`) shortens the list under the loop. Only the
earlier of a pair is asked for its flags and its map. `Tick`, `Enter` and
`Remove` are what happens between two passes. `told`, `touched` and `erased`
are history.

### Dialogue

`event`, `line`, `talking`, `walking` and `current` are the manager's fields,
`comp` the components. A frame is two steps: the scene ticks the components
(unless the menu is open), then the manager reads mouse and keyboard. A line is
its speaker, the length of its speech and the distance of its walk.
`DialogueAssumption` is what every line of the script the game loads is like.
`crashed` marks an index out of its range.

### Stages

`scene` is the `GameScene` (`None` in the title and the settings), with the
stage, the ids of the dead, the map from ids to `Monster*` (`monsters[m]` tells
whether the pointer is set), the monsters there are (`field`), and the change
of stage that waits for the next frame. `file` is the save, the list of numbers
that `Written` puts there and `Loaded` takes apart. `saved` and `killed` are
history.

## Runs

| run | configuration | what it shows | states, about |
|---|---|---|---|
| `session` | 2 workers, 3 packets, accepted or connecting session, the connection may be refused | exclusion on the send event, owners, release, order (the refinement of `SendChannel`), no stranded packet, the send flag always with somebody to clear it; a closed session is dropped | 6 800 |
| `recv_buffer` | 3 buffers of 5 bytes, packets of 2 and 4, 14 bytes | room, disjoint moves, framing (the refinement of `PacketStream`), delivery | 130 000 |
| `listener` | 2 accept events, 2 workers, 3 clients, 2 failures | no event or session is lost or shared; clients are served | 116 000 |
| `replication` | 2 clients, 1 monster, 1 change, orderly closes, fairness | the room is the connected players, nothing undefined; clients show the room; a report is shown | 343 000 |
| `replica_faults` | all faults, all client events, no reports | what survives them | 250 000 |
| `player` | my player, one copy, 2 points of health, timers of 2 frames | death, colliders, revival; control comes back | 1 134 000 |
| `final_boss` | 4 levels, a level for each phase, volleys of 2 | one behaviour a run, the first two phases at most once and the third never, a phase lasts its time or is lost in its first frame, no behaviour for ever | 480 000 |
| `contacts` | own player, a copy, a monster, an item, a projectile | no deleted collider is used, events are the contacts, items are taken once and in reach | 659 000 |
| `dialogue` | every script of up to 4 lines of 5 kinds | no index out of range, lines in full, dialogues end | 23 700 |
| `stages` | 2 stages, 3 monsters, 2 items | the save's stage, no dangling monster, continue restores the stage, the player and the unhurt monsters | 2 879 000 |
| `room_broadcast` | a send that is reset at once | a counterexample, see Findings | |
| `saved_health` | 2 stages, 3 monsters, 2 items | a counterexample, see Findings | |

A run checks what could go wrong in the code. The type invariants (`TypeOK` of
each module, `LTypeOK` in `Listener`) hold in the same instances; all are proved,
and no run spends time on them. Add `TypeOK` to a configuration to check it there.

Bounds. Two workers are enough for every pair of handlers to overlap; a third
would repeat a pair, since the exclusion is between two users of one event.
Three packets let one batch be in flight while two are queued, so that a drain
takes more than one. Three buffers with the largest packet the sizes allow, and
a stream that makes `Clean` move with each possible rest, cover both branches
at every cursor. Two sessions and one monster make every kind of entry and a
receiver besides the actor; ids up to two cover the last id a player can have.
Two accept events and three clients make a client wait for an event to be
registered again. Queues of packets are bounded by `MaxChanges`, the number of
reports and monster changes; `replica_faults` has none, since what is left open
there, a report handled after its session was closed, is in `RoomNull.cfg` and, for
any number of reports, in the theorems on `GameRoom`. In `player` a hit takes half of the health, so that
it takes one state with some health left and one without; two frames tell the
first from the last frame of a timer. A boss of four levels has a level above
the phases and one for each, and crystal phases of three frames outlast a volley.
In `contacts` one actor of each class is enough for a pair of every kind, and a
copy for two players at one item. A dialogue of four lines has a first, a last
and two that follow each other. Two stages make a change and a last one; a
stage with two monsters has one dead and one alive. `CHECK_DEADLOCK FALSE`
stands where the system comes to rest when its environment has used its bounds.

Fairness. Threads run: weak fairness of a worker's next step. The kernel
completes an operation that can complete: weak fairness of completions
(a receive at a living peer is not one of these). A completion port is first
in, first out, so a completion that waits is dispatched although others keep
arriving: strong fairness of the dispatch of each kind. Packets travel while
the connection stands, and a client's frames go on: weak fairness of `Arrive`
and of the client's `Dispatch`. No fairness is assumed of players, of
`C_Move`, of failures or of disconnects. On the client, frames go on: weak
fairness of `Frame` (the game loop) in `PlayerState` and `FinalBoss`.
`ControlReturns` assumes in its own statement that nothing strikes the player
any more. In `Dialogue` frames go on, the menu is closed again and again (strong fairness
of the components' ticks) and the player clicks again and again (strong
fairness of a click): without these no line would end.

## Findings

Two runs end in a violation. In `room_broadcast` a `Send` inside `Broadcast` that
is reset erases the map entry the loop stands on (`Server/GameRoom.cpp:161`). In
`saved_health` a monster was hurt before the save and is unhurt after Continue: a
comment (`GameScene.cpp:2241`) says its health is looked up and set when the stage
is loaded, but `LoadGameData` forgets the number and the stage makes every living
monster anew. `ContinueRestores` states what the code does give back.

Further configurations lie beside the runs; each gives a counterexample to the
one property it names:

| command | shows |
|---|---|
| `tlc -config SessionRefused.cfg MCSession` | a refused `ConnectEx` is handled as a connection (`IocpCore.cpp:43`) |
| `tlc -config SessionNDebug.cfg MCSession` | with NDEBUG a session is never erased: the erase is inside an assert (`Service.cpp:42`) |
| `tlc -config RoomNull.cfg MCGameRoom` | `FindObject` asks with `_players[id]`: a `C_Move` handled after its session left puts a null player in the room (`GameRoom.cpp:171`) |
| `tlc -config RoomGhost.cfg MCGameRoom` | a client gone at its first packet leaves a player nobody removes (`GameSession.cpp:11`) |
| `tlc -config RoomIds.cfg MCGameRoom` | a player after the hundredth is filed as a monster (`GameRoom.cpp:103`) |
| `tlc -config ReplicaState.cfg MCReplication` | a state set by a collision callback is never reported: the next `Tick` clears the dirty flag first (`GameObject.cpp:22`) |
| `tlc -config ReplicaScene.cfg MCReplication` | packets that arrive after the game scene was rebuilt find no player (`ClientPacketHandler.cpp:86`) |
| `tlc -config ReplicaDead.cfg MCReplication` | a monster killed on a client is revived by the next `S_Move` (`ClientPacketHandler.cpp:182`) |
| `tlc -config ZipLine.cfg PlayerState` | a ride that was left in the middle makes the next one start in the middle: the static `isMoving` stays (`Player.cpp:402`; line 415 says it starts where the line begins) |
| `tlc -config BossDead.cfg MCFinalBoss` | a boss killed in the frame in which he cannot act is sent back to IDLE with no health (`FinalBoss.cpp:234`, against the comment at 308) |
| `tlc -config PhaseLost.cfg MCFinalBoss` | a crystal phase that `Hit` begins in the frame in which the monsters are due is sent back to IDLE before a crystal stood, and is marked as done (`FinalBoss.cpp:225`-234) |
| `tlc -config CloseRange.cfg Contacts` | with a monster in range the attack may be the long one (`Player.cpp:1058`) |
| `tlc -config FKey.cfg Contacts` | the F key of an item is shown for another client's player (`Player.cpp:668`) |
| `tlc -config LateEntry.cfg Contacts` | a player who enters after a projectile holds a place behind it in the list, and the pass goes on with the deleted projectile (`CollisionManager.cpp:61`) |
| `tlc -config ContactReuse.cfg Contacts` | a collider allocated where one was deleted inherits its contacts (`CollisionManager.cpp:56`) |
| `tlc -config SkipTyping.cfg MCDialogue` | Tab while a line is typed: the actor's next line is typed from the middle (`DialogueComponent.cpp:39`) |
| `tlc -config SkipWalk.cfg MCDialogue` | Tab leaves a count or a walk behind, and the next line indexes past the end (`DialogueManager.cpp:56`) |
| `tlc -config KilledAgain.cfg MCStages` | a monster is killed, the player dies and loads a save made before that: the load forgets the death, the next save does not record it, and a continue meets the monster again (`GameScene.cpp:2157`) |
| `tlc -config PlayerReset.cfg MCStages` | after a continue every change of stage restores the loaded player (`GameScene.cpp:1815`) |
| `tlc -config StageTwice.cfg MCStages` | the second change of stage deletes the actors of the first again (`GameScene.cpp:1842`) |

A client puts its own player at (x, x) (`ClientPacketHandler.cpp:148`):
`SpawnAgrees` of `Replication` is violated under `Replication.cfg` once
`SpawnInfo` is `Above` there.

With NDEBUG the server never starts, since the call stands in an assert
(`assert(service->Start())`, `Server.cpp:35`): with `NDebug = TRUE` and the
invariant `RunsStarted` in `Listener.cfg`, TLC finds the main loop running
without a listening socket.

The boss's third crystal phase is dead code: `Hit` begins it on
`_isThirdCrystalCreationWork` without the negation of the two before
(`FinalBoss.cpp:613`), and only that branch sets the flag, though `CrystalCreation`
has a case for it. `PhasesOnce` says so: `phases[3] = 0`.

## Proofs

`SessionProofs` shows, for any set of workers, any number of packets and every
choice of the environment's errors, `TypeOK`, `SingleSend`, `NoEmptySend`,
`OwnerHeld`, `ReleaseOnce` and `FlagHasSender`. The inductive invariant `IInv` (in `Session`,
checked by TLC first) adds to the types what the properties leave open:
`SendPath` says which worker, event or call holds the send event while
`_sendRegistered` is set, and which owner it has; `Lifetime` ties the release
count to the passage of `_connected` and to the session's place in the service.
The lemmas `TypeStep`, `SendPathStep` and `LifetimeStep` preserve a part each,
with a step per action; `FlagStep` adds `FlagHasSender`, inductive relative to
`IInv`. `NoStrandedPacket` and `ReceiveArmed` hold only when a
failed call is a reset; their strengthening `QInv` is inductive relative to
`IInv` under that assumption (`QuietService`).

`ServerCoreProofs` shows of `RecvBuffer`, for every buffer size, buffer count and set of packet
sizes the assumptions allow, `TypeOK`, `RoomToReceive`, `ReadWithinData`,
`BufferFaithful` and `MoveIsDisjoint`, and that `RecvBuffer` implements
`PacketStream`. Its invariant is the conjunction of the properties with
`CursorBounds` and `StreamShape` (which bytes begin packets).

It shows of `Listener`, for any accept events, workers, clients and failures,
`LTypeOK`, `EventHeld` and `SessionsApart`. `EventHeld` counts workers, and is
not inductive as it stands: `HeldByOne` says who holds a handled event and that
nobody else does, `Shapes` what the worker in each function holds and that
sessions are numbered by `made`, `PostedWithSession` that a posted accept has one.

`GameRoomProofs` shows, for any sessions, monsters, ids and contents of packets:
`TypeOK` and `LivePlayersStay` however connections break, and, when they end in
order (`Faults = {}`), `RoomIsSessions`, `NoNullPlayer`, `NoUndefined` and
`MonstersAreMonsters`; all but `TypeOK` while `IdsLast`, that is until the id
after the last player's has been given (`RoomIds.cfg` shows what comes then).
The inductive invariant `IInv` adds to the types `IdsGiven` (an id is given
once, to the session being entered) and `LiveEntered` (a connected session is
in the room unless `EnterRoom` or `AddObject` is at work for it). `Orderly`
adds what an orderly end keeps: a posted receive belongs to a connected
session, and the ids in packets under way are the sender's own, so that
`FindObject` finds them.

`KeepsTheChannel` is the refinement of `SendChannel`, for any workers, packets
and errors. The packets that wait are those of a batch before its `WSASend` and
those of the queue (`Waiting`), the channel is open while the session is
connected (`IsOpen`). `RInv`, inductive relative to `IInv`, adds what the
mapping needs: `Emptied` (no buffers outside a send, so that a drain is no step
of the channel) and `SockLife` (a socket the mapping calls open comes from a
connection that succeeded). `PrefixOff` says that the batch is the front of what
waits. An accepted batch is `Transmit`, a batch that fails otherwise than by a
reset loses its packets, `Disconnect` is `Break`, and every other step stutters.

`NothingUndefined` and `EveryoneStays` of `GameRoomProofs` remove the hypothesis
`IdsLast`: on a server that meets at most `MaxPlayerId` sessions it always
holds. The argument is a count: the ids given are `1 .. nextId - 1`, each is
held by a session of its own (`IdsHeld`), so there are no more of them than
sessions.

The same module goes on to `Replication`, for servers that meet at most
`MaxPlayerId` sessions. Its invariants speak of the places of the queue to a
client, and only the last argument of what a fold over the queue computes. First, what the clients'
programs do is to the room a step of `GameRoom` (`ClientsAreClients`; it needs
that a client reports under the id it was given, `Mine`), so `IInv`, `IdsLast`
and `Orderly` hold of `RSpec` as well and `EveryoneStaysInGame` follows. Then
four invariants, each inductive relative to those before it:

- `RInv`, whatever breaks and whatever the players do, gives `NoDuplicateActor`
  (`OneActorEach`): an id is added in one place of the queue, only while the
  client has no copy of it, and not before the room announces it (`AddedOnce`).
- `SInv`, while connections end in order and nobody leaves the game scene
  (`Faults = {}`, `ClientEvents = {}`), gives `ClientDefined`: nothing but the
  greeting comes before the client's own player (`Introduced`), an object is
  named only behind the place that adds it (`Known`) and never behind the one
  that removes it (`Parted`), a client in the room was told of every object in
  the game (`Whole`), and the packet in `Broadcast` keeps all that (`Sending`).
- `TInv`, under the same conditions, gives `ReportsReachAll`
  (`LastReportShown`): the last that a client will hear of an object is what the
  room has recorded, but for the one object the room is about to tell of
  (`UpToDate`, `Truthful`), and a client's last report is the last of the packets
  on its way, or of those that arrived, or recorded (`Reported`, `Emptied`).
- `VInv`, under the same conditions, gives `ToldTheRoom`
  (`PacketsTellTheRoom`): what a client was told of and is no longer in the game
  was removed behind the place that added it, or is about to be (`Ended`), and
  nobody entered the game unannounced (`Announced`).

`ToldTheRoom` speaks of what a client is once the packets on their way are
handled, a fold over a queue of any length. `FoldExists` and `PacketByPacket`
say that the fold takes one packet after the other; this is an induction over
the queue, and `FromZero` does it with a set in place of the predicate, since
well-foundedness speaks of sets where the library's induction theorems take an
operator. `After` says what the packets up to a place make of a client, copy by
copy: there if it was there or added and not removed since, showing the last
that was said of it. `AfterAll` proves it by the same induction, and the four
invariants, read at the end of the queue, make of it the room (`ShowsTheRoom`).

`ReplicaScene.cfg` shows a client that fails once `"leave"` is in `ClientEvents`.

`FinalBossProofs` shows, for any health, phase levels, times and volleys,
`TypeOK`, `OneBehaviourPerRun`, `PhasesOnce` and `PhaseEndsOrIsLost`. That the
selector runs one behaviour, though a behaviour changes the state the later
children ask for, is `SelectorPassed`: after the first the state belongs to a
child already passed. `PhasesMarked` ties the phases begun to those `worked`
marks, and says the third is never marked. `TimerInTime` bounds the timers.
`PhaseFrames` says what the monsters' timer and the crystals can be in a phase:
only in the frame in which `Hit` began it is the timer still running, and then no
time of the phase has passed and no crystal stands.

`PlayerStateProofs` shows, for any health, damages, healing and times, `TypeOK`,
`DeadWithoutHealth`, `CollidersFollowState` and `RevivedWhole`. The invariant is
`Typed` (the types, and that a flipbook never rests on its last frame, without
which the frame of a handler could leave its range) with the two properties,
which are inductive together: each handler is shown once to leave a player
that the rest of the frame keeps well (`TickMeHandled`, `HandledKeeps`), and the
step from DEAD to IDLE is followed through the same lemmas (`Revives`).

`DialogueProofs` shows, for every script of the shape `DialogueAssumption`
states and any actors, `TypeOK`, `NeverOutOfRange`, `TypedFromStart` and
`LinesInFull`, when nobody skips (`~Skips`: with Tab all but `TypeOK` are false,
see `SkipTyping.cfg` and `SkipWalk.cfg`). `Good` is a predicate of the manager's fields as one record, as its
operations are functions of such a record: the line is in the event and its
speaker is current, who walks has no words, the last line has words (`AtLine`),
and a component that waits has shown the whole speech (`Bubble`).

`ContactsProofs` shows, for any players, monsters, items and projectiles:
`TypeOK`, `TakenInReach` and `TakenOnce`; `NoFreedCollider` when no player
enters behind a projectile (`~LateEntry`); `EventsTellContacts` when no collider
gets the address of a deleted one (`~Reuse`). `LateEntry.cfg` and
`ContactReuse.cfg` show that neither holds without. `Placed` is inductive alone:
the list holds colliders of actors in the scene and the source of the inner loop
is at its index, though callbacks shorten the list. Relative to it, `WavesLast`
says that a projectile is never the source of the contact that removes it;
`Shown` that an item in a hand was told; `ToldSoFar` what the pass has come to: the
pairs checked are told as they touch, the others have not touched. `Removal`
and the lemmas after it say what taking a collider out of a list keeps in place.

`StagesProofs` shows, for any stages, monsters and items, `TypeOK`,
`SaveOfThisStage`, `NoDanglingMonster` and `ContinueRestores`. Half of it is the
save file: `LoadGameData` makes of the numbers `SaveCurData` wrote the inventory
and the monsters they were made of (`LoadedBack`). The file is a sequence
flattened from pairs, so this is an induction over the data; the library's
induction theorems take an operator, which the provers cannot instantiate, but
well-foundedness speaks of sets: `UpTo` takes the set of the numbers of which
something holds, and `FlattenPairs` finds with it what the fold of the community
modules computes, `FileLayout` where each number of the file is. The invariant
is `Well`, the types with what each place of the program may rely on (the
pointers a scene registered are monsters still in it), and `Kept`: a file there
is was written in the stage that is played.

What the proofs assume of constants is what the modules' `ASSUME`s state, with
the hypotheses named above: `Quiet`, `~Skips`, `~LateEntry`, `~Reuse`,
`Faults = {}`, `ClientEvents = {}` and the bound on sessions; each stands in the
theorem that needs it. `Stages` assumes that a stage has finitely many monsters
and items, numbered from 1 up, the items behind the monsters as the game's ids are.

Only model-checked. Liveness (`SessionReleased`, `PacketsArrive`,
`ClientsServed`, `FirstReportShown`, `ControlReturns`, `NeverStuck`,
`DialogueEnds`) is outside the prover's reach. Every invariant and every action
property of the passing runs is proved.

## Not modelled

Of the 704 702 lines under `src/` about 16 000 are this program's own; the rest
are the protobuf sources and headers (with their unit tests), FMOD and protoc's
output, which the program only calls. Of its own lines, more than a third load
pictures, lay out widgets or place objects of a level.

What the build as it stands reaches. The program is in the middle of a move
from a game for one to a client and a server, and parts of the client wait for
their other half: the registration of the player's observers is commented out
(`GameScene.cpp:102`), so that a hit on a player ends the process (`threw`);
`SetCurStageNum` is commented out in the first stage (1624), so that its NEXT
tile does nothing; `StartDialogue` is never called (118), no `Inventory` is
created, `TiredOfficeWorker::Tick` returns at once (91) and the client's
`BrokenCopyMachine` has its idle and attack commented out. The modules model the
classes as they are written, with their callers as the classes mean them.

Left out, with the reason:

- server monsters: `GameRoom` has "may change its state and broadcast it";
  `TiredOfficeWorker::Update` is empty, `BrokenCopyMachine` alternates between
  two states. Client monsters: see above.
- `AmateurFencer`, crystals, falling projectiles: timers and distances; the
  boss with the tree is the one whose parts interact.
- structures: a ride and an open window are in `PlayerState`; the rest are
  switches set by one overlap. `GameObject.cpp:101` falls from ON2 into READY.
- geometry, tiles and camera culling in the collision pass; `Scene::Update`'s
  copy of its actors (`Scene.cpp:72`); a scene left during a dialogue, which
  leaves `_currentComponent` behind; item 300100, which heals again at every
  new contact (`Player.cpp:944`); the tile colliders that `SetStage1` adds a
  second time (`GameScene.cpp:1689` and 126).
- a truncated save: the program starts without `_isContinue` and its first
  scene deletes the file (`GameScene.cpp:1554`), so no save outlives a process.
- the cycle of `shared_ptr` between `GameSession` and `Player`
  (`Server/Player.h:18`), and `RegisterAccept`'s unbounded recursion on lasting
  errors (`Listener.cpp:95`; the model bounds it by `MaxFailures`).
- a session that cannot be registered with the completion port, for which
  `CreateSession` returns null (`Service.cpp:26`); `RegisterAccept` dereferences the
  result without a test (`Listener.cpp:89`). In `GameRoom` the
  immediate error of `WSARecv` (`Session.cpp:159`), which `Session` has.
- health and damage of copies are not sent over the network.
- drawing, sound, resources, generated and vendored code: no protocol of their
  own. `DummyClient` is `Session` with more workers.

## Plan

The modules are complete for what is said above, and every safety property a
passing run checks is a theorem. What stays with the runs is liveness, for
which the prover has no rules, and what stays open is in "Not modelled".
