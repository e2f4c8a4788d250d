------------------------------ MODULE Contacts ------------------------------
(***************************************************************************)
(* The client's collision pass and what hangs on its events: the close     *)
(* attack, the items in reach, the projectile that removes itself.  A pass *)
(* goes over the live list of colliders while callbacks may shorten it,    *)
(* and only the earlier collider of a pair is asked whether it wants the   *)
(* contact and whether it already has it.  Between two passes actors tick  *)
(* and packets add and remove players.  Where things are is a choice of    *)
(* each check.  A collider is named by its actor; Detect(p) is the one a   *)
(* player holds before itself.  Contacts without a handler here (a body in *)
(* a detect collider, blows, tiles) are left out.                          *)
(***************************************************************************)
EXTENDS Integers, Sequences, FiniteSets

CONSTANTS
  Own, Copies,  \* the client's own player, those of other clients
  Monsters, Items,
  Waves,        \* projectiles of the kind Slashwave
  Nothing,
  LateEntry,    \* may a player enter while a projectile flies
  Reuse         \* may an allocation return the address of a deleted collider

Players == {Own} \cup Copies
Detect(p) == <<"detect", p>>
Detects == {Detect(p) : p \in Players}
Colliders == Players \cup Detects \cup Monsters \cup Items \cup Waves

ASSUME ContactsAssumption ==
  /\ Own \notin Copies /\ Nothing \notin Items /\ IsFiniteSet(Items)
  /\ {LateEntry, Reuse} \subseteq BOOLEAN
  /\ Players \cap (Monsters \cup Items \cup Waves) = {}
  /\ Monsters \cap (Items \cup Waves) = {} /\ Items \cap Waves = {}
  /\ Detects \cap (Players \cup Monsters \cup Items \cup Waves) = {}

VARIABLES
  actors,    \* the actors of the scene
  list,      \* CollisionManager::_colliders
  map,       \* map[c]: _collisionMap of c
  closeAtk,  \* players with _isCloseAtk
  hand,      \* hand[p]: _collideItem of p
  fkey,      \* items whose F key is shown
  owner,     \* owner[i]: who acquired item i, Nothing before
  skill,     \* players in SKILL_WAITING or SKILL_END
  step,      \* tick, pass, end or crashed
  i, j, src, \* the loops of Update
  told,      \* history: pairs whose owners were told a begin and no end
  touched,   \* history: pairs that touched in this pass
  erased     \* history: did this pass delete a collider

loops == <<step, i, j, src>>
player == <<closeAtk, hand, skill>>
item == <<fkey, owner>>
vars == <<actors, list, map, player, item, loops, told, touched, erased>>

\* Mutation: an acquired item keeps its layer.
Layer_Kept(c) ==
  CASE c \in Players  -> "PLAYER"
    [] c \in Detects  -> "DETECT"
    [] c \in Monsters -> "MONSTER"
    [] c \in Waves    -> "PROJECTILE"
    [] c \in Items    -> "ITEM"

Layer(c) ==
  CASE c \in Players  -> "PLAYER"
    [] c \in Detects  -> "DETECT"
    [] c \in Monsters -> "MONSTER"
    [] c \in Waves    -> "PROJECTILE"
    [] c \in Items    -> IF owner[c] = Nothing THEN "ITEM" ELSE "NONE"

Flags(c) ==
  CASE c \in Players  -> {"PROJECTILE", "ITEM"}
    [] c \in Detects  -> {"MONSTER"}
    [] c \in Monsters -> {}
    [] c \in Waves    -> {"PLAYER"}
    [] c \in Items    -> {"PLAYER"}

InList == {list[n] : n \in DOMAIN list}

\* What follows a removed collider moves up.
RemoveCollider(l, c) ==
  IF \A n \in DOMAIN l : l[n] # c THEN l
  ELSE LET k == CHOOSE n \in DOMAIN l : l[n] = c
       IN [n \in 1 .. Len(l) - 1 |-> IF n < k THEN l[n] ELSE l[n + 1]]

\* A removed collider stays in the maps of the others.  Its pointer matters
\* again only if an allocation gets that address.
Forget(m, cs) == [c \in Colliders |-> IF c \in cs THEN {} ELSE m[c] \ cs]
Dangle(m, cs) == [c \in Colliders |-> IF c \in cs THEN {} ELSE m[c]]
CollidersOf(c) == IF c \in Players THEN {c, Detect(c)} ELSE {c}
Untold(cs) == {t \in told : t \cap cs = {}}

\* The actor's destructor takes its colliders out of the list.
RemoveActor(c, m) ==
  /\ actors' = actors \ {c}
  /\ list' = IF c \in Players THEN RemoveCollider(RemoveCollider(list, c), Detect(c))
             ELSE RemoveCollider(list, c)
  /\ map' = IF Reuse THEN Dangle(m, CollidersOf(c)) ELSE Forget(m, CollidersOf(c))
  /\ told' = Untold(CollidersOf(c))

\* The items of the stage are there before anybody else.
Init ==
  /\ actors = Items
  /\ list \in {l \in [1 .. Cardinality(Items) -> Items] : \A a, b \in DOMAIN l : l[a] = l[b] => a = b}
  /\ map = [c \in Colliders |-> {}]
  /\ closeAtk = {} /\ hand = [p \in Players |-> Nothing] /\ skill = {}
  /\ fkey = {} /\ owner = [k \in Items |-> Nothing]
  /\ step = "tick" /\ i = 1 /\ j = 2 /\ src = Nothing
  /\ told = {} /\ touched = {} /\ erased = FALSE

-----------------------------------------------------------------------------
(* Between two passes: packets and ticks.                                  *)

\* S_MyPlayer and S_AddObject.  The others' handler asks for the own player.
Enter(c) ==
  /\ step = "tick" /\ c \notin actors
  /\ c # Own => Own \in actors
  /\ c \in Players => LateEntry \/ Waves \cap actors = {}
  /\ actors' = actors \cup {c} /\ list' = Append(list, c)
  /\ closeAtk' = closeAtk \ {c} /\ skill' = skill \ {c}
  /\ hand' = [p \in Players |-> IF p = c THEN Nothing ELSE hand[p]]
  /\ UNCHANGED <<map, item, loops, told, touched, erased>>

\* S_RemoveObject, a monster's TickDead, the end of a projectile's range.
Remove(c) ==
  /\ step = "tick" /\ c \in actors
  /\ RemoveActor(c, map)
  /\ UNCHANGED <<player, item, loops, touched, erased>>

\* TickCollideItem: the F key is read by every player, copies included.
TickCollideItem(p, pressed) ==
  IF pressed /\ hand[p] \in fkey
  THEN owner' = [owner EXCEPT ![hand[p]] = p] /\ fkey' = fkey \ {hand[p]}
  ELSE UNCHANGED item

\* TickColliderCreationAndRemove.  The collider is dropped and not freed.
TickDetect(p, skilled) ==
  LET d == Detect(p) IN
  \/ /\ skilled /\ d \in InList
     /\ list' = RemoveCollider(list, d) /\ map' = Forget(map, {d}) /\ told' = Untold({d})
  \/ /\ ~skilled /\ d \notin InList
     /\ list' = Append(list, d) /\ UNCHANGED <<map, told>>
  \/ /\ skilled <=> d \notin InList
     /\ UNCHANGED <<list, map, told>>

Tick(p) ==
  /\ step = "tick" /\ p \in actors
  /\ \E skilled, pressed \in BOOLEAN :
       /\ skill' = IF skilled THEN skill \cup {p} ELSE skill \ {p}
       /\ TickCollideItem(p, pressed)
       /\ TickDetect(p, skilled)
  /\ UNCHANGED <<actors, closeAtk, hand, loops, touched, erased>>

-----------------------------------------------------------------------------
(* CollisionManager::Update.                                               *)

Update ==
  /\ step = "tick" /\ list # << >>
  /\ step' = "pass" /\ i' = 1 /\ j' = 2 /\ src' = list[1]
  /\ UNCHANGED <<actors, list, map, player, item, told, touched, erased>>

NextSource ==
  /\ step = "pass" /\ j > Len(list)
  /\ IF i < Len(list)
     THEN i' = i + 1 /\ j' = i + 2 /\ src' = list[i + 1] /\ UNCHANGED step
     ELSE step' = "end" /\ i' = 1 /\ j' = 2 /\ src' = Nothing
  /\ UNCHANGED <<actors, list, map, player, item, told, touched, erased>>

Dest == list[j]
Pair == {src, Dest}
At(A, B) == Pair \cap A # {} /\ Pair \cap B # {}
TheOne(A) == CHOOSE c \in Pair : c \in A

Checks == step = "pass" /\ j <= Len(list)
Collides == Layer(Dest) \in Flags(src)
Known == Dest \in map[src]

Advance == j' = j + 1 /\ UNCHANGED <<step, i, src>>
Touches == touched' = touched \cup {Pair}

Inserted == [map EXCEPT ![src] = @ \cup {Dest}, ![Dest] = @ \cup {src}]

Begins ==
  /\ Checks /\ Collides /\ ~Known
  /\ map' = Inserted /\ told' = told \cup {Pair}
  /\ Touches /\ Advance
  /\ UNCHANGED <<actors, list, skill, owner, erased>>

BeginItem ==
  /\ Begins /\ At(Items, Players)
  /\ LET k == TheOne(Items) p == TheOne(Players) IN
       IF Layer(k) = "ITEM"
       THEN fkey' = fkey \cup {k} /\ hand' = [hand EXCEPT ![p] = k]
       ELSE UNCHANGED <<fkey, hand>>
  /\ UNCHANGED closeAtk

BeginDetect ==
  /\ Begins /\ At(Detects, Monsters)
  /\ closeAtk' = closeAtk \cup {TheOne(Detects)[2]}
  /\ UNCHANGED <<hand, fkey>>

\* Mutation: the destructor leaves the collider in the manager's list.
BeginWave_KeepsCollider ==
  /\ Checks /\ Collides /\ ~Known /\ At(Waves, Players)
  /\ actors' = actors \ {TheOne(Waves)}
  /\ map' = Inserted /\ told' = told \cup {Pair}
  /\ Touches /\ Advance
  /\ UNCHANGED <<list, player, item, erased>>

\* The projectile's callback deletes it.  If it is the source, Update goes on
\* with a deleted collider; if not, the next collider takes its place.
BeginWave ==
  /\ Checks /\ Collides /\ ~Known /\ At(Waves, Players)
  /\ RemoveActor(TheOne(Waves), Inserted)
  /\ Touches /\ erased' = TRUE
  /\ step' = IF src \in Waves THEN "crashed" ELSE step
  /\ j' = j + 1
  /\ UNCHANGED <<player, item, i, src>>

Overlapping ==
  /\ Checks /\ Collides /\ Known
  /\ Touches /\ Advance
  /\ UNCHANGED <<actors, list, map, player, item, told, erased>>

\* Mutation: only the second collider forgets the contact.
End_KeepsSource ==
  /\ Checks /\ Known
  /\ IF At(Items, Players)
     THEN fkey' = fkey \ {TheOne(Items)} /\ hand' = [hand EXCEPT ![TheOne(Players)] = Nothing]
     ELSE UNCHANGED <<fkey, hand>>
  /\ closeAtk' = IF At(Detects, Monsters) THEN closeAtk \ {TheOne(Detects)[2]} ELSE closeAtk
  /\ map' = [map EXCEPT ![Dest] = @ \ {src}]
  /\ told' = told \ {Pair}
  /\ Advance
  /\ UNCHANGED <<actors, list, skill, owner, touched, erased>>

\* Mutation: the player keeps the item it has left.
End_KeepsItem ==
  /\ Checks /\ Known
  /\ closeAtk' = IF At(Detects, Monsters) THEN closeAtk \ {TheOne(Detects)[2]} ELSE closeAtk
  /\ map' = [map EXCEPT ![src] = @ \ {Dest}, ![Dest] = @ \ {src}]
  /\ told' = told \ {Pair}
  /\ Advance
  /\ UNCHANGED <<actors, list, skill, item, hand, touched, erased>>

\* They touch no longer, or the source no longer wants the other's layer.
\* The handler does not know an acquired item, whose layer is NONE.
End ==
  /\ Checks /\ Known
  /\ IF At(Items, Players) /\ Layer(TheOne(Items)) = "ITEM"
     THEN fkey' = fkey \ {TheOne(Items)} /\ hand' = [hand EXCEPT ![TheOne(Players)] = Nothing]
     ELSE UNCHANGED <<fkey, hand>>
  /\ closeAtk' = IF At(Detects, Monsters) THEN closeAtk \ {TheOne(Detects)[2]} ELSE closeAtk
  /\ map' = [map EXCEPT ![src] = @ \ {Dest}, ![Dest] = @ \ {src}]
  /\ told' = told \ {Pair}
  /\ Advance
  /\ UNCHANGED <<actors, list, skill, owner, touched, erased>>

\* Nothing is called: they are apart, or the source does not want the other.
Apart ==
  /\ Checks /\ ~Known
  /\ touched' \in {touched} \cup
       IF ~Collides /\ At(Detects, Monsters) THEN {touched \cup {Pair}} ELSE {}
  /\ Advance
  /\ UNCHANGED <<actors, list, map, player, item, told, erased>>

PassReturns ==
  /\ step = "end" /\ step' = "tick" /\ touched' = {} /\ erased' = FALSE
  /\ UNCHANGED <<actors, list, map, player, item, i, j, src, told>>

Next ==
  \/ \E c \in Players \cup Monsters \cup Waves : Enter(c)
  \/ \E c \in Copies \cup Monsters \cup Waves : Remove(c)
  \/ \E p \in Players : Tick(p)
  \/ Update \/ NextSource \/ PassReturns
  \/ BeginItem \/ BeginDetect \/ BeginWave \/ Overlapping \/ End \/ Apart

Spec == Init /\ [][Next]_vars
-----------------------------------------------------------------------------
(* Properties.                                                             *)

\* Every variable has its type, and the loops stay in the list.
TypeOK ==
  /\ actors \subseteq Players \cup Monsters \cup Items \cup Waves
  /\ list \in Seq(Colliders) /\ \A a, b \in DOMAIN list : list[a] = list[b] => a = b
  /\ map \in [Colliders -> SUBSET Colliders]
  /\ closeAtk \subseteq Players /\ skill \subseteq Players
  /\ hand \in [Players -> Items \cup {Nothing}]
  /\ fkey \subseteq Items /\ owner \in [Items -> Players \cup {Nothing}]
  /\ step \in {"tick", "pass", "end", "crashed"}
  /\ step = "pass" => i \in 1 .. Len(list) /\ j \in i + 1 .. Len(list) + 2
  /\ told \subseteq SUBSET Colliders /\ touched \subseteq SUBSET Colliders /\ erased \in BOOLEAN

\* What the pass uses exists: the list holds colliders of actors in the scene
\* only, and the source of the inner loop is one of them, whatever the
\* callbacks delete (CollisionManager::Update, Actor::~Actor).
NoFreedCollider ==
  /\ step # "crashed"
  /\ \A c \in InList \cup (IF step = "pass" THEN {src} ELSE {}) : \E a \in actors : c \in CollidersOf(a)

\* After a pass that deleted nothing, the owners have been told of exactly the
\* contacts there are, wherever actors came and went between the passes.
EventsTellContacts ==
  step = "end" /\ ~erased =>
    \A a, b \in DOMAIN list : a < b =>
      LET p == {list[a], list[b]} IN
      p \in told <=> p \in touched /\ Layer(list[b]) \in Flags(list[a])

\* An item is acquired by a player that stands at it, though the hand keeps a
\* pointer from one pass to a later tick (Player::TickCollideItem).
TakenInReach == [][\A k \in Items : owner'[k] # owner[k] => {k, owner'[k]} \in told]_vars

\* An item is acquired once, though two players may hold it when F is pressed
\* and its collider goes on being checked.
TakenOnce == [][\A k \in Items : owner[k] # Nothing => owner'[k] = owner[k]]_vars

\* "F key가 활성화되면 획득할 수 있음" (Player.cpp:668): a shown F key means that
\* this client's player can acquire the item.
FKeyIsMine == step = "end" => \A k \in fkey : hand[Own] = k

\* "몬스터가 사거리 내 있으면, 근거리 공격" (Player.cpp:1058): with a monster in
\* range the attack is the close one.
CloseInRange ==
  step = "end" /\ (\E m \in Monsters : {Detect(Own), m} \in touched) => Own \in closeAtk
=============================================================================
