---------------------------- MODULE PlayerState ----------------------------
(***************************************************************************)
(* The player's state machine on one client: MyPlayer over Player, frame   *)
(* by frame.  A frame ticks my player and then the copies of the other     *)
(* clients' players, calls the overlap callbacks, and handles the S_Move   *)
(* packets that came.  Where a player is, which way he looks, and what is  *)
(* near him are choices of the frame.  The timers of a state are static    *)
(* variables of the Tick functions: every player of the process has the    *)
(* same ones (shared).  An observer that was never set throws, nothing     *)
(* catches it, and the process ends.                                       *)
(***************************************************************************)
EXTENDS Integers

CONSTANTS
  Others,       \* the copies of other clients' players, class Player
  PlayerHp,     \* health of playerStat.csv; 100 in the code's conditions
  Damages,      \* what a hit takes
  WindowDamage, \* what an open window takes
  HealAmount,   \* what item 300100 gives
  Span,         \* frames a timed state lasts, an animation has
  Wiring,       \* whether the two observers were set: the cases to explore
  MovedTo       \* bound: the states other clients report

Attacking == {"CLOSE_ATTACK", "LONG_ATTACK"}
Casting   == {"SKILL_WAITING", "SKILL_END"}
Skilled   == Casting \cup {"SKILL_READY"}
Busy      == Attacking \cup Skilled \cup {"RELEASE", "HIT", "DEAD"}
Playing   == {"IDLE", "MOVE", "DUCK_DOWN", "DUCK_DOWN_MOVE", "JUMP", "HANG"}
States    == Busy \cup Playing

\* A copy in one of the other states runs no timer: IDLE stands for them.
CopyStates == {"IDLE", "HIT", "DEAD", "RELEASE"} \cup Casting

ASSUME PlayerAssumption ==
  /\ PlayerHp \in Nat \ {0} /\ Span \in Nat \ {0}
  /\ Damages \subseteq Nat \ {0} /\ WindowDamage \in Nat \ {0}
  /\ HealAmount \in 1 .. PlayerHp - 1
  /\ Wiring \subseteq BOOLEAN /\ MovedTo \subseteq CopyStates

VARIABLES
  me,       \* my player
  other,    \* the state of each copy
  shared,   \* the statics of the Tick functions
  turn,     \* what the frame is at: me, others, collide
  ticking,  \* the copies that have still to tick in this frame
  observed, \* the observers were set
  threw     \* an exception ended the process

vars == <<me, other, shared, turn, ticking, observed, threw>>

Less(a, b) == IF a > b THEN a - b ELSE 0

\* SetState: the same state again changes nothing; a new one starts its flipbook.
SetState(m, s) ==
  IF m.state = s THEN m ELSE [m EXCEPT !.state = s, !.frame = 0]

\* AddHealthPoint: what `hp += amount >= 100` leaves.
Healed(hp, amount) ==
  LET sum == hp + (IF amount >= PlayerHp THEN 1 ELSE 0)
  IN  CASE hp >= PlayerHp -> hp
        [] hp < PlayerHp /\ sum # 0 -> PlayerHp
        [] hp < PlayerHp /\ sum = 0 -> sum + amount

SubtractHealthPoint(m, d) == [m EXCEPT !.hp = Less(m.hp, d)]

\* Mutation: points that do not suffice are not taken.
SubtractSkillPoint_NoClamp(m, n) == IF m.sp >= n THEN [m EXCEPT !.sp = @ - n] ELSE m

SubtractSkillPoint(m, n) == [m EXCEPT !.sp = Less(m.sp, n)]

\* OnDamaged and OnDamagedByProjectile, which are the same.
OnDamaged(m, d) ==
  LET hurt == SubtractHealthPoint(m, d)
  IN  SetState(hurt, IF hurt.hp = 0 THEN "DEAD" ELSE "HIT")

\* Mutation: the attack collider goes only when the player is idle again.
Colliders_Lingering(m) ==
  [m EXCEPT !.attack = @ /\ m.state # "IDLE",
            !.skill  = @ /\ m.state \in Casting,
            !.detect = m.state \notin Casting]

\* TickColliderCreationAndRemove, for the state the handler left.
Colliders(m) ==
  [m EXCEPT !.attack = @ /\ m.state \in Attacking,
            !.skill  = @ /\ m.state \in Casting,
            !.detect = m.state \notin Casting]

\* Mutation: a window takes health and does not ask whether any is left.
Burned_NoDeath(m) == SubtractHealthPoint(m, WindowDamage)

\* TickWindow in an open window that has not hurt this player yet.
Burned(m) ==
  LET hurt == SubtractHealthPoint(m, WindowDamage)
  IN  IF hurt.hp = 0 THEN SetState(hurt, "DEAD") ELSE hurt

Init ==
  /\ me = [state |-> "IDLE", hp |-> PlayerHp, sp |-> 0, frame |-> 0, timer |-> 0,
           presses |-> "none", ride |-> "none",
           attack |-> FALSE, skill |-> FALSE, detect |-> FALSE]
  /\ other = [q \in Others |-> "IDLE"]
  /\ shared = [hit |-> 0, dead |-> 0, release |-> 0, waiting |-> 0, hang |-> 0,
               moving |-> FALSE]
  /\ turn = "me" /\ ticking = Others
  /\ observed \in Wiring
  /\ threw = FALSE

Throw == threw' = TRUE /\ UNCHANGED <<me, other, shared, turn, ticking, observed>>

\* A call that tells an observer goes on only if the observer was set.
Told == observed /\ UNCHANGED threw
Untold == ~observed /\ Throw

-----------------------------------------------------------------------------
(* Player::Tick of my player: the handler of the state left m and s; then  *)
(* the colliders, the window and the ground.  `tells` says whether the     *)
(* handler told an observer.                                               *)

AfterTick(rest) == IF rest = {} THEN "collide" ELSE "others"

Tick(m, s, tells) ==
  /\ turn = "me" /\ ~threw
  /\ \E burn \in BOOLEAN :
       \/ (tells \/ burn) /\ Untold
       \/ /\ IF tells \/ burn THEN Told ELSE UNCHANGED threw
          /\ me' = IF burn THEN Burned(Colliders(m)) ELSE Colliders(m)
          /\ shared' = s
          /\ turn' = AfterTick(Others)
          /\ UNCHANGED <<other, ticking, observed>>

Stay(m) == Tick(m, shared, FALSE)

\* The keys of TickIdle and TickMove: what they share.
Jump == Stay(SetState(me, "JUMP"))
Strike == \E s \in Attacking : Stay(SetState(me, s))
PrepareSkill ==
  /\ me.sp >= 3
  /\ Tick(SetState([SubtractSkillPoint(me, 3) EXCEPT !.timer = 0, !.presses = "none"],
                   "SKILL_READY"), shared, TRUE)

TickIdle ==
  /\ me.state = "IDLE"
  /\ \/ \E s \in {"IDLE", "MOVE", "DUCK_DOWN"} : Stay(SetState(me, s))
     \/ Jump \/ Strike \/ PrepareSkill

TickMove ==
  /\ me.state = "MOVE"
  /\ \/ \E s \in {"IDLE", "MOVE", "DUCK_DOWN_MOVE"} : Stay(SetState(me, s))
     \/ Jump \/ Strike \/ PrepareSkill

\* After the test of A and D the test of S may come too: MOVE.
TickDuckDown ==
  \/ /\ me.state = "DUCK_DOWN"
     /\ \E s \in {"DUCK_DOWN", "DUCK_DOWN_MOVE", "IDLE"} : Stay(SetState(me, s))
  \/ /\ me.state = "DUCK_DOWN_MOVE"
     /\ \E s \in {"DUCK_DOWN_MOVE", "DUCK_DOWN", "MOVE"} : Stay(SetState(me, s))

\* On the ground it ends; in the air, near a zip line, Space takes hold of it.
TickJump ==
  /\ me.state = "JUMP"
  /\ \/ \E s \in {"JUMP", "MOVE", "IDLE"} : Stay(SetState(me, s))
     \/ Stay(SetState([me EXCEPT !.ride = "new"], "HANG"))

\* Mutation: the index asked for is one that the flipbook never shows.
TickAttack_PastEnd ==
  /\ me.state \in Attacking
  /\ LET m == [me EXCEPT !.attack = TRUE, !.frame = (@ + 1) % Span]
     IN  Stay(IF m.frame = Span THEN SetState(m, "IDLE") ELSE m)

\* GetIdx() = the last frame of the flipbook.
TickAttack ==
  /\ me.state \in Attacking
  /\ LET m == [me EXCEPT !.attack = TRUE, !.frame = @ + 1]
     IN  Stay(IF m.frame = Span THEN SetState(m, "IDLE") ELSE m)

\* What was pressed is compared, when the time is over or on a click: uneven
\* counts of A and D start the skill.
Compared(m) ==
  SetState([m EXCEPT !.timer = 0], IF m.presses = "uneven" THEN "SKILL_WAITING" ELSE "IDLE")

\* Base class first, then the keys, even when the time was over.
TickSkillReady ==
  /\ me.state = "SKILL_READY"
  /\ \E p \in {me.presses, "even", "uneven"}, click \in BOOLEAN :
       LET aged    == [me EXCEPT !.timer = @ + 1]
           late    == IF aged.timer >= Span THEN Compared(aged) ELSE aged
           pressed == [late EXCEPT !.presses = p]
           m       == IF click /\ p # "none" THEN Compared(pressed) ELSE pressed
       IN  Stay([m EXCEPT !.presses = IF m.state = "SKILL_READY" THEN @ ELSE "none"])

TickSkillWaiting ==
  /\ me.state = "SKILL_WAITING"
  /\ LET m == [me EXCEPT !.skill = TRUE]
     IN  IF shared.waiting + 1 >= Span
           THEN Tick(SetState(m, "SKILL_END"), [shared EXCEPT !.waiting = 0], FALSE)
           ELSE Tick(m, [shared EXCEPT !.waiting = @ + 1], FALSE)

TickSkillEnd ==
  /\ me.state = "SKILL_END"
  /\ LET m == [me EXCEPT !.frame = @ + 1]
     IN  Stay(IF m.frame = Span THEN SetState(m, "IDLE") ELSE m)

\* Player::TickHang: not moving yet, the player is put where the line begins.
Ride ==
  IF ~shared.moving
    THEN {[m |-> [me EXCEPT !.ride = "begun"],
           s |-> IF shared.hang + 1 >= Span
                   THEN [shared EXCEPT !.moving = TRUE, !.hang = 0]
                   ELSE [shared EXCEPT !.hang = @ + 1]]}
    ELSE LET m == IF me.ride = "new" THEN [me EXCEPT !.ride = "astray"] ELSE me
         IN  {[m |-> m, s |-> shared],
              [m |-> SetState([m EXCEPT !.ride = "none"], "RELEASE"),
               s |-> [shared EXCEPT !.moving = FALSE, !.hang = 0]]}

\* MyPlayer::TickHang: Space lets go, and leaves the statics as they are.
TickHang ==
  /\ me.state = "HANG"
  /\ \E r \in Ride, space \in BOOLEAN :
       LET m == IF space THEN SetState([r.m EXCEPT !.ride = "none"], "RELEASE") ELSE r.m
       IN  Tick(m, r.s, FALSE)

TickRelease ==
  /\ me.state = "RELEASE"
  /\ IF shared.release + 1 >= Span
       THEN Tick(SetState(me, "IDLE"), [shared EXCEPT !.release = 0], FALSE)
       ELSE Tick(me, [shared EXCEPT !.release = @ + 1], FALSE)

TickHit ==
  /\ me.state = "HIT"
  /\ IF shared.hit + 1 >= Span
       THEN Tick(SetState(me, "IDLE"), [shared EXCEPT !.hit = 0], FALSE)
       ELSE Tick(me, [shared EXCEPT !.hit = @ + 1], FALSE)

\* Whatever the stage and the save file, the revival is the same but for where.
TickDead ==
  /\ me.state = "DEAD"
  /\ IF shared.dead + 1 >= Span
       THEN LET m == [SubtractSkillPoint(me, 5) EXCEPT !.hp = Healed(me.hp, PlayerHp)]
            IN  Tick(SetState(m, "IDLE"), [shared EXCEPT !.dead = 0], TRUE)
       ELSE Tick(me, [shared EXCEPT !.dead = @ + 1], FALSE)

TickMe ==
  \/ TickIdle \/ TickMove \/ TickDuckDown \/ TickJump \/ TickAttack
  \/ TickSkillReady \/ TickSkillWaiting \/ TickSkillEnd
  \/ TickHang \/ TickRelease \/ TickHit \/ TickDead

-----------------------------------------------------------------------------
(* The copies: the same Tick functions, on the same statics.               *)

\* What a copy in state s does to the statics, and the state it leaves.
CopyTick(s) ==
  CASE s = "HIT" /\ shared.hit + 1 >= Span ->
         [state |-> "IDLE", s |-> [shared EXCEPT !.hit = 0]]
    [] s = "HIT" /\ shared.hit + 1 < Span ->
         [state |-> s, s |-> [shared EXCEPT !.hit = @ + 1]]
    [] s = "RELEASE" /\ shared.release + 1 >= Span ->
         [state |-> "IDLE", s |-> [shared EXCEPT !.release = 0]]
    [] s = "RELEASE" /\ shared.release + 1 < Span ->
         [state |-> s, s |-> [shared EXCEPT !.release = @ + 1]]
    [] s = "SKILL_WAITING" /\ shared.waiting + 1 >= Span ->
         [state |-> "SKILL_END", s |-> [shared EXCEPT !.waiting = 0]]
    [] s = "SKILL_WAITING" /\ shared.waiting + 1 < Span ->
         [state |-> s, s |-> [shared EXCEPT !.waiting = @ + 1]]
    [] s = "SKILL_END" -> [state |-> "IDLE", s |-> shared]
    [] s = "DEAD"      -> [state |-> s, s |-> [shared EXCEPT !.dead = @ + 1]]
    [] s = "IDLE"      -> [state |-> s, s |-> shared]

\* A copy's own observers are never set: reviving it throws.
TickOther(q) ==
  /\ turn = "others" /\ ~threw /\ q \in ticking
  /\ IF other[q] = "DEAD" /\ shared.dead + 1 >= Span
       THEN Throw
       ELSE /\ other' = [other EXCEPT ![q] = CopyTick(other[q]).state]
            /\ shared' = CopyTick(other[q]).s
            /\ turn' = AfterTick(ticking \ {q})
            /\ ticking' = IF turn' = "collide" THEN Others ELSE ticking \ {q}
            /\ UNCHANGED <<me, observed, threw>>

-----------------------------------------------------------------------------
(* CollisionManager::Update: the overlap callbacks, in any order.          *)

Collide == turn = "collide" /\ ~threw /\ UNCHANGED <<shared, turn, ticking, observed>>

\* An overlap whose handling makes m of my player and tells an observer.
Overlap(m) == Collide /\ Told /\ me' = m /\ UNCHANGED other
OverlapUntold == turn = "collide" /\ ~threw /\ Untold

\* CLT_MONSTER_ATTACK or CLT_FINAL_BOSS_SLASH on the player's own collider.
MonsterAttack ==
  /\ me.state # "HIT"
  /\ \/ \E d \in Damages : Overlap(OnDamaged(me, d))
     \/ OverlapUntold

ProjectileHit ==
  /\ me.state \notin Skilled
  /\ \/ \E d \in Damages : Overlap(OnDamaged(me, d))
     \/ OverlapUntold

\* CLT_GAME_OVER: no health is taken and no observer told.
Fall == Collide /\ me' = SetState(me, "DEAD") /\ UNCHANGED <<other, threw>>

\* The healing item; a full bar tells nobody.
TakeHeal ==
  /\ me.hp < PlayerHp
  /\ \/ Overlap([me EXCEPT !.hp = Healed(me.hp, HealAmount)])
     \/ OverlapUntold

\* The attack collider meets a monster: the player's callback ...
GainSkillPoint ==
  /\ me.attack
  /\ \/ Overlap([me EXCEPT !.sp = IF @ < 5 THEN @ + 1 ELSE 5])
     \/ OverlapUntold

\* ... and the monster's, which calls GetAttack.
SpendSkillPoint ==
  /\ me.attack /\ me.state \in Attacking /\ me.sp >= 5
  /\ Overlap(SubtractSkillPoint(me, 3))

\* The same callbacks on a copy: it dies in a pit, and any hit throws.
CopyFalls(q) ==
  /\ Collide /\ UNCHANGED <<me, threw>>
  /\ other' = [other EXCEPT ![q] = "DEAD"]

CopyHurt(q) == turn = "collide" /\ ~threw /\ q \in Others /\ Throw

Callback == MonsterAttack \/ ProjectileHit \/ Fall \/ TakeHeal
              \/ GainSkillPoint \/ SpendSkillPoint

-----------------------------------------------------------------------------
(* NetworkManager::Update: the S_Move packets that came set the states of  *)
(* copies, and the next frame begins.                                      *)

EndFrame ==
  /\ turn = "collide" /\ ~threw /\ turn' = "me"
  /\ other' \in [Others -> CopyStates]
  /\ \A q \in Others : other'[q] \in {other[q]} \cup MovedTo
  /\ UNCHANGED <<me, shared, ticking, observed, threw>>

Ended == threw /\ UNCHANGED vars

Frame == TickMe \/ (\E q \in Others : TickOther(q)) \/ EndFrame

Next ==
  \/ Frame \/ Callback \/ Ended
  \/ \E q \in Others : CopyFalls(q) \/ CopyHurt(q)

Spec == Init /\ [][Next]_vars

\* The game loop runs frame after frame.
FairSpec == Spec /\ WF_vars(Frame)

-----------------------------------------------------------------------------
(* Properties.                                                             *)

TypeOK ==
  /\ me \in [state : States, hp : 0 .. PlayerHp, sp : 0 .. 5, frame : 0 .. Span,
             timer : 0 .. Span, presses : {"none", "even", "uneven"},
             ride : {"none", "new", "begun", "astray"},
             attack : BOOLEAN, skill : BOOLEAN, detect : BOOLEAN]
  /\ other \in [Others -> CopyStates]
  /\ shared \in [hit : 0 .. Span, dead : Nat, release : 0 .. Span, waiting : 0 .. Span,
                 hang : 0 .. Span, moving : BOOLEAN]
  /\ turn \in {"me", "others", "collide"}
  /\ ticking \subseteq Others
  /\ observed \in BOOLEAN /\ threw \in BOOLEAN

\* Whoever has no health left is dead, whatever hurt him and in what state, and
\* stays so until the revival: no hit, item or window lets him play at zero.
DeadWithoutHealth == me.hp = 0 => me.state = "DEAD"

\* When a player has ticked, he has the colliders of what he does and no other:
\* a blow that was interrupted leaves no collider that goes on hitting, and the
\* detecting one is away only during the skill.  Death by a window comes after.
CollidersFollowState ==
  /\ ~(me.skill /\ (me.attack \/ me.detect))
  /\ turn = "others" /\ me.state # "DEAD" =>
       /\ me.attack => me.state \in Attacking
       /\ me.skill => me.state \in Casting
       /\ me.detect = (me.state \notin Casting)

\* The end of the two seconds of death gives all the health back and takes all
\* skill points, though what died of a fall still had some or all of its health
\* and AddHealthPoint adds a truth value.  Only a window that opens over him in
\* that very frame takes its share at once.
RevivedWhole ==
  [][me.state = "DEAD" /\ me'.state = "IDLE" =>
       me'.hp \in {PlayerHp, Less(PlayerHp, WindowDamage)} /\ me'.sp = 0]_vars

\* If nothing from outside strikes or moves the players any more, the keys work
\* again and again: no attack, skill, stun or death lasts for ever, though the
\* timers are shared with copies that reset them.
ControlReturns ==
  <>[][(turn = "collide") => (me' = me /\ other' = other)]_vars
    => []<>(me.state \in Playing \/ threw)

\* Player.cpp:415: who takes hold of a zip line is put where it begins.
RideStartsOnLine == me.ride # "astray"
=============================================================================
