----------------------------- MODULE FinalBoss -----------------------------
(***************************************************************************)
(* The boss of the last stage and the behaviour tree that drives it: a     *)
(* selector over twelve sequences, each the test of a state and the        *)
(* behaviour of that state.  Four behaviours end without a return on some  *)
(* path, so what the tree takes for their result is any value.  Time is    *)
(* counted in frames.  What a timer only delays (the end of a wait, an     *)
(* attack's cooldown) is a choice of the frame, as are the floors, the     *)
(* distances and the side the player is on.                                *)
(***************************************************************************)
EXTENDS Integers, Sequences

CONSTANTS
  MaxHp,        \* health, in levels
  Bands,        \* Bands[n]: the levels at which the n-th crystal phase is due
  Damages,      \* levels a blow takes
  Gap,          \* frames between two projectiles of a volley (0.3 s)
  Volley,       \* longAtkProjectileCount
  Short,        \* frames of a hit, a back step, a dash (0.5 s)
  Long,         \* frames of the severe cut (2.5 s)
  ThrustEnd,    \* last image of the thrust
  CrystalSpan,  \* frames of a crystal phase (10 s)
  MonsterEvery  \* frames between two creations of monsters

ASSUME BossAssumption ==
  /\ MaxHp \in Nat \ {0} /\ Bands \in [1 .. 3 -> SUBSET (1 .. MaxHp)]
  /\ Damages \subseteq Nat \ {0}
  /\ {Gap, Volley, Short, Long, ThrustEnd, CrystalSpan, MonsterEvery} \subseteq Nat \ {0}

VARIABLES
  state, hp,
  sum,          \* _sumTime, which most behaviours share
  count,        \* _currentProjectileCount; Volley + 1 stands for any higher
  image,        \* GetIdx() of the thrust
  collider,     \* _attackCollider: the behaviour that made it, "none"
  crystalTime,  \* _crystalCreationSumTime
  spawned,      \* _isCrystalSpawned
  worked,       \* _isFirst-, _isSecond-, _isThirdCrystalCreationWork
  monsterTime,  \* _monsterCreationSumTime
  waiting,      \* _isMonsterCreation
  at,           \* the child of the selector that ran last in this frame
  step,         \* tick, run, end or collide
  began,        \* history: the state this frame began in
  acted,        \* history: behaviours run in this frame
  phases        \* history: how often each crystal phase began

boss == <<state, hp, sum, count, image, collider, crystalTime, spawned, worked, waiting>>
vars == <<boss, monsterTime, at, step, began, acted, phases>>

\* The children of the root selector, by the state they test.
Children == <<"IDLE", "CHASE", "HIT", "DEAD", "CRYSTAL_CREATION", "THRUST", "BACK_STEP",
              "LONG_ATTACK_LENGTH", "LONG_ATTACK_WIDTH", "DASH", "TELEPORT", "CUT_SEVERELY">>
States == {Children[i] : i \in DOMAIN Children}
Volleys == {"LONG_ATTACK_LENGTH", "LONG_ATTACK_WIDTH"}
IndexOf(s) == CHOOSE i \in DOMAIN Children : Children[i] = s

Results == {"SUCCESS", "RUNNING", "FAIL"}

Init ==
  /\ state = "IDLE" /\ hp = MaxHp /\ sum = 0 /\ count = 0 /\ image = 0
  /\ collider = "none" /\ crystalTime = 0 /\ spawned = FALSE /\ worked = {}
  /\ monsterTime = 0 /\ waiting = FALSE
  /\ at = 0 /\ step = "tick" /\ began = "IDLE" /\ acted = 0
  /\ phases = [n \in 1 .. 3 |-> 0]

-----------------------------------------------------------------------------
(* Tick before the tree: the timers, the animation, the direction.         *)

\* Mutation: the monsters' timer runs in a crystal phase too.
TickBegins_Always ==
  /\ step = "tick" /\ step' = "run" /\ at' = 0 /\ acted' = 0 /\ began' = state
  /\ monsterTime' = monsterTime + 1
  /\ image' \in IF state = "THRUST" THEN {0, (image + 1) % (ThrustEnd + 1)} ELSE {0}
  /\ UNCHANGED <<state, hp, sum, count, collider, crystalTime, spawned, worked, waiting, phases>>

\* To face the other side changes the flipbook, which starts again.
TickBegins ==
  /\ step = "tick" /\ step' = "run" /\ at' = 0 /\ acted' = 0 /\ began' = state
  /\ monsterTime' = IF state # "CRYSTAL_CREATION" THEN monsterTime + 1 ELSE monsterTime
  /\ image' \in IF state = "THRUST" THEN {0, (image + 1) % (ThrustEnd + 1)} ELSE {0}
  /\ UNCHANGED <<state, hp, sum, count, collider, crystalTime, spawned, worked, waiting, phases>>

\* The tree.  The sequence of state s runs its behaviour if the selector gets
\* to it; the result decides whether the selector goes on.
Runs(s) == step = "run" /\ state = s /\ IndexOf(s) > at

Returns(s, result) ==
  /\ acted' = acted + 1
  /\ at' = IndexOf(s)
  /\ step' = IF result = "FAIL" THEN "run" ELSE "end"
  /\ UNCHANGED <<monsterTime, began>>

\* The path without a return: the caller reads what the register holds.
NoReturn(s) == \E result \in Results : Returns(s, result)

\* Every later child fails its test.
TreeFails ==
  /\ step = "run" /\ IndexOf(state) <= at /\ step' = "end"
  /\ UNCHANGED <<boss, monsterTime, at, began, acted, phases>>

SetState(s) == state' = s /\ image' = IF s = state THEN image ELSE 0

Idle ==
  /\ Runs("IDLE")
  /\ \/ /\ waiting /\ waiting' \in BOOLEAN
        /\ Returns("IDLE", "RUNNING") /\ UNCHANGED <<state, image>>
     \/ /\ ~waiting /\ Returns("IDLE", "RUNNING") /\ UNCHANGED <<state, image, waiting>>
     \/ /\ ~waiting /\ UNCHANGED waiting
        /\ \E s \in {"TELEPORT", "CHASE"} : SetState(s)
        /\ Returns("IDLE", "SUCCESS")
  /\ UNCHANGED <<hp, sum, count, collider, crystalTime, spawned, worked, phases>>

Chase ==
  /\ Runs("CHASE")
  /\ \/ Returns("CHASE", "RUNNING") /\ UNCHANGED <<state, image>>
     \/ /\ \E s \in {"TELEPORT", "THRUST"} \cup Volleys : SetState(s)
        /\ Returns("CHASE", "SUCCESS")
     \/ NoReturn("CHASE") /\ UNCHANGED <<state, image>>
  /\ UNCHANGED <<hp, sum, count, collider, crystalTime, spawned, worked, waiting, phases>>

\* The crystal phase that is due: the third asks for its flag to be set already.
Due(n) ==
  /\ hp \in Bands[n]
  /\ IF n = 3 THEN n \in worked ELSE n \notin worked

\* Mutation: the phase is not marked.
CrystalDue_NotMarked ==
  \E n \in 1 .. 3 :
    /\ Due(n) /\ \A k \in 1 .. n - 1 : ~Due(k)
    /\ worked' = worked
    /\ phases' = [phases EXCEPT ![n] = IF @ < 2 THEN @ + 1 ELSE @]

CrystalDue ==
  \E n \in 1 .. 3 :
    /\ Due(n) /\ \A k \in 1 .. n - 1 : ~Due(k)
    /\ worked' = worked \cup {n}
    /\ phases' = [phases EXCEPT ![n] = @ + 1]

Hit ==
  /\ Runs("HIT")
  /\ \/ /\ CrystalDue /\ SetState("CRYSTAL_CREATION") /\ UNCHANGED sum
        /\ Returns("HIT", "SUCCESS")
     \/ /\ \A n \in 1 .. 3 : ~Due(n)
        /\ UNCHANGED <<worked, phases>>
        /\ IF sum + 1 >= Short
             THEN sum' = 0 /\ SetState("CHASE") /\ Returns("HIT", "SUCCESS")
             ELSE sum' = sum + 1 /\ UNCHANGED <<state, image>> /\ Returns("HIT", "RUNNING")
  /\ UNCHANGED <<hp, count, collider, crystalTime, spawned, waiting>>

\* The removal of the object is commented out.
Dead ==
  /\ Runs("DEAD")
  /\ \E r \in {"SUCCESS", "RUNNING"} : Returns("DEAD", r)
  /\ UNCHANGED <<boss, phases>>

\* A second may give health back.
CrystalCreation ==
  /\ Runs("CRYSTAL_CREATION")
  /\ hp' \in {hp, IF hp < MaxHp THEN hp + 1 ELSE hp}
  /\ IF crystalTime + 1 >= CrystalSpan
       THEN /\ crystalTime' = 0 /\ spawned' = FALSE
            /\ SetState("IDLE") /\ Returns("CRYSTAL_CREATION", "SUCCESS")
       ELSE /\ crystalTime' = crystalTime + 1 /\ spawned' = TRUE
            /\ Returns("CRYSTAL_CREATION", "RUNNING") /\ UNCHANGED <<state, image>>
  /\ UNCHANGED <<sum, count, collider, worked, waiting, phases>>

\* The collider goes only when the thrust ends by itself.
Thrust ==
  /\ Runs("THRUST")
  /\ IF image = ThrustEnd
       THEN collider' = "none" /\ SetState("BACK_STEP") /\ Returns("THRUST", "SUCCESS")
       ELSE /\ collider' = IF collider = "none" THEN "THRUST" ELSE collider
            /\ UNCHANGED <<state, image>> /\ NoReturn("THRUST")
  /\ UNCHANGED <<hp, sum, count, crystalTime, spawned, worked, waiting, phases>>

\* BackStep and Dash: a movement for some time, then the chase.
BackStepOrDash ==
  \E s \in {"BACK_STEP", "DASH"} :
    /\ Runs(s)
    /\ IF sum + 1 >= Short
         THEN sum' = 0 /\ SetState("CHASE") /\ Returns(s, "SUCCESS")
         ELSE sum' = sum + 1 /\ UNCHANGED <<state, image>> /\ Returns(s, "RUNNING")
    /\ UNCHANGED <<hp, count, collider, crystalTime, spawned, worked, waiting, phases>>

\* Mutation: the last return says FAIL.
Teleport_Fails ==
  /\ Runs("TELEPORT")
  /\ \E s \in {"IDLE", "CUT_SEVERELY"} : SetState(s)
  /\ Returns("TELEPORT", "FAIL")
  /\ UNCHANGED <<hp, sum, count, collider, crystalTime, spawned, worked, waiting, phases>>

\* LongAttackLength and LongAttackWidth: a projectile, or else the question
\* whether there were exactly enough.
LongAttack ==
  \E s \in Volleys :
    /\ Runs(s)
    /\ \/ /\ sum + 1 >= Gap /\ sum' = 0
          /\ count' = IF count > Volley THEN count ELSE count + 1
          /\ Returns(s, "RUNNING") /\ UNCHANGED <<state, image>>
       \/ /\ sum + 1 < Gap /\ count = Volley
          /\ SetState("DASH") /\ count' = 0 /\ sum' = 0 /\ Returns(s, "SUCCESS")
       \/ /\ sum + 1 < Gap /\ count # Volley
          /\ sum' = sum + 1 /\ NoReturn(s) /\ UNCHANGED <<state, image, count>>
    /\ UNCHANGED <<hp, collider, crystalTime, spawned, worked, waiting, phases>>

Teleport ==
  /\ Runs("TELEPORT")
  /\ \E s \in {"IDLE", "CUT_SEVERELY"} : SetState(s)
  /\ Returns("TELEPORT", "SUCCESS")
  /\ UNCHANGED <<hp, sum, count, collider, crystalTime, spawned, worked, waiting, phases>>

CutSeverely ==
  /\ Runs("CUT_SEVERELY")
  /\ IF sum + 1 >= Long
       THEN /\ sum' = 0 /\ collider' = "none"
            /\ SetState("CHASE") /\ Returns("CUT_SEVERELY", "SUCCESS")
       ELSE /\ sum' = sum + 1
            /\ collider' = IF collider = "none" THEN "CUT_SEVERELY" ELSE collider
            /\ UNCHANGED <<state, image>> /\ Returns("CUT_SEVERELY", "RUNNING")
  /\ UNCHANGED <<hp, count, crystalTime, spawned, worked, waiting, phases>>

Tree ==
  \/ Idle \/ Chase \/ Hit \/ Dead \/ CrystalCreation \/ Thrust \/ BackStepOrDash
  \/ LongAttack \/ Teleport \/ CutSeverely \/ TreeFails

\* Mutation: the monsters come and the boss goes on with what he was doing.
TickEnds_NoIdle ==
  /\ step = "end" /\ step' = "collide"
  /\ IF monsterTime >= MonsterEvery
       THEN monsterTime' = 0 /\ waiting' = TRUE ELSE UNCHANGED <<monsterTime, waiting>>
  /\ UNCHANGED <<state, image, hp, sum, count, collider, crystalTime, spawned, worked, at,
                 began, acted, phases>>

\* Tick after the tree: the monsters, whatever the boss is doing.
TickEnds ==
  /\ step = "end" /\ step' = "collide"
  /\ IF monsterTime >= MonsterEvery
       THEN monsterTime' = 0 /\ waiting' = TRUE /\ SetState("IDLE")
       ELSE UNCHANGED <<monsterTime, waiting, state, image>>
  /\ UNCHANGED <<hp, sum, count, collider, crystalTime, spawned, worked, at, began, acted, phases>>

-----------------------------------------------------------------------------
(* The overlap with the player's attack, and the next frame.               *)

OnDamaged ==
  /\ step = "collide" /\ state # "CRYSTAL_CREATION"
  /\ \E d \in Damages :
       LET left == IF hp > d THEN hp - d ELSE 0
       IN  hp' = left /\ SetState(IF left = 0 THEN "DEAD" ELSE "HIT")
  /\ UNCHANGED <<sum, count, collider, crystalTime, spawned, worked, waiting, monsterTime,
                 at, step, began, acted, phases>>

FrameEnds ==
  /\ step = "collide" /\ step' = "tick"
  /\ UNCHANGED <<boss, monsterTime, at, began, acted, phases>>

Frame == TickBegins \/ Tree \/ TickEnds \/ FrameEnds

Next == Frame \/ OnDamaged

Spec == Init /\ [][Next]_vars

\* The game loop runs frame after frame.
FairSpec == Spec /\ WF_vars(Frame)

-----------------------------------------------------------------------------
(* Properties.                                                             *)

TypeOK ==
  /\ state \in States /\ began \in States
  /\ hp \in 0 .. MaxHp
  /\ sum \in Nat /\ count \in 0 .. Volley + 1 /\ image \in 0 .. ThrustEnd
  /\ collider \in {"none", "THRUST", "CUT_SEVERELY"}
  /\ crystalTime \in 0 .. CrystalSpan /\ spawned \in BOOLEAN
  /\ worked \subseteq 1 .. 3 /\ phases \in [1 .. 3 -> Nat]
  /\ monsterTime \in 0 .. MonsterEvery /\ waiting \in BOOLEAN
  /\ at \in 0 .. Len(Children) /\ step \in {"tick", "run", "end", "collide"}
  /\ acted \in Nat

\* One behaviour a frame: whatever a behaviour without a return seems to have
\* returned, and whatever state a behaviour leaves, the selector runs no second
\* one before the next Tick, and a Tick never passes without one.
OneBehaviourPerRun == acted <= 1 /\ (step = "end" => acted = 1)

\* The first two crystal phases begin once at most, though the boss regains health
\* in them and falls through the same levels again.  The third, which
\* CrystalCreation has crystals for, never begins: Hit asks for its flag without
\* the negation that stands before the others (FinalBoss.cpp:613).
PhasesOnce == phases[1] <= 1 /\ phases[2] <= 1 /\ phases[3] = 0

\* A crystal phase lasts its time, in which no blow takes health, not even one
\* that was under way when it began; or it is lost whole, before a crystal stood,
\* in the frame in which Hit began it: the monsters' timer was still running then,
\* and was due.  Afterwards the timer stands still and nothing cuts the phase off.
PhaseEndsOrIsLost ==
  [][state = "CRYSTAL_CREATION" =>
       /\ hp' >= hp
       /\ state' # state =>
            \/ step = "run" /\ crystalTime + 1 >= CrystalSpan
            \/ step = "end" /\ began = "HIT" /\ crystalTime = 0 /\ ~spawned]_vars

\* Hit marks a phase as worked when it begins it (FinalBoss.cpp:598, 606), so a
\* phase that begins should be run: only CrystalCreation leaves it.
NoPhaseLost ==
  [][state = "CRYSTAL_CREATION" /\ state' # state => step = "run"]_vars

\* No behaviour holds the boss for ever, even a volley that shot past its count or
\* a thrust whose animation is started again and again: he comes back to the
\* states that choose, or is dead.
NeverStuck == []<>(state \in {"IDLE", "CHASE", "DEAD"})

\* FinalBoss.cpp:308: when the health is used up, he is dead.
DeadStaysDead == hp = 0 => state = "DEAD"
=============================================================================
