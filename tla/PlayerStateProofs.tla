--------------------------- MODULE PlayerStateProofs ---------------------------
(***************************************************************************)
(* Safety of PlayerState for any number of copies, any damages, lengths of *)
(* states and wiring of the observers: health and death agree, colliders   *)
(* follow the state, and a revival restores the player.                    *)
(***************************************************************************)
EXTENDS PlayerState, TLAPS

-----------------------------------------------------------------------------
(* Types.                                                                  *)

\* The types of a player; his flipbook never rests on its last frame.
Players == [state : States, hp : 0 .. PlayerHp, sp : 0 .. 5, frame : 0 .. Span - 1,
            timer : 0 .. Span, presses : {"none", "even", "uneven"},
            ride : {"none", "new", "begun", "astray"},
            attack : BOOLEAN, skill : BOOLEAN, detect : BOOLEAN]

\* The types of the statics.
Statics == [hit : 0 .. Span, dead : Nat, release : 0 .. Span, waiting : 0 .. Span,
            hang : 0 .. Span, moving : BOOLEAN]

Typed == TypeOK /\ me.frame < Span

IInv == Typed /\ DeadWithoutHealth /\ CollidersFollowState

LEMMA Constants ==
  /\ PlayerHp \in Nat \ {0} /\ Span \in Nat \ {0} /\ WindowDamage \in Nat \ {0}
  /\ Damages \subseteq Nat \ {0} /\ HealAmount \in 1 .. PlayerHp - 1
  /\ Wiring \subseteq BOOLEAN /\ MovedTo \subseteq CopyStates
BY PlayerAssumption

LEMMA MeTyped ==
  ASSUME Typed
  PROVE  me \in Players /\ shared \in Statics
BY Constants DEF Typed, TypeOK, Players, Statics

\* A change of state keeps the types, and changes nothing but state and frame.
LEMMA SetStateTyped ==
  ASSUME NEW m \in Players, NEW s \in States
  PROVE  /\ SetState(m, s) \in Players
         /\ SetState(m, s).state = s /\ SetState(m, s).hp = m.hp /\ SetState(m, s).sp = m.sp
<1>1. CASE m.state = s
  BY <1>1 DEF SetState
<1>2. CASE m.state # s
  <2>1. SetState(m, s) = [m EXCEPT !.state = s, !.frame = 0]
    BY <1>2 DEF SetState
  <2>2. 0 \in 0 .. Span - 1
    BY Constants
  <2>. QED
    BY <2>1, <2>2 DEF Players
<1>. QED
  BY <1>1, <1>2

\* Taking points keeps them in range.
LEMMA SubtractTyped ==
  ASSUME NEW m \in Players, NEW n \in Nat
  PROVE  /\ SubtractHealthPoint(m, n) \in Players
         /\ SubtractHealthPoint(m, n).state = m.state
         /\ SubtractHealthPoint(m, n).hp = Less(m.hp, n)
         /\ SubtractHealthPoint(m, n).sp = m.sp
         /\ SubtractSkillPoint(m, n) \in Players
         /\ SubtractSkillPoint(m, n).state = m.state
         /\ SubtractSkillPoint(m, n).hp = m.hp
         /\ SubtractSkillPoint(m, n).sp = Less(m.sp, n)
<1>1. Less(m.hp, n) \in 0 .. PlayerHp /\ Less(m.sp, n) \in 0 .. 5
  BY Constants DEF Players, Less
<1>. QED
  BY <1>1 DEF Players, SubtractHealthPoint, SubtractSkillPoint

\* The colliders of a player are those of his state.
LEMMA CollidersTyped ==
  ASSUME NEW m \in Players
  PROVE  /\ Colliders(m) \in Players
         /\ Colliders(m).state = m.state /\ Colliders(m).hp = m.hp /\ Colliders(m).sp = m.sp
         /\ Colliders(m).attack => m.state \in Attacking
         /\ Colliders(m).skill => m.state \in Casting
         /\ Colliders(m).detect = (m.state \notin Casting)
BY Constants DEF Players, Colliders

\* An open window: who has no health left after it is dead, who has is as he was.
LEMMA BurnedTyped ==
  ASSUME NEW m \in Players
  PROVE  /\ Burned(m) \in Players
         /\ Burned(m).hp = Less(m.hp, WindowDamage) /\ Burned(m).sp = m.sp
         /\ Burned(m).hp = 0 => Burned(m).state = "DEAD"
         /\ Burned(m).hp # 0 => Burned(m).state = m.state
         /\ Burned(m).attack = m.attack /\ Burned(m).skill = m.skill
         /\ Burned(m).detect = m.detect
<1>. DEFINE hurt == SubtractHealthPoint(m, WindowDamage)
<1>1. hurt \in Players /\ hurt.state = m.state /\ hurt.hp = Less(m.hp, WindowDamage) /\ hurt.sp = m.sp
  BY Constants, SubtractTyped
<1>2. hurt.attack = m.attack /\ hurt.skill = m.skill /\ hurt.detect = m.detect
  BY DEF Players, SubtractHealthPoint
<1>3. Burned(m) = IF hurt.hp = 0 THEN SetState(hurt, "DEAD") ELSE hurt
  BY DEF Burned
<1>4. "DEAD" \in States
  BY DEF States, Busy
<1>. HIDE DEF hurt
<1>5. /\ SetState(hurt, "DEAD").attack = hurt.attack
      /\ SetState(hurt, "DEAD").skill = hurt.skill
      /\ SetState(hurt, "DEAD").detect = hurt.detect
  BY <1>1 DEF Players, SetState
<1>6. /\ SetState(hurt, "DEAD") \in Players /\ SetState(hurt, "DEAD").state = "DEAD"
      /\ SetState(hurt, "DEAD").hp = hurt.hp /\ SetState(hurt, "DEAD").sp = hurt.sp
  BY <1>1, <1>4, SetStateTyped
<1>7. CASE hurt.hp = 0
  BY <1>1, <1>2, <1>3, <1>5, <1>6, <1>7
<1>8. CASE hurt.hp # 0
  BY <1>1, <1>2, <1>3, <1>8
<1>. QED
  BY <1>7, <1>8

\* A blow: dead at zero, hit above.
LEMMA DamagedTyped ==
  ASSUME NEW m \in Players, NEW d \in Nat
  PROVE  /\ OnDamaged(m, d) \in Players
         /\ OnDamaged(m, d).hp = 0 => OnDamaged(m, d).state = "DEAD"
         /\ OnDamaged(m, d).state \in {"DEAD", "HIT"}
         /\ OnDamaged(m, d).attack = m.attack /\ OnDamaged(m, d).skill = m.skill
         /\ OnDamaged(m, d).detect = m.detect
<1>. DEFINE hurt == SubtractHealthPoint(m, d)
            left == IF hurt.hp = 0 THEN "DEAD" ELSE "HIT"
<1>1. hurt \in Players
  BY SubtractTyped
<1>2. left \in States /\ left \in {"DEAD", "HIT"} /\ (hurt.hp = 0 => left = "DEAD")
  BY DEF States, Busy
<1>3. OnDamaged(m, d) = SetState(hurt, left)
  BY DEF OnDamaged
<1>4. hurt.attack = m.attack /\ hurt.skill = m.skill /\ hurt.detect = m.detect
  BY DEF Players, SubtractHealthPoint
<1>. HIDE DEF hurt, left
<1>5. /\ SetState(hurt, left).attack = hurt.attack
      /\ SetState(hurt, left).skill = hurt.skill
      /\ SetState(hurt, left).detect = hurt.detect
  BY <1>1 DEF Players, SetState
<1>. QED
  BY <1>1, <1>2, <1>3, <1>4, <1>5, SetStateTyped

\* What AddHealthPoint leaves is never zero: a truth value is added to the health
\* and compared, and whatever is not zero counts as full.
LEMMA HealedSome ==
  ASSUME NEW hp \in 0 .. PlayerHp
  PROVE  /\ Healed(hp, PlayerHp) = PlayerHp
         /\ Healed(hp, HealAmount) \in 1 .. PlayerHp
<1>1. Healed(hp, PlayerHp) = PlayerHp
  BY Constants DEF Healed
<1>2. HealAmount < PlayerHp
  BY Constants
<1>3. CASE hp = PlayerHp
  BY <1>1, <1>3, Constants DEF Healed
<1>4. CASE hp < PlayerHp /\ hp # 0
  BY <1>1, <1>2, <1>4, Constants DEF Healed
<1>5. CASE hp = 0
  BY <1>1, <1>2, <1>5, Constants DEF Healed
<1>. QED
  BY <1>1, <1>3, <1>4, <1>5, Constants

-----------------------------------------------------------------------------
(* My player's tick.                                                       *)

\* What a handler leaves: dead without health, and whole if it is the revival's.
Handles(m, s) ==
  /\ m \in Players /\ s \in Statics
  /\ m.hp = 0 => m.state = "DEAD"
  /\ me.state = "DEAD" /\ m.state = "IDLE" => m.hp = PlayerHp /\ m.sp = 0

Handled ==
  \E m \in Players, s \in Statics, tells \in BOOLEAN : Handles(m, s) /\ Tick(m, s, tells)

Revives ==
  me.state = "DEAD" /\ me'.state = "IDLE" =>
    me'.hp \in {PlayerHp, Less(PlayerHp, WindowDamage)} /\ me'.sp = 0

\* After a handler the rest of Tick gives my player his colliders and the window
\* its share.
LEMMA HandledKeeps ==
  ASSUME IInv, Handled
  PROVE  IInv' /\ Revives
<1>1. PICK m \in Players, s \in Statics, tells \in BOOLEAN : Handles(m, s) /\ Tick(m, s, tells)
  BY DEF Handled
<1>2. CASE Throw
  <2>1. UNCHANGED <<me, other, shared, turn, ticking, observed>> /\ threw' = TRUE
    BY <1>2 DEF Throw
  <2>2. threw' \in BOOLEAN
    BY <2>1, Zenon
  <2>. QED
    BY <2>1, <2>2 DEF IInv, Typed, TypeOK, DeadWithoutHealth, CollidersFollowState, Revives
<1>3. ASSUME NEW burn \in BOOLEAN,
             me' = IF burn THEN Burned(Colliders(m)) ELSE Colliders(m),
             shared' = s, turn' = AfterTick(Others),
             UNCHANGED <<other, ticking, observed, threw>>
      PROVE  IInv' /\ Revives
  <2>1. /\ Colliders(m) \in Players
        /\ Colliders(m).state = m.state /\ Colliders(m).hp = m.hp /\ Colliders(m).sp = m.sp
        /\ Colliders(m).attack => m.state \in Attacking
        /\ Colliders(m).skill => m.state \in Casting
        /\ Colliders(m).detect = (m.state \notin Casting)
    BY CollidersTyped
  <2>2. /\ me' \in Players
        /\ me'.hp = 0 => me'.state = "DEAD"
        /\ me'.state \in {m.state, "DEAD"}
        /\ me'.hp \in {m.hp, Less(m.hp, WindowDamage)} /\ me'.sp = m.sp
        /\ me'.attack = Colliders(m).attack /\ me'.skill = Colliders(m).skill
        /\ me'.detect = Colliders(m).detect
    BY <1>1, <1>3, <2>1, BurnedTyped DEF Handles
  <2>3. turn' \in {"me", "others", "collide"}
    BY <1>3 DEF AfterTick
  <2>4. TypeOK' /\ me'.frame < Span
    BY <1>3, <2>2, <2>3, Constants DEF IInv, Typed, TypeOK, Players, Statics
  <2>5. DeadWithoutHealth'
    BY <2>2 DEF DeadWithoutHealth
  <2>6. CollidersFollowState'
    <3>1. ~(me'.skill /\ (me'.attack \/ me'.detect))
      <4>1. m.state \in Attacking => m.state \notin Casting
        BY DEF Attacking, Casting
      <4>. QED
        BY <2>1, <2>2, <4>1, Zenon
    <3>2. me'.state # "DEAD" => me'.state = m.state
      BY <2>2
    <3>. QED
      BY <2>1, <2>2, <3>1, <3>2 DEF CollidersFollowState
  <2>7. Revives
    BY <1>1, <2>2 DEF Handles, Revives
  <2>. QED
    BY <2>4, <2>5, <2>6, <2>7 DEF IInv, Typed
<1>. QED
  BY <1>1, <1>2, <1>3, Zenon DEF Tick, Untold, Told

LEMMA StateNames ==
  /\ "IDLE" \in States /\ "MOVE" \in States /\ "DUCK_DOWN" \in States
  /\ "DUCK_DOWN_MOVE" \in States /\ "JUMP" \in States /\ "HANG" \in States
  /\ "SKILL_READY" \in States /\ "SKILL_WAITING" \in States /\ "SKILL_END" \in States
  /\ "RELEASE" \in States /\ "HIT" \in States /\ "DEAD" \in States
  /\ \A s \in Attacking : s \in States
BY DEF States, Busy, Playing, Attacking, Skilled, Casting

\* A handler that leaves a living player his health, and the statics alone.
LEMMA StayHandled ==
  ASSUME IInv, NEW m \in Players, m.hp = me.hp, me.state # "DEAD", Stay(m)
  PROVE  Handled
<1>1. shared \in Statics
  BY MeTyped DEF IInv
<1>2. Handles(m, shared)
  BY <1>1 DEF Handles, IInv, DeadWithoutHealth
<1>3. FALSE \in BOOLEAN
  BY Zenon
<1>. QED
  BY <1>1, <1>2, <1>3, Zenon DEF Stay, Handled

\* The same for a handler that changes the statics, or tells an observer.
LEMMA TickHandled ==
  ASSUME IInv, NEW m \in Players, NEW s \in Statics, NEW tells \in BOOLEAN,
         m.hp = me.hp, me.state # "DEAD", Tick(m, s, tells)
  PROVE  Handled
<1>1. Handles(m, s)
  BY DEF Handles, IInv, DeadWithoutHealth
<1>. QED
  BY <1>1, Zenon DEF Handled

\* A change of state is handled, whatever the new state.
LEMMA MoveHandled ==
  ASSUME IInv, me.state # "DEAD", NEW s \in States, Stay(SetState(me, s))
  PROVE  Handled
<1>1. me \in Players
  BY MeTyped DEF IInv
<1>2. SetState(me, s) \in Players /\ SetState(me, s).hp = me.hp
  BY <1>1, SetStateTyped
<1>. QED
  BY <1>2, StayHandled

LEMMA Flags == TRUE \in BOOLEAN /\ FALSE \in BOOLEAN
BY Zenon

\* The skill is prepared for three points.
LEMMA PrepareHandled ==
  ASSUME IInv, me.state # "DEAD", PrepareSkill
  PROVE  Handled
<1>. DEFINE less == SubtractSkillPoint(me, 3)
            m == [less EXCEPT !.timer = 0, !.presses = "none"]
<1>1. me \in Players /\ shared \in Statics
  BY MeTyped DEF IInv
<1>2. less \in Players /\ less.hp = me.hp
  BY <1>1, SubtractTyped
<1>3. Tick(SetState(m, "SKILL_READY"), shared, TRUE)
  BY DEF PrepareSkill
<1>. HIDE DEF less
<1>4. m \in Players /\ m.hp = me.hp
  <2>1. 0 \in 0 .. Span
    BY Constants
  <2>2. [less EXCEPT !.timer = 0] \in Players /\ [less EXCEPT !.timer = 0].hp = me.hp
    BY <1>2, <2>1 DEF Players
  <2>3. m = [[less EXCEPT !.timer = 0] EXCEPT !.presses = "none"]
    OBVIOUS
  <2>. QED
    BY <2>2, <2>3 DEF Players
<1>. HIDE DEF m
<1>5. SetState(m, "SKILL_READY") \in Players /\ SetState(m, "SKILL_READY").hp = me.hp
  BY <1>4, StateNames, SetStateTyped
<1>. QED
  BY <1>1, <1>3, <1>5, TickHandled, Flags

\* A click or the end of the time compares the presses.
LEMMA ComparedTyped ==
  ASSUME NEW m \in Players
  PROVE  Compared(m) \in Players /\ Compared(m).hp = m.hp
<1>. DEFINE reset == [m EXCEPT !.timer = 0]
            next == IF m.presses = "uneven" THEN "SKILL_WAITING" ELSE "IDLE"
<1>1. reset \in Players /\ reset.hp = m.hp
  BY Constants DEF Players
<1>2. next \in States
  BY StateNames
<1>3. Compared(m) = SetState(reset, next)
  BY DEF Compared
<1>. HIDE DEF reset, next
<1>. QED
  BY <1>1, <1>2, <1>3, SetStateTyped

LEMMA SkillReadyHandled ==
  ASSUME IInv, TickSkillReady
  PROVE  Handled
<1>1. me \in Players /\ me.state = "SKILL_READY"
  BY MeTyped DEF IInv, TickSkillReady
<1>2. PICK p \in {me.presses, "even", "uneven"}, click \in BOOLEAN :
        LET aged    == [me EXCEPT !.timer = @ + 1]
            late    == IF aged.timer >= Span THEN Compared(aged) ELSE aged
            pressed == [late EXCEPT !.presses = p]
            m       == IF click /\ p # "none" THEN Compared(pressed) ELSE pressed
        IN  Stay([m EXCEPT !.presses = IF m.state = "SKILL_READY" THEN @ ELSE "none"])
  BY DEF TickSkillReady
<1>. DEFINE aged    == [me EXCEPT !.timer = @ + 1]
            late    == IF aged.timer >= Span THEN Compared(aged) ELSE aged
            pressed == [late EXCEPT !.presses = p]
            m       == IF click /\ p # "none" THEN Compared(pressed) ELSE pressed
            left    == [m EXCEPT !.presses = IF m.state = "SKILL_READY" THEN @ ELSE "none"]
<1>3. Stay(left)
  BY <1>2
<1>4. late \in Players /\ late.hp = me.hp
  <2>1. CASE me.timer < Span
    <3>1. aged \in Players /\ aged.hp = me.hp
      BY <1>1, <2>1, Constants DEF Players
    <3>. HIDE DEF aged
    <3>. QED
      BY <3>1, ComparedTyped
  <2>2. CASE me.timer = Span
    <3>1. aged \in [state : States, hp : 0 .. PlayerHp, sp : 0 .. 5, frame : 0 .. Span - 1,
                    timer : 0 .. Span + 1, presses : {"none", "even", "uneven"},
                    ride : {"none", "new", "begun", "astray"},
                    attack : BOOLEAN, skill : BOOLEAN, detect : BOOLEAN]
          /\ aged.timer >= Span /\ aged.hp = me.hp
      BY <1>1, <2>2, Constants DEF Players
    <3>. DEFINE reset == [aged EXCEPT !.timer = 0]
                next == IF aged.presses = "uneven" THEN "SKILL_WAITING" ELSE "IDLE"
    <3>2. late = SetState(reset, next)
      BY <3>1 DEF Compared
    <3>. HIDE DEF aged
    <3>3. reset \in Players /\ reset.hp = me.hp
      BY <3>1, Constants DEF Players
    <3>4. next \in States
      BY StateNames
    <3>. HIDE DEF reset, next, late
    <3>. QED
      BY <3>2, <3>3, <3>4, SetStateTyped
  <2>. QED
    BY <1>1, <2>1, <2>2, Constants DEF Players
<1>. HIDE DEF late
<1>5. pressed \in Players /\ pressed.hp = me.hp
  BY <1>1, <1>4 DEF Players
<1>. HIDE DEF pressed
<1>6. m \in Players /\ m.hp = me.hp
  BY <1>5, ComparedTyped
<1>. HIDE DEF m
<1>7. left \in Players /\ left.hp = me.hp
  BY <1>6 DEF Players
<1>. HIDE DEF left
<1>. QED
  BY <1>1, <1>3, <1>7, StayHandled

LEMMA AttackHandled ==
  ASSUME IInv, TickAttack
  PROVE  Handled
<1>. DEFINE m == [me EXCEPT !.attack = TRUE, !.frame = @ + 1]
            left == IF m.frame = Span THEN SetState(m, "IDLE") ELSE m
<1>1. me \in Players /\ me.state \in Attacking /\ me.state # "DEAD"
  BY MeTyped DEF IInv, TickAttack, Attacking
<1>2. Stay(left)
  BY DEF TickAttack
<1>3. CASE me.frame + 1 < Span
  <2>1. me.frame + 1 \in 0 .. Span - 1 /\ me.frame + 1 # Span
    BY <1>1, <1>3, Constants DEF Players
  <2>2. m = [[me EXCEPT !.frame = @ + 1] EXCEPT !.attack = TRUE]
    BY <1>1 DEF Players
  <2>3. [me EXCEPT !.frame = @ + 1] \in Players
    BY <1>1, <2>1 DEF Players
  <2>4. m \in Players /\ m.hp = me.hp /\ m.frame # Span
    BY <1>1, <2>1, <2>2, <2>3 DEF Players
  <2>. QED
    BY <1>1, <1>2, <2>4, StayHandled
<1>4. CASE me.frame + 1 = Span
  <2>1. left = [m EXCEPT !.state = "IDLE", !.frame = 0]
    BY <1>1, <1>4 DEF Players, SetState, Attacking
  <2>2. left = [me EXCEPT !.attack = TRUE, !.state = "IDLE", !.frame = 0]
    BY <1>1, <2>1 DEF Players
  <2>3. 0 \in 0 .. Span - 1
    BY Constants
  <2>4. left \in Players /\ left.hp = me.hp
    BY <1>1, <2>2, <2>3, StateNames DEF Players
  <2>. QED
    BY <1>1, <1>2, <2>4, StayHandled
<1>. QED
  BY <1>1, <1>3, <1>4, Constants DEF Players

LEMMA SkillEndHandled ==
  ASSUME IInv, TickSkillEnd
  PROVE  Handled
<1>. DEFINE m == [me EXCEPT !.frame = @ + 1]
            left == IF m.frame = Span THEN SetState(m, "IDLE") ELSE m
<1>1. me \in Players /\ me.state = "SKILL_END" /\ me.state # "DEAD"
  BY MeTyped DEF IInv, TickSkillEnd
<1>2. Stay(left)
  BY DEF TickSkillEnd
<1>3. CASE me.frame + 1 < Span
  <2>1. m \in Players /\ m.hp = me.hp /\ m.frame # Span
    BY <1>1, <1>3, Constants DEF Players
  <2>. QED
    BY <1>1, <1>2, <2>1, StayHandled
<1>4. CASE me.frame + 1 = Span
  <2>1. left = [m EXCEPT !.state = "IDLE", !.frame = 0]
    BY <1>1, <1>4 DEF Players, SetState
  <2>2. left = [me EXCEPT !.state = "IDLE", !.frame = 0]
    BY <1>1, <2>1 DEF Players
  <2>3. 0 \in 0 .. Span - 1
    BY Constants
  <2>4. left \in Players /\ left.hp = me.hp
    BY <1>1, <2>2, <2>3, StateNames DEF Players
  <2>. QED
    BY <1>1, <1>2, <2>4, StayHandled
<1>. QED
  BY <1>1, <1>3, <1>4, Constants DEF Players

LEMMA SkillWaitingHandled ==
  ASSUME IInv, TickSkillWaiting
  PROVE  Handled
<1>. DEFINE m == [me EXCEPT !.skill = TRUE]
<1>1. me \in Players /\ shared \in Statics /\ me.state # "DEAD"
  BY MeTyped DEF IInv, TickSkillWaiting
<1>2. m \in Players /\ m.hp = me.hp
  BY <1>1 DEF Players
<1>3. SetState(m, "SKILL_END") \in Players /\ SetState(m, "SKILL_END").hp = me.hp
  BY <1>2, SetStateTyped, StateNames
<1>4. CASE shared.waiting + 1 >= Span
  <2>1. [shared EXCEPT !.waiting = 0] \in Statics
    BY <1>1, Constants DEF Statics
  <2>2. Tick(SetState(m, "SKILL_END"), [shared EXCEPT !.waiting = 0], FALSE)
    BY <1>4 DEF TickSkillWaiting
  <2>. QED
    BY <1>1, <1>3, <2>1, <2>2, TickHandled, Flags
<1>5. CASE ~(shared.waiting + 1 >= Span)
  <2>1. [shared EXCEPT !.waiting = @ + 1] \in Statics
    BY <1>1, <1>5, Constants DEF Statics
  <2>2. Tick(m, [shared EXCEPT !.waiting = @ + 1], FALSE)
    BY <1>5 DEF TickSkillWaiting
  <2>. QED
    BY <1>1, <1>2, <2>1, <2>2, TickHandled, Flags
<1>. QED
  BY <1>4, <1>5

\* RELEASE and HIT: their time, then IDLE.
LEMMA StunHandled ==
  ASSUME IInv, TickRelease \/ TickHit
  PROVE  Handled
<1>1. me \in Players /\ shared \in Statics /\ me.state # "DEAD"
  BY MeTyped DEF IInv, TickRelease, TickHit
<1>2. SetState(me, "IDLE") \in Players /\ SetState(me, "IDLE").hp = me.hp
  BY <1>1, SetStateTyped, StateNames
<1>3. /\ [shared EXCEPT !.release = 0] \in Statics /\ [shared EXCEPT !.hit = 0] \in Statics
      /\ shared.release + 1 < Span => [shared EXCEPT !.release = @ + 1] \in Statics
      /\ shared.hit + 1 < Span => [shared EXCEPT !.hit = @ + 1] \in Statics
  BY <1>1, Constants DEF Statics
<1>4. CASE TickRelease
  <2>1. \/ Tick(SetState(me, "IDLE"), [shared EXCEPT !.release = 0], FALSE)
        \/ /\ ~(shared.release + 1 >= Span)
           /\ Tick(me, [shared EXCEPT !.release = @ + 1], FALSE)
    BY <1>4 DEF TickRelease
  <2>2. ~(shared.release + 1 >= Span) => shared.release + 1 < Span
    BY <1>1, Constants DEF Statics
  <2>. QED
    BY <1>1, <1>2, <1>3, <2>1, <2>2, TickHandled, Flags
<1>5. CASE TickHit
  <2>1. \/ Tick(SetState(me, "IDLE"), [shared EXCEPT !.hit = 0], FALSE)
        \/ /\ ~(shared.hit + 1 >= Span)
           /\ Tick(me, [shared EXCEPT !.hit = @ + 1], FALSE)
    BY <1>5 DEF TickHit
  <2>2. ~(shared.hit + 1 >= Span) => shared.hit + 1 < Span
    BY <1>1, Constants DEF Statics
  <2>. QED
    BY <1>1, <1>2, <1>3, <2>1, <2>2, TickHandled, Flags
<1>. QED
  BY <1>4, <1>5

\* What the zip line does to the statics.
LEMMA HangStatics ==
  ASSUME NEW s \in Statics
  PROVE  /\ \A b \in BOOLEAN : [s EXCEPT !.moving = b, !.hang = 0] \in Statics
         /\ [s EXCEPT !.moving = TRUE, !.hang = 0] \in Statics
         /\ [s EXCEPT !.moving = FALSE, !.hang = 0] \in Statics
         /\ ~(s.hang + 1 >= Span) => [s EXCEPT !.hang = @ + 1] \in Statics
<1>1. [s EXCEPT !.hang = 0] \in Statics
  BY Constants DEF Statics
<1>2. \A b \in BOOLEAN : [s EXCEPT !.moving = b, !.hang = 0] \in Statics
  <2>1. ASSUME NEW b \in BOOLEAN
        PROVE  [s EXCEPT !.moving = b, !.hang = 0] = [[s EXCEPT !.hang = 0] EXCEPT !.moving = b]
    BY DEF Statics
  <2>2. ASSUME NEW b \in BOOLEAN, NEW t \in Statics
        PROVE  [t EXCEPT !.moving = b] \in Statics
    BY DEF Statics
  <2>. QED
    BY <1>1, <2>1, <2>2
<1>3. ~(s.hang + 1 >= Span) => [s EXCEPT !.hang = @ + 1] \in Statics
  BY Constants DEF Statics
<1>. QED
  BY <1>2, <1>3, Flags

\* The zip line changes where the player is and the statics; letting go changes
\* his state too.
LEMMA HangHandled ==
  ASSUME IInv, TickHang
  PROVE  Handled
<1>1. me \in Players /\ shared \in Statics /\ me.state # "DEAD"
  BY MeTyped DEF IInv, TickHang
<1>. DEFINE Letting(m) == SetState([m EXCEPT !.ride = "none"], "RELEASE")
            Riding == {[me EXCEPT !.ride = "begun"], [me EXCEPT !.ride = "astray"], me}
<1>2. \A m \in Players : /\ [m EXCEPT !.ride = "none"] \in Players
                         /\ [m EXCEPT !.ride = "none"].hp = m.hp
  BY DEF Players
<1>3. \A m \in Players : Letting(m) \in Players /\ Letting(m).hp = m.hp
  <2>1. ASSUME NEW m \in Players
        PROVE  Letting(m) \in Players /\ Letting(m).hp = m.hp
    <3>1. "RELEASE" \in States
      BY StateNames
    <3>. QED
      BY <1>2, <3>1, SetStateTyped
  <2>. QED
    BY <2>1
<1>4. \A m \in Riding : m \in Players /\ m.hp = me.hp
  BY <1>1 DEF Players
<1>5. \A r \in Ride : /\ r.m \in Players /\ r.m.hp = me.hp
                      /\ r.s \in Statics
  <2>1. CASE ~shared.moving
    <3>1. /\ [shared EXCEPT !.moving = TRUE, !.hang = 0] \in Statics
          /\ ~(shared.hang + 1 >= Span) => [shared EXCEPT !.hang = @ + 1] \in Statics
      BY <1>1, HangStatics
    <3>2. \A r \in Ride : /\ r.m = [me EXCEPT !.ride = "begun"]
                          /\ r.s \in Statics
      BY <2>1, <3>1 DEF Ride
    <3>. QED
      BY <1>4, <3>2
  <2>2. CASE shared.moving
    <3>1. [shared EXCEPT !.moving = FALSE, !.hang = 0] \in Statics
      BY <1>1, HangStatics
    <3>. DEFINE there == IF me.ride = "new" THEN [me EXCEPT !.ride = "astray"] ELSE me
    <3>2. there \in Riding
      OBVIOUS
    <3>3. Ride = {[m |-> there, s |-> shared],
                  [m |-> Letting(there), s |-> [shared EXCEPT !.moving = FALSE, !.hang = 0]]}
      BY <2>2 DEF Ride
    <3>. HIDE DEF there, Letting, Riding
    <3>4. /\ there \in Players /\ there.hp = me.hp
          /\ Letting(there) \in Players /\ Letting(there).hp = me.hp
      BY <1>3, <1>4, <3>2
    <3>5. ASSUME NEW r \in Ride
          PROVE  r.m \in {there, Letting(there)}
                 /\ r.s \in {shared, [shared EXCEPT !.moving = FALSE, !.hang = 0]}
      BY <3>3
    <3>. QED
      BY <1>1, <3>1, <3>4, <3>5
  <2>. QED
    BY <2>1, <2>2
<1>6. PICK r \in Ride, space \in BOOLEAN :
        Tick(IF space THEN Letting(r.m) ELSE r.m, r.s, FALSE)
  BY DEF TickHang
<1>. HIDE DEF Letting
<1>7. CASE space
  BY <1>1, <1>3, <1>5, <1>6, <1>7, TickHandled, Flags
<1>8. CASE ~space
  BY <1>1, <1>5, <1>6, <1>8, TickHandled, Flags
<1>. QED
  BY <1>7, <1>8

\* The end of death: all the health, no skill points.
LEMMA DeadHandled ==
  ASSUME IInv, TickDead
  PROVE  Handled
<1>1. me \in Players /\ shared \in Statics /\ me.state = "DEAD"
  BY MeTyped DEF IInv, TickDead
<1>2. CASE shared.dead + 1 >= Span
  <2>. DEFINE less == SubtractSkillPoint(me, 5)
              m == [less EXCEPT !.hp = Healed(me.hp, PlayerHp)]
              s == [shared EXCEPT !.dead = 0]
  <2>1. Tick(SetState(m, "IDLE"), s, TRUE)
    BY <1>2 DEF TickDead
  <2>2. less \in Players /\ less.sp = 0
    <3>1. Less(me.sp, 5) = 0
      BY <1>1 DEF Players, Less
    <3>. QED
      BY <1>1, <3>1, SubtractTyped
  <2>3. Healed(me.hp, PlayerHp) = PlayerHp /\ PlayerHp \in 0 .. PlayerHp /\ PlayerHp # 0
    BY <1>1, HealedSome, Constants DEF Players
  <2>. HIDE DEF less
  <2>4. m \in Players /\ m.hp = PlayerHp /\ m.sp = 0
    BY <2>2, <2>3 DEF Players
  <2>5. s \in Statics
    BY <1>1 DEF Statics
  <2>. HIDE DEF m, s
  <2>6. Handles(SetState(m, "IDLE"), s)
    BY <2>3, <2>4, <2>5, SetStateTyped, StateNames DEF Handles
  <2>. QED
    BY <2>1, <2>6, Flags DEF Handled, Handles
<1>3. CASE ~(shared.dead + 1 >= Span)
  <2>1. Tick(me, [shared EXCEPT !.dead = @ + 1], FALSE)
    BY <1>3 DEF TickDead
  <2>2. [shared EXCEPT !.dead = @ + 1] \in Statics
    BY <1>1 DEF Statics
  <2>3. Handles(me, [shared EXCEPT !.dead = @ + 1])
    BY <1>1, <2>2 DEF Handles
  <2>. QED
    BY <2>1, <2>3, Flags DEF Handled, Handles
<1>. QED
  BY <1>2, <1>3

\* Every handler of my player.
LEMMA TickMeHandled ==
  ASSUME IInv, TickMe
  PROVE  Handled
<1>1. CASE TickIdle
  <2>1. me.state # "DEAD"
    BY <1>1 DEF TickIdle
  <2>. QED
    BY <1>1, <2>1, MoveHandled, PrepareHandled, StateNames DEF TickIdle, Jump, Strike
<1>2. CASE TickMove
  <2>1. me.state # "DEAD"
    BY <1>2 DEF TickMove
  <2>. QED
    BY <1>2, <2>1, MoveHandled, PrepareHandled, StateNames DEF TickMove, Jump, Strike
<1>3. CASE TickDuckDown
  <2>1. me.state # "DEAD"
    BY <1>3 DEF TickDuckDown
  <2>. QED
    BY <1>3, <2>1, MoveHandled, StateNames DEF TickDuckDown
<1>4. CASE TickJump
  <2>. DEFINE m == [me EXCEPT !.ride = "new"]
  <2>1. me.state # "DEAD"
    BY <1>4 DEF TickJump
  <2>2. m \in Players /\ m.hp = me.hp
    BY MeTyped DEF IInv, Players
  <2>3. (\E s \in {"JUMP", "MOVE", "IDLE"} : Stay(SetState(me, s))) \/ Stay(SetState(m, "HANG"))
    BY <1>4 DEF TickJump
  <2>. HIDE DEF m
  <2>4. SetState(m, "HANG") \in Players /\ SetState(m, "HANG").hp = me.hp
    BY <2>2, SetStateTyped, StateNames
  <2>. QED
    BY <2>1, <2>3, <2>4, MoveHandled, StayHandled, StateNames
<1>. QED
  BY <1>1, <1>2, <1>3, <1>4, AttackHandled, SkillReadyHandled, SkillWaitingHandled,
     SkillEndHandled, HangHandled, StunHandled, DeadHandled DEF TickMe

-----------------------------------------------------------------------------
(* The other steps of a frame.                                             *)

\* A copy's tick leaves the statics and the copy's state typed.
LEMMA CopyTickTyped ==
  ASSUME IInv, NEW s \in CopyStates, ~(s = "DEAD" /\ shared.dead + 1 >= Span)
  PROVE  CopyTick(s).state \in CopyStates /\ CopyTick(s).s \in Statics
<1>1. shared \in Statics
  BY MeTyped DEF IInv
<1>2. /\ [shared EXCEPT !.hit = 0] \in Statics
      /\ shared.hit + 1 < Span => [shared EXCEPT !.hit = @ + 1] \in Statics
  BY <1>1, Constants DEF Statics
<1>3. /\ [shared EXCEPT !.release = 0] \in Statics
      /\ shared.release + 1 < Span => [shared EXCEPT !.release = @ + 1] \in Statics
  BY <1>1, Constants DEF Statics
<1>4. /\ [shared EXCEPT !.waiting = 0] \in Statics
      /\ shared.waiting + 1 < Span => [shared EXCEPT !.waiting = @ + 1] \in Statics
  BY <1>1, Constants DEF Statics
<1>5. [shared EXCEPT !.dead = @ + 1] \in Statics
  BY <1>1 DEF Statics
<1>6. /\ shared.hit + 1 >= Span \/ shared.hit + 1 < Span
      /\ shared.release + 1 >= Span \/ shared.release + 1 < Span
      /\ shared.waiting + 1 >= Span \/ shared.waiting + 1 < Span
      /\ ~(shared.hit + 1 >= Span /\ shared.hit + 1 < Span)
      /\ ~(shared.release + 1 >= Span /\ shared.release + 1 < Span)
      /\ ~(shared.waiting + 1 >= Span /\ shared.waiting + 1 < Span)
  BY <1>1, Constants DEF Statics
<1>7. CASE s = "HIT"
  <2>1. \/ CopyTick(s) = [state |-> "IDLE", s |-> [shared EXCEPT !.hit = 0]]
        \/ /\ shared.hit + 1 < Span
           /\ CopyTick(s) = [state |-> s, s |-> [shared EXCEPT !.hit = @ + 1]]
    BY <1>6, <1>7 DEF CopyTick
  <2>. QED
    BY <1>2, <1>7, <2>1 DEF CopyStates
<1>8. CASE s = "RELEASE"
  <2>1. \/ CopyTick(s) = [state |-> "IDLE", s |-> [shared EXCEPT !.release = 0]]
        \/ /\ shared.release + 1 < Span
           /\ CopyTick(s) = [state |-> s, s |-> [shared EXCEPT !.release = @ + 1]]
    BY <1>6, <1>8 DEF CopyTick
  <2>. QED
    BY <1>3, <1>8, <2>1 DEF CopyStates
<1>9. CASE s = "SKILL_WAITING"
  <2>1. \/ CopyTick(s) = [state |-> "SKILL_END", s |-> [shared EXCEPT !.waiting = 0]]
        \/ /\ shared.waiting + 1 < Span
           /\ CopyTick(s) = [state |-> s, s |-> [shared EXCEPT !.waiting = @ + 1]]
    BY <1>6, <1>9 DEF CopyTick
  <2>. QED
    BY <1>4, <1>9, <2>1 DEF CopyStates, Casting
<1>10. CASE s \in {"SKILL_END", "IDLE"}
  <2>1. CopyTick(s) = [state |-> "IDLE", s |-> shared]
    BY <1>10 DEF CopyTick
  <2>. QED
    BY <1>1, <2>1 DEF CopyStates
<1>11. CASE s = "DEAD"
  <2>1. CopyTick(s) = [state |-> s, s |-> [shared EXCEPT !.dead = @ + 1]]
    BY <1>11 DEF CopyTick
  <2>. QED
    BY <1>5, <1>11, <2>1 DEF CopyStates
<1>. QED
  BY <1>7, <1>8, <1>9, <1>10, <1>11 DEF CopyStates, Casting

\* An exception changes nothing else.
LEMMA ThrowKeeps ==
  ASSUME IInv, Throw
  PROVE  IInv' /\ Revives
<1>1. UNCHANGED <<me, other, shared, turn, ticking, observed>> /\ threw' \in BOOLEAN
  BY Zenon DEF Throw
<1>. QED
  BY <1>1 DEF IInv, Typed, TypeOK, DeadWithoutHealth, CollidersFollowState, Revives

LEMMA TickOtherKeeps ==
  ASSUME IInv, NEW q \in Others, TickOther(q)
  PROVE  IInv' /\ Revives
<1>1. CASE other[q] = "DEAD" /\ shared.dead + 1 >= Span
  BY <1>1, ThrowKeeps DEF TickOther
<1>2. CASE ~(other[q] = "DEAD" /\ shared.dead + 1 >= Span)
  <2>1. other[q] \in CopyStates
    BY DEF IInv, Typed, TypeOK
  <2>2. CopyTick(other[q]).state \in CopyStates /\ CopyTick(other[q]).s \in Statics
    BY <1>2, <2>1, CopyTickTyped
  <2>3. /\ other' = [other EXCEPT ![q] = CopyTick(other[q]).state]
        /\ shared' = CopyTick(other[q]).s
        /\ turn = "others" /\ turn' = AfterTick(ticking \ {q})
        /\ ticking' = IF turn' = "collide" THEN Others ELSE ticking \ {q}
        /\ UNCHANGED <<me, observed, threw>>
    BY <1>2 DEF TickOther
  <2>4. TypeOK'
    <3>1. other' \in [Others -> CopyStates] /\ shared' \in Statics
      BY <2>2, <2>3 DEF IInv, Typed, TypeOK
    <3>2. turn' \in {"me", "others", "collide"} /\ ticking' \subseteq Others
      BY <2>3 DEF IInv, Typed, TypeOK, AfterTick
    <3>. QED
      BY <2>3, <3>1, <3>2 DEF IInv, Typed, TypeOK, Statics
  <2>. QED
    BY <2>3, <2>4 DEF IInv, Typed, DeadWithoutHealth, CollidersFollowState, Revives
<1>. QED
  BY <1>1, <1>2

\* A callback that leaves m of my player: alive unless it is dead, with the
\* colliders it had.  No callback revives.
LEMMA CollideKeeps ==
  ASSUME IInv, NEW m \in Players, turn = "collide", me' = m,
         UNCHANGED <<other, shared, turn, ticking, observed, threw>>,
         m.hp = 0 => m.state = "DEAD",
         m.attack = me.attack /\ m.skill = me.skill /\ m.detect = me.detect,
         m.state = "IDLE" => me.state = "IDLE"
  PROVE  IInv' /\ Revives
<1>1. TypeOK' /\ me'.frame < Span
  BY Constants DEF IInv, Typed, TypeOK, Players
<1>2. CollidersFollowState'
  BY DEF IInv, CollidersFollowState
<1>. QED
  BY <1>1, <1>2 DEF IInv, Typed, DeadWithoutHealth, Revives

LEMMA CallbackKeeps ==
  ASSUME IInv, Callback
  PROVE  IInv' /\ Revives
<1>. USE DEF Overlap, Collide, Told
<1>1. me \in Players /\ (me.hp = 0 => me.state = "DEAD")
  BY MeTyped DEF IInv, DeadWithoutHealth
<1>2. ASSUME NEW d \in Damages, Overlap(OnDamaged(me, d))
      PROVE  IInv' /\ Revives
  <2>1. d \in Nat
    BY Constants
  <2>. QED
    BY <1>1, <1>2, <2>1, DamagedTyped, CollideKeeps
<1>3. CASE OverlapUntold
  BY <1>3, ThrowKeeps DEF OverlapUntold, Untold
<1>4. CASE Fall
  <2>1. /\ SetState(me, "DEAD") \in Players /\ SetState(me, "DEAD").state = "DEAD"
    BY <1>1, SetStateTyped, StateNames
  <2>2. /\ SetState(me, "DEAD").attack = me.attack /\ SetState(me, "DEAD").skill = me.skill
        /\ SetState(me, "DEAD").detect = me.detect
    BY <1>1 DEF Players, SetState
  <2>. QED
    BY <1>4, <2>1, <2>2, CollideKeeps DEF Fall
<1>5. CASE me.hp < PlayerHp /\ Overlap([me EXCEPT !.hp = Healed(me.hp, HealAmount)])
  <2>. DEFINE m == [me EXCEPT !.hp = Healed(me.hp, HealAmount)]
  <2>1. Healed(me.hp, HealAmount) \in 0 .. PlayerHp /\ Healed(me.hp, HealAmount) # 0
    BY <1>1, HealedSome, Constants DEF Players
  <2>2. /\ m \in Players /\ m.hp # 0 /\ m.state = me.state
        /\ m.attack = me.attack /\ m.skill = me.skill /\ m.detect = me.detect
    BY <1>1, <2>1 DEF Players
  <2>. HIDE DEF m
  <2>. QED
    BY <1>5, <2>2, CollideKeeps DEF m
<1>6. CASE Overlap([me EXCEPT !.sp = IF @ < 5 THEN @ + 1 ELSE 5])
  <2>. DEFINE m == [me EXCEPT !.sp = IF @ < 5 THEN @ + 1 ELSE 5]
  <2>1. (IF me.sp < 5 THEN me.sp + 1 ELSE 5) \in 0 .. 5
    BY <1>1 DEF Players
  <2>2. /\ m \in Players /\ m.hp = me.hp /\ m.state = me.state
        /\ m.attack = me.attack /\ m.skill = me.skill /\ m.detect = me.detect
    BY <1>1, <2>1 DEF Players
  <2>. HIDE DEF m
  <2>. QED
    BY <1>1, <1>6, <2>2, CollideKeeps DEF m
<1>7. CASE SpendSkillPoint
  <2>. DEFINE m == SubtractSkillPoint(me, 3)
  <2>1. m \in Players /\ m.hp = me.hp /\ m.state = me.state
    BY <1>1, SubtractTyped
  <2>2. m.attack = me.attack /\ m.skill = me.skill /\ m.detect = me.detect
    BY <1>1 DEF Players, SubtractSkillPoint
  <2>. QED
    BY <1>1, <1>7, <2>1, <2>2, CollideKeeps DEF SpendSkillPoint
<1>. QED
  BY <1>2, <1>3, <1>4, <1>5, <1>6, <1>7 DEF Callback, MonsterAttack, ProjectileHit, TakeHeal,
     GainSkillPoint

\* What is left of Next leaves my player alone.
LEMMA RestKeeps ==
  ASSUME IInv, EndFrame \/ (\E q \in Others : CopyFalls(q) \/ CopyHurt(q)) \/ UNCHANGED vars
  PROVE  IInv' /\ Revives
<1>1. CASE EndFrame
  BY <1>1 DEF EndFrame, IInv, Typed, TypeOK, DeadWithoutHealth, CollidersFollowState, Revives
<1>2. ASSUME NEW q \in Others, CopyFalls(q)
      PROVE  IInv' /\ Revives
  BY <1>2 DEF CopyFalls, Collide, CopyStates, IInv, Typed, TypeOK, DeadWithoutHealth,
     CollidersFollowState, Revives
<1>3. ASSUME NEW q \in Others, CopyHurt(q)
      PROVE  IInv' /\ Revives
  BY <1>3, ThrowKeeps DEF CopyHurt
<1>4. CASE UNCHANGED vars
  BY <1>4 DEF vars, IInv, Typed, TypeOK, DeadWithoutHealth, CollidersFollowState, Revives
<1>. QED
  BY <1>1, <1>2, <1>3, <1>4

LEMMA StepKeeps ==
  ASSUME IInv, [Next]_vars
  PROVE  IInv' /\ Revives
BY TickMeHandled, HandledKeeps, TickOtherKeeps, CallbackKeeps, RestKeeps DEF Next, Frame, Ended

\* The game begins with a player who is well, whatever was wired.
LEMMA InitIInv == Init => IInv
<1>. SUFFICES ASSUME Init
              PROVE  IInv
  OBVIOUS
<1>1. me \in Players
  BY Constants, Flags, StateNames DEF Init, Players
<1>2. shared \in Statics
  BY Constants, Flags DEF Init, Statics
<1>3. observed \in BOOLEAN /\ threw \in BOOLEAN
  BY Constants, Flags, Zenon DEF Init
<1>4. TypeOK /\ me.frame < Span
  BY <1>1, <1>2, <1>3, Constants DEF Init, TypeOK, Players, Statics, CopyStates
<1>5. me.hp # 0 /\ ~me.attack /\ ~me.skill /\ turn = "me"
  BY Constants DEF Init
<1>. QED
  BY <1>4, <1>5 DEF IInv, Typed, DeadWithoutHealth, CollidersFollowState

LEMMA Inductive == Spec => []IInv
<1>1. IInv /\ [Next]_vars => IInv'
  BY StepKeeps
<1>. QED
  BY InitIInv, <1>1, PTL DEF Spec

-----------------------------------------------------------------------------
\* Every variable of the player keeps its type, whatever hurts and heals him and
\* in whatever order (Player.cpp, MyPlayer.cpp).
THEOREM TypeCorrect == Spec => []TypeOK
<1>1. IInv => TypeOK
  BY DEF IInv, Typed
<1>. QED
  BY Inductive, <1>1, PTL

\* No blow, window, fall or item leaves a player at zero health in a state he can
\* play in, for any damages and any health (Player.cpp:703-714, 800-872).
THEOREM NoHealthNoLife == Spec => []DeadWithoutHealth
<1>1. IInv => DeadWithoutHealth
  BY DEF IInv
<1>. QED
  BY Inductive, <1>1, PTL

\* Whatever interrupts a blow or a skill, the next tick leaves no collider of it,
\* and the attacking, the skill's and the detecting collider are never together
\* (Player.cpp, TickColliderCreationAndRemove).
THEOREM OwnColliders == Spec => []CollidersFollowState
<1>1. IInv => CollidersFollowState
  BY DEF IInv
<1>. QED
  BY Inductive, <1>1, PTL

\* The only way from DEAD to IDLE restores all the health and takes all the skill
\* points, also for who died of a fall with health left, and though AddHealthPoint
\* adds the truth value of a comparison (Player.cpp:505-545, 844).
THEOREM RevivesWhole == Spec => RevivedWhole
<1>1. IInv /\ [Next]_vars => Revives
  BY StepKeeps
<1>. QED
  BY Inductive, <1>1, PTL DEF Spec, RevivedWhole, Revives
================================================================================
