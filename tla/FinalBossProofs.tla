---------------------------- MODULE FinalBossProofs ----------------------------
(***************************************************************************)
(* Safety of FinalBoss for any health, any damages and any lengths of its  *)
(* timers: the tree runs one behaviour a frame whatever a behaviour        *)
(* without a return seems to have returned, a crystal phase begins at most *)
(* once, and nothing but its own end ends it once its crystals stand.      *)
(***************************************************************************)
EXTENDS FinalBoss, TLAPS

-----------------------------------------------------------------------------
\* The monsters' timer is due between the tree and the end of Tick only, and
\* never in a frame that began in a crystal phase.
TimerInTime ==
  /\ step \in {"tick", "collide"} => monsterTime < MonsterEvery
  /\ began = "CRYSTAL_CREATION" => monsterTime < MonsterEvery

\* A frame's first behaviour is run from the first child on, and after it the
\* state belongs to a child the selector has passed.
SelectorPassed ==
  step = "run" => \/ acted = 0 /\ at = 0
                  \/ acted = 1 /\ IndexOf(state) <= at

\* The first two phases are marked when they begin; the third is never marked,
\* and only a marked third phase could begin.
PhasesMarked ==
  /\ \A n \in 1 .. 2 : phases[n] = IF n \in worked THEN 1 ELSE 0
  /\ 3 \notin worked /\ phases[3] = 0

\* A frame's state is the one it began with until a behaviour has run.  Only Hit
\* begins a phase, and its time runs from the next frame on.
PhaseFrames ==
  /\ step = "run" /\ acted = 0 => began = state
  /\ state = "CRYSTAL_CREATION" => began \in {"HIT", "CRYSTAL_CREATION"}
  /\ state # "CRYSTAL_CREATION" \/ began # "CRYSTAL_CREATION" => crystalTime = 0 /\ ~spawned

IInv ==
  /\ TypeOK /\ TimerInTime /\ OneBehaviourPerRun /\ SelectorPassed
  /\ PhasesMarked /\ PhaseFrames

-----------------------------------------------------------------------------
(* The children of the selector.                                           *)

\* The place of each child is what IndexOf finds for its state.
LEMMA ChildIndex == \A i \in 1 .. 12 : IndexOf(Children[i]) = i
<1>1. DOMAIN Children = 1 .. 12
  BY DEF Children
<1>2. \A i, j \in 1 .. 12 : Children[i] = Children[j] => i = j
  BY DEF Children
<1>. QED
  BY <1>1, <1>2 DEF IndexOf

\* Each state is the test of one child.
LEMMA StateIndex == \A s \in States : IndexOf(s) \in 1 .. 12
<1>1. DOMAIN Children = 1 .. 12
  BY DEF Children
<1>. QED
  BY <1>1, ChildIndex DEF States

\* The states by name.
LEMMA StateNames ==
  States = {"IDLE", "CHASE", "HIT", "DEAD", "CRYSTAL_CREATION", "THRUST", "BACK_STEP",
            "LONG_ATTACK_LENGTH", "LONG_ATTACK_WIDTH", "DASH", "TELEPORT", "CUT_SEVERELY"}
<1>1. DOMAIN Children = 1 .. 12
  BY DEF Children
<1>. QED
  BY <1>1 DEF States, Children

LEMMA ChildCount == Len(Children) = 12
BY DEF Children

-----------------------------------------------------------------------------
(* A run of the tree.                                                      *)

\* A behaviour runs; one whose result lets the selector go on has left the
\* state alone.
Behaves ==
  \E s \in States, result \in Results :
    Runs(s) /\ Returns(s, result) /\ (result = "FAIL" => UNCHANGED state)

\* A step of the tree is a behaviour or the end of the selector.
LEMMA TreeBehaves == Tree => Behaves \/ TreeFails
<1>. USE StateNames DEF Behaves, Results, NoReturn
<1>1. Idle => Behaves
  BY DEF Idle
<1>2. Chase => Behaves
  BY DEF Chase
<1>3. Hit => Behaves
  BY DEF Hit
<1>4. Dead => Behaves
  BY DEF Dead
<1>5. CrystalCreation => Behaves
  BY DEF CrystalCreation
<1>6. Thrust => Behaves
  BY DEF Thrust
<1>7. BackStepOrDash => Behaves
  BY DEF BackStepOrDash
<1>8. LongAttack => Behaves
  BY DEF LongAttack, Volleys
<1>9. Teleport => Behaves
  BY DEF Teleport
<1>10. CutSeverely => Behaves
  BY DEF CutSeverely
<1>. QED
  BY <1>1, <1>2, <1>3, <1>4, <1>5, <1>6, <1>7, <1>8, <1>9, <1>10 DEF Tree

\* What the boss is keeps its type, but for the history of the phases.
BossTyped ==
  /\ state \in States /\ hp \in 0 .. MaxHp
  /\ sum \in Nat /\ count \in 0 .. Volley + 1 /\ image \in 0 .. ThrustEnd
  /\ collider \in {"none", "THRUST", "CUT_SEVERELY"}
  /\ crystalTime \in 0 .. CrystalSpan /\ worked \subseteq 1 .. 3

\* The constants' types one by one.
LEMMA Constants ==
  /\ MaxHp \in Nat \ {0} /\ Damages \subseteq Nat \ {0}
  /\ Gap \in Nat /\ Volley \in Nat /\ Short \in Nat /\ Long \in Nat /\ ThrustEnd \in Nat \ {0}
  /\ CrystalSpan \in Nat \ {0} /\ MonsterEvery \in Nat \ {0}
BY BossAssumption

\* A change of state keeps the image in range ...
LEMMA SetStateTyped ==
  ASSUME TypeOK, NEW s \in States, SetState(s)
  PROVE  state' \in States /\ image' \in 0 .. ThrustEnd
BY Constants DEF SetState, TypeOK

\* ... whichever state of a set it is to.
LEMMA SetOneTyped ==
  ASSUME TypeOK, NEW S \in SUBSET States, \E s \in S : SetState(s)
  PROVE  state' \in States /\ image' \in 0 .. ThrustEnd
BY SetStateTyped

\* The sets the behaviours choose their next state from.
LEMMA NextStates ==
  /\ {"TELEPORT", "CHASE"} \in SUBSET States
  /\ {"TELEPORT", "THRUST"} \cup Volleys \in SUBSET States
  /\ {"IDLE", "CUT_SEVERELY"} \in SUBSET States
  /\ "IDLE" \in States /\ "CHASE" \in States /\ "HIT" \in States /\ "DEAD" \in States
  /\ "CRYSTAL_CREATION" \in States /\ "BACK_STEP" \in States /\ "DASH" \in States
BY StateNames DEF Volleys

\* The phase that begins is one of the three.
LEMMA DueTyped ==
  ASSUME TypeOK, CrystalDue
  PROVE  worked' \subseteq 1 .. 3 /\ phases' \in [1 .. 3 -> Nat]
<1>1. PICK n \in 1 .. 3 : /\ worked' = worked \cup {n}
                          /\ phases' = [phases EXCEPT ![n] = @ + 1]
  BY DEF CrystalDue
<1>. QED
  BY <1>1 DEF TypeOK

LEMMA TreeTyped ==
  ASSUME TypeOK, Tree
  PROVE  BossTyped' /\ phases' \in [1 .. 3 -> Nat]
<1>. USE Constants, NextStates
<1>1. CASE Idle
  <2>1. state' \in States /\ image' \in 0 .. ThrustEnd
    BY <1>1, SetOneTyped DEF Idle, TypeOK
  <2>. QED
    BY <1>1, <2>1 DEF Idle, TypeOK, BossTyped
<1>2. CASE Chase
  <2>1. state' \in States /\ image' \in 0 .. ThrustEnd
    BY <1>2, SetOneTyped DEF Chase, TypeOK
  <2>. QED
    BY <1>2, <2>1 DEF Chase, TypeOK, BossTyped
<1>3. CASE Hit
  <2>1. state' \in States /\ image' \in 0 .. ThrustEnd
    BY <1>3, SetStateTyped DEF Hit, TypeOK
  <2>2. worked' \subseteq 1 .. 3 /\ phases' \in [1 .. 3 -> Nat]
    BY <1>3, DueTyped DEF Hit, TypeOK
  <2>3. sum' \in Nat
    BY <1>3 DEF Hit, TypeOK
  <2>. QED
    BY <1>3, <2>1, <2>2, <2>3 DEF Hit, TypeOK, BossTyped
<1>4. CASE Dead
  BY <1>4 DEF Dead, boss, TypeOK, BossTyped
<1>5. CASE CrystalCreation
  <2>1. state' \in States /\ image' \in 0 .. ThrustEnd
    BY <1>5, SetStateTyped DEF CrystalCreation, TypeOK
  <2>2. hp' \in 0 .. MaxHp
    BY <1>5 DEF CrystalCreation, TypeOK
  <2>3. crystalTime' \in 0 .. CrystalSpan
    BY <1>5 DEF CrystalCreation, TypeOK
  <2>. QED
    BY <1>5, <2>1, <2>2, <2>3 DEF CrystalCreation, TypeOK, BossTyped
<1>6. CASE Thrust
  <2>1. state' \in States /\ image' \in 0 .. ThrustEnd
    BY <1>6, SetStateTyped DEF Thrust, TypeOK
  <2>2. collider' \in {"none", "THRUST", "CUT_SEVERELY"}
    BY <1>6 DEF Thrust, TypeOK
  <2>. QED
    BY <1>6, <2>1, <2>2 DEF Thrust, TypeOK, BossTyped
<1>7. CASE BackStepOrDash
  <2>1. state' \in States /\ image' \in 0 .. ThrustEnd
    BY <1>7, SetStateTyped DEF BackStepOrDash, TypeOK
  <2>. QED
    BY <1>7, <2>1 DEF BackStepOrDash, TypeOK, BossTyped
<1>8. CASE LongAttack
  <2>1. state' \in States /\ image' \in 0 .. ThrustEnd
    BY <1>8, SetStateTyped DEF LongAttack, TypeOK
  <2>2. sum' \in Nat /\ count' \in 0 .. Volley + 1
    BY <1>8 DEF LongAttack, TypeOK
  <2>. QED
    BY <1>8, <2>1, <2>2 DEF LongAttack, TypeOK, BossTyped
<1>9. CASE Teleport
  <2>1. state' \in States /\ image' \in 0 .. ThrustEnd
    BY <1>9, SetOneTyped DEF Teleport, TypeOK
  <2>. QED
    BY <1>9, <2>1 DEF Teleport, TypeOK, BossTyped
<1>10. CASE CutSeverely
  <2>1. state' \in States /\ image' \in 0 .. ThrustEnd
    BY <1>10, SetStateTyped DEF CutSeverely, TypeOK
  <2>2. collider' \in {"none", "THRUST", "CUT_SEVERELY"} /\ sum' \in Nat
    BY <1>10 DEF CutSeverely, TypeOK
  <2>. QED
    BY <1>10, <2>1, <2>2 DEF CutSeverely, TypeOK, BossTyped
<1>11. CASE TreeFails
  BY <1>11 DEF TreeFails, boss, TypeOK, BossTyped
<1>. QED
  BY <1>1, <1>2, <1>3, <1>4, <1>5, <1>6, <1>7, <1>8, <1>9, <1>10, <1>11 DEF Tree

\* The two flags stay flags.
LEMMA FlagsTyped ==
  ASSUME spawned \in BOOLEAN, waiting \in BOOLEAN, [Next]_vars
  PROVE  spawned' \in BOOLEAN /\ waiting' \in BOOLEAN
<1>1. spawned' \in {spawned, TRUE, FALSE} /\ waiting' \in {waiting, TRUE, FALSE}
  BY Zenon DEF Next, Frame, TickBegins, Tree, Idle, Chase, Hit, Dead, CrystalCreation, Thrust,
     BackStepOrDash, LongAttack, Teleport, CutSeverely, TreeFails, TickEnds, FrameEnds, OnDamaged,
     vars, boss
<1>. QED
  BY <1>1, Zenon

-----------------------------------------------------------------------------
(* The inductive invariant.                                                *)

\* The animation of the thrust comes round to its first image.
LEMMA ImageWraps == \A i \in 0 .. ThrustEnd : (i + 1) % (ThrustEnd + 1) \in 0 .. ThrustEnd
BY Constants

LEMMA InitIInv == Init => IInv
<1>. SUFFICES ASSUME Init
              PROVE  IInv
  OBVIOUS
<1>1. spawned \in BOOLEAN /\ waiting \in BOOLEAN
  BY Zenon DEF Init
<1>2. state \in States /\ began \in States
  BY NextStates DEF Init
<1>3. TypeOK
  BY <1>1, <1>2, Constants, ChildCount DEF Init, TypeOK
<1>. QED
  BY <1>3, Constants DEF Init, IInv, TimerInTime, OneBehaviourPerRun, SelectorPassed, PhasesMarked,
     PhaseFrames

\* Every step keeps the types and the monsters' timer in time.
LEMMA TypeStep ==
  ASSUME IInv, [Next]_vars
  PROVE  TypeOK' /\ TimerInTime'
<1>. USE Constants, ChildCount DEF IInv
<1>0. spawned' \in BOOLEAN /\ waiting' \in BOOLEAN
  BY FlagsTyped DEF TypeOK
<1>1. CASE TickBegins
  <2>1. image' \in 0 .. ThrustEnd
    BY <1>1, ImageWraps DEF TickBegins, TypeOK
  <2>2. monsterTime' \in 0 .. MonsterEvery
    BY <1>1 DEF TickBegins, TypeOK, TimerInTime
  <2>3. began' = "CRYSTAL_CREATION" => monsterTime' < MonsterEvery
    BY <1>1 DEF TickBegins, TypeOK, TimerInTime
  <2>. QED
    BY <1>0, <1>1, <2>1, <2>2, <2>3 DEF TickBegins, TypeOK, TimerInTime
<1>2. CASE Behaves /\ Tree
  <2>1. PICK s \in States, result \in Results : Runs(s) /\ Returns(s, result)
    BY <1>2 DEF Behaves
  <2>2. at' \in 0 .. 12 /\ step' \in {"run", "end"} /\ acted' \in Nat
    BY <2>1, StateIndex DEF Returns, TypeOK
  <2>3. UNCHANGED <<monsterTime, began>> /\ step = "run"
    BY <2>1 DEF Returns, Runs
  <2>4. BossTyped' /\ phases' \in [1 .. 3 -> Nat]
    BY <1>2, TreeTyped
  <2>5. TypeOK'
    BY <1>0, <2>2, <2>3, <2>4 DEF TypeOK, BossTyped
  <2>6. TimerInTime'
    BY <2>2, <2>3 DEF TimerInTime
  <2>. QED
    BY <2>5, <2>6
<1>3. CASE TreeFails
  BY <1>0, <1>3 DEF TreeFails, boss, TypeOK, TimerInTime
<1>4. CASE TickEnds
  <2>1. state' \in States /\ image' \in 0 .. ThrustEnd
    BY <1>4, SetStateTyped, NextStates DEF TickEnds, TypeOK
  <2>2. monsterTime' \in 0 .. MonsterEvery /\ monsterTime' < MonsterEvery
    BY <1>4 DEF TickEnds, TypeOK
  <2>. QED
    BY <1>0, <1>4, <2>1, <2>2 DEF TickEnds, TypeOK, TimerInTime
<1>5. CASE FrameEnds
  BY <1>0, <1>5 DEF FrameEnds, boss, TypeOK, TimerInTime
<1>6. CASE OnDamaged
  <2>1. state' \in States /\ image' \in 0 .. ThrustEnd
    <3>1. \E s \in {"DEAD", "HIT"} : SetState(s)
      BY <1>6 DEF OnDamaged
    <3>. QED
      BY <3>1, SetOneTyped, NextStates
  <2>2. hp' \in 0 .. MaxHp
    BY <1>6 DEF OnDamaged, TypeOK
  <2>. QED
    BY <1>0, <1>6, <2>1, <2>2 DEF OnDamaged, TypeOK, TimerInTime
<1>7. CASE UNCHANGED vars
  BY <1>0, <1>7 DEF vars, boss, TypeOK, TimerInTime
<1>. QED
  BY <1>1, <1>2, <1>3, <1>4, <1>5, <1>6, <1>7, TreeBehaves DEF Next, Frame

\* Every step keeps the selector from a second behaviour.
LEMMA SelectorStep ==
  ASSUME IInv, [Next]_vars
  PROVE  OneBehaviourPerRun' /\ SelectorPassed'
<1>. USE DEF IInv, OneBehaviourPerRun, SelectorPassed
<1>1. CASE TickBegins
  BY <1>1 DEF TickBegins
<1>2. CASE Behaves
  <2>1. PICK s \in States, result \in Results :
          Runs(s) /\ Returns(s, result) /\ (result = "FAIL" => UNCHANGED state)
    BY <1>2 DEF Behaves
  <2>2. acted = 0
    BY <2>1, StateIndex, ChildCount DEF Runs, TypeOK
  <2>3. acted' = 1 /\ at' = IndexOf(s)
    BY <2>1, <2>2 DEF Returns
  <2>4. CASE result = "FAIL"
    <3>1. step' = "run" /\ IndexOf(state') <= at'
      BY <2>1, <2>3, <2>4, StateIndex DEF Returns, Runs
    <3>. QED
      BY <2>3, <3>1
  <2>5. CASE result # "FAIL"
    BY <2>1, <2>3, <2>5 DEF Returns
  <2>. QED
    BY <2>4, <2>5
<1>3. CASE TreeFails
  <2>1. acted = 1
    BY <1>3, StateIndex, ChildCount DEF TreeFails, TypeOK
  <2>. QED
    BY <1>3, <2>1 DEF TreeFails
<1>4. CASE TickEnds
  BY <1>4 DEF TickEnds
<1>5. CASE FrameEnds
  BY <1>5 DEF FrameEnds
<1>6. CASE OnDamaged
  BY <1>6 DEF OnDamaged
<1>7. CASE UNCHANGED vars
  BY <1>7 DEF vars, boss
<1>. QED
  BY <1>1, <1>2, <1>3, <1>4, <1>5, <1>6, <1>7, TreeBehaves DEF Next, Frame

\* Every step marks the phase that begins.
LEMMA PhasesStep ==
  ASSUME IInv, [Next]_vars
  PROVE  PhasesMarked'
<1>1. CASE Hit /\ CrystalDue
  <2>1. PICK n \in 1 .. 3 : /\ Due(n)
                            /\ worked' = worked \cup {n}
                            /\ phases' = [phases EXCEPT ![n] = @ + 1]
    BY <1>1 DEF CrystalDue
  <2>2. n \in 1 .. 2 /\ n \notin worked
    BY <2>1 DEF Due, IInv, PhasesMarked
  <2>. QED
    BY <2>1, <2>2 DEF IInv, PhasesMarked, TypeOK
<1>2. CASE UNCHANGED <<worked, phases>>
  BY <1>2 DEF IInv, PhasesMarked
<1>3. (Hit /\ CrystalDue) \/ UNCHANGED <<worked, phases>>
  BY Zenon DEF Next, Frame, TickBegins, Tree, Idle, Chase, Hit, Dead, CrystalCreation, Thrust,
     BackStepOrDash, LongAttack, Teleport, CutSeverely, TreeFails, TickEnds, FrameEnds, OnDamaged,
     vars, boss
<1>. QED
  BY <1>1, <1>2, <1>3

\* A behaviour that runs is the first of its frame, for the selector has passed the
\* state of the one before.
LEMMA FirstBehaviour ==
  ASSUME IInv, NEW s \in States, Runs(s)
  PROVE  acted = 0 /\ began = state
<1>1. acted = 0
  BY StateIndex, ChildCount DEF IInv, SelectorPassed, Runs, TypeOK
<1>. QED
  BY <1>1 DEF IInv, PhaseFrames, Runs

\* Every step keeps what a frame knows of the phase.
LEMMA FramesStep ==
  ASSUME IInv, [Next]_vars
  PROVE  PhaseFrames'
<1>. USE DEF IInv, PhaseFrames
<1>0. spawned \in BOOLEAN /\ acted \in Nat
  BY DEF TypeOK
<1>1. CASE TickBegins
  BY <1>1 DEF TickBegins
<1>2. CASE Tree
  <2>1. CASE Hit
    <3>1. acted = 0 /\ began = state /\ state = "HIT"
      BY <2>1, FirstBehaviour, NextStates DEF Hit, Runs
    <3>2. UNCHANGED <<crystalTime, spawned, began>> /\ acted' = acted + 1
      BY <2>1, Zenon DEF Hit, Returns
    <3>. QED
      BY <3>1, <3>2
  <2>2. CASE CrystalCreation
    <3>0. acted = 0 /\ began = state /\ state = "CRYSTAL_CREATION"
      BY <2>2, FirstBehaviour, NextStates DEF CrystalCreation, Runs
    <3>1. /\ state = "CRYSTAL_CREATION" /\ began = state /\ UNCHANGED began /\ acted' # 0
      BY <2>2, <3>0 DEF CrystalCreation, Returns
    <3>2. CASE crystalTime + 1 >= CrystalSpan
      BY <2>2, <3>1, <3>2 DEF CrystalCreation, SetState
    <3>3. CASE ~(crystalTime + 1 >= CrystalSpan)
      BY <2>2, <3>1, <3>3 DEF CrystalCreation
    <3>. QED
      BY <3>2, <3>3
  <2>3. CASE TreeFails
    BY <2>3, <1>0 DEF TreeFails, boss
  <2>4. CASE ~Hit /\ ~CrystalCreation /\ ~TreeFails
    <3>1. /\ state # "CRYSTAL_CREATION" /\ state' # "CRYSTAL_CREATION" /\ acted' = acted + 1
          /\ UNCHANGED <<crystalTime, spawned, began>>
      BY <1>2, <2>4 DEF Tree, Idle, Chase, Dead, Thrust, BackStepOrDash, LongAttack, Volleys,
         Teleport, CutSeverely, Runs, Returns, NoReturn, SetState, boss
    <3>. QED
      BY <1>0, <3>1
  <2>. QED
    BY <2>1, <2>2, <2>3, <2>4
<1>3. CASE TickEnds
  <2>1. /\ UNCHANGED <<began, crystalTime, spawned>> /\ step' = "collide" /\ step = "end"
        /\ state' = state \/ (state' = "IDLE" /\ monsterTime >= MonsterEvery)
    BY <1>3 DEF TickEnds, SetState
  <2>2. CASE state' = state
    BY <2>1, <2>2
  <2>3. CASE monsterTime >= MonsterEvery /\ state' = "IDLE"
    <3>1. began # "CRYSTAL_CREATION"
      BY <2>3, Constants DEF TimerInTime, TypeOK
    <3>. QED
      BY <2>1, <2>3, <3>1
  <2>. QED
    BY <2>1, <2>2, <2>3
<1>4. CASE FrameEnds
  BY <1>4 DEF FrameEnds, boss
<1>5. CASE OnDamaged
  BY <1>5 DEF OnDamaged, SetState
<1>6. CASE UNCHANGED vars
  BY <1>6 DEF vars, boss
<1>. QED
  BY <1>1, <1>2, <1>3, <1>4, <1>5, <1>6 DEF Next, Frame

LEMMA Inductive == Spec => []IInv
<1>1. IInv /\ [Next]_vars => IInv'
  BY TypeStep, SelectorStep, PhasesStep, FramesStep DEF IInv
<1>. QED
  BY InitIInv, <1>1, PTL DEF Spec

-----------------------------------------------------------------------------
\* Every variable of the boss keeps its type, whatever his health and timers are
\* (FinalBoss.h, FinalBoss.cpp).
THEOREM TypeCorrect == Spec => []TypeOK
<1>1. IInv => TypeOK
  BY DEF IInv
<1>. QED
  BY Inductive, <1>1, PTL

\* The selector of FinalBoss.cpp runs one behaviour in each Tick, no fewer and no
\* more, whatever value the behaviours that end without a return leave behind.
THEOREM OneBehaviour == Spec => []OneBehaviourPerRun
<1>1. IInv => OneBehaviourPerRun
  BY DEF IInv
<1>. QED
  BY Inductive, <1>1, PTL

\* Whatever health the boss regains and whatever levels the phases are due at, the
\* first two crystal phases begin once at most and the third never does.
THEOREM EachPhaseOnce == Spec => []PhasesOnce
<1>1. IInv => PhasesOnce
  <2>1. IInv => phases[1] <= 1 /\ phases[2] <= 1 /\ phases[3] = 0
    BY DEF IInv, PhasesMarked
  <2>. QED
    BY <2>1 DEF PhasesOnce
<1>. QED
  BY Inductive, <1>1, PTL

\* In a crystal phase the boss loses no health, and only the end of its time leaves
\* it, or the creation of monsters in the very frame in which Hit began it
\* (FinalBoss.cpp:225-234), before any of its time has passed or a crystal stands.
THEOREM PhaseEndsOrLost == Spec => PhaseEndsOrIsLost
<1>. DEFINE Ends ==
       state = "CRYSTAL_CREATION" =>
         /\ hp' >= hp
         /\ state' # state =>
              \/ step = "run" /\ crystalTime + 1 >= CrystalSpan
              \/ step = "end" /\ began = "HIT" /\ crystalTime = 0 /\ ~spawned
<1>1. ASSUME IInv, [Next]_vars
      PROVE  Ends
  <2>. SUFFICES ASSUME state = "CRYSTAL_CREATION"
                PROVE  /\ hp' >= hp
                       /\ state' # state =>
                            \/ step = "run" /\ crystalTime + 1 >= CrystalSpan
                            \/ step = "end" /\ began = "HIT" /\ crystalTime = 0 /\ ~spawned
    OBVIOUS
  <2>0. hp \in 0 .. MaxHp /\ MaxHp \in Nat
    BY <1>1, Constants DEF IInv, TypeOK
  <2>1. CASE CrystalCreation
    BY <2>0, <2>1 DEF CrystalCreation, Runs
  <2>2. CASE TickEnds
    <3>1. UNCHANGED hp /\ step = "end"
      BY <2>2 DEF TickEnds
    <3>2. state' # state => began # "CRYSTAL_CREATION"
      BY <1>1, <2>2, Constants DEF TickEnds, IInv, TypeOK, TimerInTime
    <3>3. began # "CRYSTAL_CREATION" => began = "HIT" /\ crystalTime = 0 /\ ~spawned
      BY <1>1 DEF IInv, PhaseFrames
    <3>. QED
      BY <2>0, <3>1, <3>2, <3>3
  <2>3. CASE UNCHANGED <<hp, state>>
    BY <2>0, <2>3
  <2>4. CrystalCreation \/ TickEnds \/ UNCHANGED <<hp, state>>
    BY <1>1 DEF Next, Frame, TickBegins, Tree, Idle, Chase, Hit, Dead, Thrust, BackStepOrDash,
       LongAttack, Volleys, Teleport, CutSeverely, TreeFails, FrameEnds, OnDamaged, Runs, vars, boss
  <2>. QED
    BY <2>1, <2>2, <2>3, <2>4
<1>. QED
  BY Inductive, <1>1, PTL DEF Spec, PhaseEndsOrIsLost
================================================================================
