------------------------------- MODULE Stages -------------------------------
(***************************************************************************)
(* GameScene's stages and the save file: what SaveCurData writes and       *)
(* LoadGameData reads, the change of stage a frame after it was requested, *)
(* the player's death, and the title's two ways into the game.  All stages *)
(* are like SetStage2 and SetStage3.  Structures and field items are left  *)
(* out; a position is the place where it was set.  The file is the list of *)
(* numbers between its commas.                                             *)
(***************************************************************************)
EXTENDS Integers, Sequences, FiniteSets, SequencesExt

CONSTANTS
  LastStage,      \* the last stage
  StageMonsters,  \* StageMonsters[s]: the ids of stage s
  Items,          \* ids of items
  ItemId,         \* ids from here on are items, 300000
  MaxHp, MaxMonsterHp, MaxSkill,
  SecondChange,   \* may a scene change its stage twice
  None

StageNums == 1 .. LastStage
Monsters == UNION {StageMonsters[s] : s \in StageNums}

ASSUME StagesAssumption ==
  /\ LastStage \in Nat \ {0} /\ {MaxHp, MaxMonsterHp} \subseteq Nat \ {0} /\ MaxSkill \in Nat
  /\ SecondChange \in BOOLEAN /\ ItemId \in Nat \ {0}
  /\ IsFiniteSet(Monsters) /\ IsFiniteSet(Items)
  /\ \A m \in Monsters : m \in 1 .. ItemId - 1
  /\ \A k \in Items : k \in Nat /\ k >= ItemId
  /\ \A s, t \in StageNums : s # t => StageMonsters[s] \cap StageMonsters[t] = {}

VARIABLES
  scene,      \* the GameScene, None in the title and the settings
  player,     \* its MyPlayer
  setting,    \* are the settings open, from the game
  isContinue, \* SceneManager::_isContinue
  file,       \* SaveData.csv
  crashed,    \* a deleted actor was deleted again
  saved,      \* history: player, stage, monsters and their health at the last save
  killed      \* history: monsters killed since the game began

game == <<scene, player, setting>>
history == <<saved, killed>>
vars == <<game, isContinue, file, crashed, history>>

Start(s) == 2 * s
SavePoint(s) == 2 * s + 1
Nothing == [k \in {} |-> 0]

-----------------------------------------------------------------------------
(* The file: stage, position, health, skill points; then pairs of a monster *)
(* and its health; then pairs of an item and how many there are, or 0.      *)

Pairs(f) ==
  FlattenSeq([n \in 1 .. Cardinality(DOMAIN f) |-> LET k == SetToSeq(DOMAIN f)[n] IN <<k, f[k]>>])
Pointers(s) == {m \in DOMAIN s.monsters : s.monsters[m]}

\* Mutation: the dead are not recorded.
Written_NoDead(s, p) ==
  <<s.stage, p.pos, p.hp, p.skill>> \o Pairs([m \in Pointers(s) |-> s.field[m]])
    \o IF DOMAIN p.items = {} THEN <<0>> ELSE Pairs(p.items)

\* SaveCurData.  A registered monster without a pointer is left out.
Written(s, p) ==
  <<s.stage, p.pos, p.hp, p.skill>> \o Pairs([m \in Pointers(s) |-> s.field[m]])
    \o Pairs([m \in s.dead |-> 0])
    \o IF DOMAIN p.items = {} THEN <<0>> ELSE Pairs(p.items)

\* LoadGameData.  The living are registered without a pointer, and the health
\* that was written for them is read and forgotten.
Loaded(s, t) ==
  LET entries == {k \in 1 .. Len(t) : 4 + 2 * k <= Len(t) /\ \A l \in 1 .. k : t[3 + 2 * l] < ItemId}
      rest == 5 + 2 * Cardinality(entries)
      items == IF rest > Len(t) \/ t[rest] = 0 THEN {}
               ELSE {n \in rest .. Len(t) - 1 : (n - rest) % 2 = 0}
      Ids(some) == {t[3 + 2 * k] : k \in some}
  IN [s EXCEPT !.stage = t[1],
               !.loaded = [pos |-> t[2], hp |-> t[3], skill |-> t[4],
                           items |-> [k \in {t[n] : n \in items} |-> t[1 + CHOOSE n \in items : t[n] = k]]],
               !.dead = Ids({k \in entries : t[4 + 2 * k] <= 0}),
               !.monsters = [m \in Ids({k \in entries : t[4 + 2 * k] > 0}) |-> FALSE]]

-----------------------------------------------------------------------------
(* SetStage, which the scene calls at its start and after a request.       *)

NewScene == [stage |-> 1, dead |-> {}, monsters |-> Nothing, field |-> Nothing,
             loaded |-> None, pending |-> 0, changes |-> 0]

\* Mutation: the monsters of the stage before stay registered.
Staged_NoClear(s, n) ==
  [s EXCEPT !.stage = n, !.pending = 0, !.changes = @ + 1,
            !.monsters = [m \in DOMAIN s.monsters \cup (StageMonsters[n] \ s.dead) |-> TRUE],
            !.field = [m \in StageMonsters[n] \ s.dead |-> MaxMonsterHp]]

\* The actors of the stage before go, the monsters that are not dead come.
Staged(s, n) ==
  [s EXCEPT !.stage = n, !.pending = 0, !.changes = @ + 1,
            !.monsters = [m \in StageMonsters[n] \ s.dead |-> TRUE],
            !.field = [m \in StageMonsters[n] \ s.dead |-> MaxMonsterHp]]

Created == [hp |-> MaxHp, skill |-> 0, items |-> Nothing, pos |-> 0]

\* The player is made if there is none, placed, and given the saved data.
Placed(p, s, cont) == IF cont THEN s.loaded ELSE [p EXCEPT !.pos = Start(s.stage)]

\* toRemove keeps what earlier changes removed, and is deleted again.
SetStage(s, n, p, cont) ==
  /\ scene' = Staged(s, n) /\ setting' = FALSE
  /\ player' = Placed(p, Staged(s, n), cont)
  /\ file' = None
  /\ crashed' = (s.changes >= 2)

Init ==
  /\ scene = Staged(NewScene, 1) /\ player = Placed(Created, scene, FALSE)
  /\ setting = FALSE /\ isContinue = FALSE /\ file = None /\ crashed = FALSE
  /\ saved = None /\ killed = {}

InGame == scene # None /\ player # None
Playing == InGame /\ scene.pending = 0 /\ player.hp > 0

-----------------------------------------------------------------------------
(* The title and the menu.                                                 *)

NewGame ==
  /\ SetStage(NewScene, 1, Created, FALSE)
  /\ killed' = {} /\ UNCHANGED saved

SavedGame ==
  /\ LET s == Loaded(NewScene, file) IN SetStage(s, s.stage, Created, TRUE)
  /\ killed' = saved.killed /\ UNCHANGED saved

OnClickBegin == scene = None /\ ~setting /\ isContinue' = FALSE /\ NewGame
OnClickContinue == scene = None /\ ~setting /\ file # None /\ isContinue' = TRUE /\ SavedGame

\* The menu's buttons.  A stage that is requested is made at the start of the next
\* Update, which returns before it looks at the menu (GameScene.cpp:131-151): the
\* menu is not ticked while a request waits.
Leave(s) ==
  /\ scene # None /\ scene.pending = 0
  /\ scene' = None /\ player' = None /\ setting' = s
  /\ UNCHANGED <<isContinue, file, crashed, history>>

OnClickGoTitle == Leave(FALSE)
OnClickSetting == Leave(TRUE)

\* Leaving the settings makes a new GameScene.  If it should continue and there
\* is no file, its stage is a number nobody has set: no stage is made.
BackToGame ==
  /\ setting
  /\ \/ ~isContinue /\ NewGame
     \/ isContinue /\ file # None /\ SavedGame
     \/ /\ isContinue /\ file = None
        /\ scene' = [NewScene EXCEPT !.stage = 0] /\ setting' = FALSE
        /\ UNCHANGED <<player, file, crashed, history>>
  /\ UNCHANGED isContinue

-----------------------------------------------------------------------------
(* A frame of the game.                                                    *)

\* A monster's TickDead.
Kill(m) ==
  /\ scene # None /\ scene.pending = 0 /\ m \in DOMAIN scene.field
  /\ scene' = [scene EXCEPT !.dead = @ \cup {m},
                            !.monsters = [n \in DOMAIN @ \ {m} |-> @[n]],
                            !.field = [n \in DOMAIN @ \ {m} |-> @[n]]]
  /\ killed' = killed \cup {m}
  /\ UNCHANGED <<player, setting, isContinue, file, crashed, saved>>

HurtMonster(m) ==
  /\ Playing /\ m \in DOMAIN scene.field /\ scene.field[m] > 1
  /\ scene' = [scene EXCEPT !.field[m] = @ - 1]
  /\ UNCHANGED <<player, setting, isContinue, file, crashed, history>>

Play(p) == player' = p /\ UNCHANGED <<scene, setting, isContinue, file, crashed, history>>
Hurt == InGame /\ player.hp > 0 /\ Play([player EXCEPT !.hp = @ - 1])
GainSkill == Playing /\ player.skill < MaxSkill /\ Play([player EXCEPT !.skill = @ + 1])
Acquire(k) ==
  /\ Playing /\ k \notin DOMAIN player.items
  /\ Play([player EXCEPT !.items = [j \in DOMAIN @ \cup {k} |-> IF j = k THEN 1 ELSE @[j]]])

TouchSavePoint ==
  /\ InGame
  /\ LET p == [player EXCEPT !.pos = SavePoint(scene.stage)] IN
       /\ player' = p /\ file' = Written(scene, p)
       /\ saved' = [player |-> p, stage |-> scene.stage, dead |-> scene.dead, killed |-> killed,
                    living |-> [m \in Pointers(scene) |-> scene.field[m]]]
  /\ UNCHANGED <<scene, setting, isContinue, crashed, killed>>

TouchNext ==
  /\ Playing /\ scene.stage < LastStage
  /\ SecondChange \/ scene.changes < 2
  /\ scene' = [scene EXCEPT !.pending = scene.stage + 1]
  /\ UNCHANGED <<player, setting, isContinue, file, crashed, history>>

\* Mutation: the save of the stage before is left.
ChangeStage_KeepsFile ==
  /\ scene # None /\ scene.pending # 0
  /\ scene' = Staged(scene, scene.pending)
  /\ player' = Placed(player, scene', isContinue)
  /\ UNCHANGED <<setting, isContinue, file, crashed, history>>

\* The next Update.
ChangeStage ==
  /\ scene # None /\ scene.pending # 0
  /\ SetStage(scene, scene.pending, player, isContinue)
  /\ UNCHANGED <<isContinue, history>>

\* Player::TickDead after two seconds: the save is read for the dead player,
\* but the monsters of the scene stay as they are.
Revive ==
  /\ InGame /\ scene.pending = 0 /\ player.hp = 0
  /\ scene' = IF file # None THEN Loaded(scene, file) ELSE scene
  /\ player' = [pos |-> IF file # None THEN scene'.loaded.pos ELSE 0, hp |-> MaxHp,
                skill |-> IF player.skill > 5 THEN player.skill - 5 ELSE 0,
                items |-> IF file # None THEN scene'.loaded.items ELSE player.items]
  /\ UNCHANGED <<setting, isContinue, file, crashed, history>>

Next ==
  /\ ~crashed
  /\ \/ OnClickBegin \/ OnClickContinue
     \/ OnClickGoTitle \/ OnClickSetting \/ BackToGame
     \/ \E m \in Monsters : Kill(m) \/ HurtMonster(m)
     \/ Hurt \/ GainSkill \/ \E k \in Items : Acquire(k)
     \/ TouchSavePoint \/ TouchNext \/ ChangeStage \/ Revive

Spec == Init /\ [][Next]_vars
-----------------------------------------------------------------------------
(* Properties.                                                             *)

Player == [pos : 0 .. SavePoint(LastStage), hp : 0 .. MaxHp, skill : 0 .. MaxSkill,
           items : UNION {[ks -> {1}] : ks \in SUBSET Items}]

\* Every variable has its type.
TypeOK ==
  /\ scene # None =>
       /\ IF scene.stage = 0 THEN player = None ELSE player \in Player
       /\ scene.stage \in 0 .. LastStage /\ scene.pending \in 0 .. LastStage /\ scene.changes \in 0 .. 3
       /\ scene.dead \cup DOMAIN scene.monsters \cup DOMAIN scene.field \subseteq Monsters
       /\ scene.loaded = None \/ scene.loaded \in Player
       /\ \A m \in DOMAIN scene.field : scene.field[m] \in 1 .. MaxMonsterHp
  /\ {setting, isContinue, crashed} \subseteq BOOLEAN /\ killed \subseteq Monsters
  /\ file = None \/ file \in Seq(Nat)

\* A save belongs to the stage that is played: nobody who dies or continues is
\* put into another one, though a save point may be touched after the request
\* for the next stage.
SaveOfThisStage == scene # None /\ file # None => file[1] = scene.stage

\* Continue gives back the stage and the player with its items as they were saved,
\* and the monsters of the stage but those on the list of the dead.  The living
\* come as they come to a stage, unhurt: their health in the file is forgotten
\* (GameScene.cpp:2243), which HealthRestored says the code means to restore.
ContinueRestores ==
  [][scene = None /\ scene' # None /\ isContinue' /\ file # None =>
       /\ player' = saved.player /\ scene'.stage = saved.stage
       /\ scene'.field = [m \in StageMonsters[saved.stage] \ saved.dead |-> MaxMonsterHp]]_vars

\* "살아 있는 몬스터는 ... 이후 Stage 로딩 시 hp를 찾아 세팅" (GameScene.cpp:2241-2242):
\* a living monster is given the health it had at the save when its stage is made.
HealthRestored ==
  [][scene = None /\ scene' # None /\ isContinue' /\ file # None =>
       \A m \in DOMAIN scene'.field \cap DOMAIN saved.living :
         scene'.field[m] = saved.living[m]]_vars

\* A monster that SaveCurData asks for its health is in the scene, through
\* deaths of monsters and of the player and changes of stage.
NoDanglingMonster == scene # None => Pointers(scene) \subseteq DOMAIN scene.field

\* "죽은 몬스터 기록" (GameScene.cpp:2157): what was killed before a save is not
\* met again.
KilledStayKilled == scene # None => killed \cap DOMAIN scene.field = {}

\* "이전 스테이지 객체 삭제 (Player, UI 제외)" (GameScene.cpp:1828): a change of
\* stage leaves the player's health, skill points and items alone.
PlayerKept ==
  [][scene # None /\ scene' # None /\ scene'.stage # scene.stage =>
       /\ player'.hp = player.hp /\ player'.skill = player.skill
       /\ player'.items = player.items]_vars

\* The same line: the objects deleted are those of the stage before.
DeletedOnce == ~crashed
=============================================================================
