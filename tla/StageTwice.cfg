\* The second change of stage in one scene.
SPECIFICATION Spec
CONSTANTS
  LastStage = 3
  StageMonsters <- TheMonsters
  Items = {300, 301}
  ItemId = 300
  MaxHp = 1
  MaxMonsterHp = 2
  MaxSkill = 1
  SecondChange = TRUE
  None = None
CHECK_DEADLOCK FALSE
INVARIANTS
  DeletedOnce
