\* Two stages, of two monsters and one.
SPECIFICATION Spec
CONSTANTS
  LastStage = 2
  StageMonsters <- TheMonsters
  Items = {300, 301}
  ItemId = 300
  MaxHp = 1
  MaxMonsterHp = 2
  MaxSkill = 1
  SecondChange = FALSE
  None = None
INVARIANTS
  SaveOfThisStage
  NoDanglingMonster
PROPERTIES
  ContinueRestores
