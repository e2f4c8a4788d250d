\* Two stages, of two monsters and one: a hurt monster, a save, a continue.
SPECIFICATION Spec
CONSTANTS
  LastStage = 2
  StageMonsters <- TheMonsters
  Items = {300, 301}
  ItemId = 300
  MaxHp = 1
  MaxMonsterHp = 2
  MaxSkill = 1
  SecondChange = FALSE
  None = None
PROPERTIES
  HealthRestored
