\* A monster killed after the save, and a death of the player.
SPECIFICATION Spec
CONSTANTS
  LastStage = 1
  StageMonsters <- TheMonsters
  Items = {300, 301}
  ItemId = 300
  MaxHp = 1
  MaxMonsterHp = 2
  MaxSkill = 1
  SecondChange = FALSE
  None = None
INVARIANTS
  KilledStayKilled
