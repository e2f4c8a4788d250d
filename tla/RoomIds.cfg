\* More connections over the life of the server than there are player ids.
CONSTANTS
  Sessions = {s1, s2}
  MaxPlayerId = 1
  MonsterIds = {3}
  Infos = {idle, moved}
  SpawnInfo = idle
  Faults = {}
  NoSession = NoSession
  NoPlayer = NoPlayer
  NoMessage = NoMessage
  MaxChanges = 0
SPECIFICATION Spec
INVARIANTS
  MonstersAreMonsters
SYMMETRY SessionSymmetry
CHECK_DEADLOCK FALSE
