\* The first send to a new client is reset at once.
CONSTANTS
  Sessions = {s1, s2}
  MaxPlayerId = 2
  MonsterIds = {3}
  Infos = {idle, moved}
  SpawnInfo = idle
  Faults = {"immediate"}
  NoSession = NoSession
  NoPlayer = NoPlayer
  NoMessage = NoMessage
  MaxChanges = 0
SPECIFICATION Spec
INVARIANTS
  RoomIsSessions
SYMMETRY SessionSymmetry
CHECK_DEADLOCK FALSE
