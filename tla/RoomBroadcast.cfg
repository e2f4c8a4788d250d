\* A send to a client that has gone is reset at once.
CONSTANTS
  Sessions = {s1, s2}
  MaxPlayerId = 2
  MonsterIds = {3}
  Infos = {idle, moved}
  SpawnInfo = idle
  Faults = {"immediate"}
  NoSession = NoSession
  NoPlayer = NoPlayer
  NoMessage = NoMessage
  MaxChanges = 1
SPECIFICATION Spec
INVARIANTS
  NoUndefined
SYMMETRY SessionSymmetry
CHECK_DEADLOCK FALSE
