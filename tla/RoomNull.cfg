\* A posted send fails while the receive of its session is still posted.
CONSTANTS
  Sessions = {s1, s2}
  MaxPlayerId = 2
  MonsterIds = {3}
  Infos = {idle, moved}
  SpawnInfo = idle
  Faults = {"sendFailed"}
  NoSession = NoSession
  NoPlayer = NoPlayer
  NoMessage = NoMessage
  MaxChanges = 1
SPECIFICATION Spec
INVARIANTS
  NoNullPlayer
SYMMETRY SessionSymmetry
CHECK_DEADLOCK FALSE
