\* A client leaves the game scene.
CONSTANTS
  Sessions = {s1, s2}
  MaxPlayerId = 2
  MonsterIds = {3}
  Idle = Idle
  Jump = Jump
  Dead = Dead
  Infos <- MCInfos
  SpawnInfo <- Level
  Faults = {}
  ClientEvents = {"leave"}
  NoSession = NoSession
  NoPlayer = NoPlayer
  NoMessage = NoMessage
  MaxChanges = 0
SPECIFICATION RSpec
INVARIANTS
  ClientDefined
SYMMETRY SessionSymmetry
CHECK_DEADLOCK FALSE
