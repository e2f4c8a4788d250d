\* Connections that break in every way the network has, and clients that leave
\* the scene and kill monsters.
CONSTANTS
  Sessions = {s1, s2}
  MaxPlayerId = 2
  MonsterIds = {3}
  Idle = Idle
  Jump = Jump
  Dead = Dead
  Infos <- OneInfo
  SpawnInfo <- Level
  Faults = {"immediate", "sendFailed"}
  ClientEvents = {"leave", "kill"}
  NoSession = NoSession
  NoPlayer = NoPlayer
  NoMessage = NoMessage
  MaxChanges = 0
SPECIFICATION RSpec
INVARIANTS
  NoDuplicateActor
  LivePlayersStay
SYMMETRY SessionSymmetry
CHECK_DEADLOCK FALSE
