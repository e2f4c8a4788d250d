\* A collision changes the state of the player.
CONSTANTS
  Sessions = {s1, s2}
  MaxPlayerId = 2
  MonsterIds = {3}
  Idle = Idle
  Jump = Jump
  Dead = Dead
  Infos <- MCInfos
  SpawnInfo <- Level
  Faults = {}
  ClientEvents = {}
  NoSession = NoSession
  NoPlayer = NoPlayer
  NoMessage = NoMessage
  MaxChanges = 1
SPECIFICATION RSpec
INVARIANTS
  StateReported
CHECK_DEADLOCK FALSE
