\* A client kills a monster.
CONSTANTS
  Sessions = {s1, s2}
  MaxPlayerId = 2
  MonsterIds = {3}
  Idle = Idle
  Jump = Jump
  Dead = Dead
  Infos <- MCInfos
  SpawnInfo <- Level
  Faults = {}
  ClientEvents = {"kill"}
  NoSession = NoSession
  NoPlayer = NoPlayer
  NoMessage = NoMessage
  MaxChanges = 1
SPECIFICATION RSpec
PROPERTIES
  DeadStaysDead
CHECK_DEADLOCK FALSE
