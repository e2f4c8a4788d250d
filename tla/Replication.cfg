\* Two clients that play, come and go, and one monster.
CONSTANTS
  Sessions = {s1, s2}
  MaxPlayerId = 2
  MonsterIds = {3}
  Idle = Idle
  Jump = Jump
  Dead = Dead
  Infos <- TwoInfos
  SpawnInfo <- Level
  Faults = {}
  ClientEvents = {}
  NoSession = NoSession
  NoPlayer = NoPlayer
  NoMessage = NoMessage
  MaxChanges = 1
SPECIFICATION PairSpec
INVARIANTS
  ClientDefined
  ToldTheRoom
  ReportsReachAll
  RoomIsSessions
  NoUndefined
PROPERTIES
  FirstReportShown
CHECK_DEADLOCK FALSE
