\* As FinalBoss.cfg: the monsters come in the frame in which a crystal phase begins.
CONSTANTS
  MaxHp = 4
  Bands <- LevelBands
  Damages = {1, 2}
  Gap = 2
  Volley = 2
  Short = 3
  Long = 4
  ThrustEnd = 2
  CrystalSpan = 3
  MonsterEvery = 8
SPECIFICATION Spec
PROPERTIES
  NoPhaseLost
