\* A blow takes one level or two; a volley of two projectiles, two frames apart.
CONSTANTS
  MaxHp = 4
  Bands <- LevelBands
  Damages = {1, 2}
  Gap = 2
  Volley = 2
  Short = 3
  Long = 4
  ThrustEnd = 2
  CrystalSpan = 3
  MonsterEvery = 8
SPECIFICATION FairSpec
INVARIANTS
  OneBehaviourPerRun
  PhasesOnce
PROPERTIES
  PhaseEndsOrIsLost
  NeverStuck
