\* No copy, no observer: as the game is built.
CONSTANTS
  Others = {}
  PlayerHp = 2
  Damages = {1}
  WindowDamage = 1
  HealAmount = 1
  Span = 2
  Wiring = {FALSE}
  MovedTo = {}
SPECIFICATION Spec
INVARIANTS
  RideStartsOnLine
CHECK_DEADLOCK FALSE
