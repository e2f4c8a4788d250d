\* My player and one copy, one blow kills in two, two frames for each state.
CONSTANTS
  Others = {you}
  PlayerHp = 2
  Damages = {1}
  WindowDamage = 1
  HealAmount = 1
  Span = 2
  Wiring = {TRUE, FALSE}
  MovedTo = {"HIT"}
SPECIFICATION FairSpec
INVARIANTS
  DeadWithoutHealth
  CollidersFollowState
PROPERTIES
  RevivedWhole
  ControlReturns
CHECK_DEADLOCK FALSE
