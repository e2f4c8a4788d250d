\* Tab while a text is being typed.
SPECIFICATION Spec
CONSTANTS
  player = player
  announcer = announcer
  Nobody = Nobody
  Actors <- TheActors
  Objects <- TheObjects
  Events <- TheEvents
  Skips = TRUE
  Menus = TRUE
CHECK_DEADLOCK FALSE
INVARIANTS
  TypedFromStart
