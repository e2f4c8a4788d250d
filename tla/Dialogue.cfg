\* Nobody skips.
SPECIFICATION Spec
CONSTANTS
  player = player
  announcer = announcer
  Nobody = Nobody
  Actors <- TheActors
  Objects <- TheObjects
  Events <- TheEvents
  Skips = FALSE
  Menus = TRUE
INVARIANTS
  NeverOutOfRange
PROPERTIES
  LinesInFull
  DialogueEnds
