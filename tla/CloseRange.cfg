\* The monster was in the scene before the detect collider.
SPECIFICATION Spec
CONSTANTS
  Own = own
  Copies = {c1}
  Monsters = {m1}
  Items = {k1}
  Waves = {w1}
  Nothing = Nothing
  LateEntry = FALSE
  Reuse = FALSE
INVARIANTS
  CloseInRange
