\* A new collider gets the address of a deleted one.
SPECIFICATION Spec
CONSTANTS
  Own = own
  Copies = {c1}
  Monsters = {m1}
  Items = {k1}
  Waves = {w1}
  Nothing = Nothing
  LateEntry = FALSE
  Reuse = TRUE
INVARIANTS
  EventsTellContacts
