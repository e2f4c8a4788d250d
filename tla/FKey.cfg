\* Another player stands at the item.
SPECIFICATION Spec
CONSTANTS
  Own = own
  Copies = {c1}
  Monsters = {m1}
  Items = {k1}
  Waves = {w1}
  Nothing = Nothing
  LateEntry = FALSE
  Reuse = FALSE
INVARIANTS
  FKeyIsMine
