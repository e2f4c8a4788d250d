\* A player enters while a projectile flies.
SPECIFICATION Spec
CONSTANTS
  Own = own
  Copies = {c1}
  Monsters = {m1}
  Items = {k1}
  Waves = {w1}
  Nothing = Nothing
  LateEntry = TRUE
  Reuse = FALSE
INVARIANTS
  NoFreedCollider
