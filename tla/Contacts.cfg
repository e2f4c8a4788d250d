\* One item, one monster and one wave between two players.
SPECIFICATION Spec
CONSTANTS
  Own = own
  Copies = {c1}
  Monsters = {m1}
  Items = {k1}
  Waves = {w1}
  Nothing = Nothing
  LateEntry = FALSE
  Reuse = FALSE
INVARIANTS
  NoFreedCollider
  EventsTellContacts
PROPERTIES
  TakenInReach
  TakenOnce
