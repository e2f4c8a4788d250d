---------------------------- MODULE ContactsProofs ----------------------------
(***************************************************************************)
(* Safety of Contacts for any players, monsters, items and projectiles.    *)
(* Placed is inductive on its own; WavesLast, Shown and ToldSoFar are      *)
(* inductive relative to it, each under what its theorem assumes.          *)
(***************************************************************************)
EXTENDS Contacts, FiniteSetTheorems, TLAPS

-----------------------------------------------------------------------------
\* The list holds colliders of actors in the scene, and the source of the
\* inner loop stays at its index, whatever leaves the list behind it.
Placed ==
  /\ TypeOK
  /\ \A n \in DOMAIN list : \E a \in actors : list[n] \in CollidersOf(a)
  /\ step = "pass" => src = list[i]

\* A projectile comes after the players there are, so it is never the source
\* of its own contact.
WavesLast ==
  /\ step # "crashed"
  /\ \A a, b \in DOMAIN list : a < b /\ list[a] \in Waves => list[b] \notin Players

\* Only items nobody acquired show their F key, and the item in a hand is one
\* that its player was told of and has not left.
Shown ==
  /\ \A k \in fkey : owner[k] = Nothing
  /\ \A p \in Players \cap actors :
       hand[p] \in Items /\ owner[hand[p]] = Nothing => {hand[p], p} \in told

\* The maps say what the owners were told.
MapsAreTold == \A c, d \in Colliders : {c, d} \in told <=> d \in map[c]

\* What the pass has come to: the pairs checked are told as they touch, the
\* others have not touched.
Checked(a, b) == step = "end" \/ a < i \/ (a = i /\ b < j)

ToldSoFar ==
  /\ MapsAreTold
  /\ step = "tick" => touched = {} /\ ~erased
  /\ step \in {"pass", "end"} /\ ~erased =>
       \A a, b \in DOMAIN list : a < b =>
         IF Checked(a, b)
         THEN {list[a], list[b]} \in told <=>
                {list[a], list[b]} \in touched /\ Layer(list[b]) \in Flags(list[a])
         ELSE {list[a], list[b]} \notin touched

-----------------------------------------------------------------------------
(* Colliders, pairs and the list.                                          *)

\* A collider is of one kind.
LEMMA OneKind ==
  ASSUME NEW c \in Colliders
  PROVE  /\ c \in Players => c \notin Detects /\ c \notin Monsters /\ c \notin Items /\ c \notin Waves
         /\ c \in Detects => c \notin Monsters /\ c \notin Items /\ c \notin Waves
         /\ c \in Monsters => c \notin Items /\ c \notin Waves
         /\ c \in Items => c \notin Waves
BY ContactsAssumption DEF Colliders

\* A player owns itself and its detect collider, anybody else only itself.
LEMMA Owners ==
  ASSUME NEW a \in Players \cup Monsters \cup Items \cup Waves
  PROVE  /\ a \in CollidersOf(a) /\ CollidersOf(a) \subseteq Colliders
         /\ \A b \in Players \cup Monsters \cup Items \cup Waves :
              CollidersOf(a) \cap CollidersOf(b) # {} => a = b
BY ContactsAssumption DEF CollidersOf, Colliders, Detects, Detect

LEMMA PairsEqual ==
  ASSUME NEW a, NEW b, NEW c, NEW d
  PROVE  {a, b} = {c, d} <=> (a = c /\ b = d) \/ (a = d /\ b = c)
OBVIOUS

\* RemoveCollider takes out the one place of the collider, keeps what is
\* before it in place and the order of the rest.
LEMMA Removal ==
  ASSUME NEW l \in Seq(Colliders), \A a, b \in DOMAIN l : l[a] = l[b] => a = b,
         NEW c, NEW r, r = RemoveCollider(l, c)
  PROVE  /\ r \in Seq(Colliders) /\ \A a, b \in DOMAIN r : r[a] = r[b] => a = b
         /\ \A n \in DOMAIN r : r[n] # c
         /\ \A a \in DOMAIN r : \E d \in DOMAIN l : l[d] = r[a]
         /\ \A a, b \in DOMAIN r : a < b => \E d, e \in DOMAIN l : d < e /\ l[d] = r[a] /\ l[e] = r[b]
         /\ \A k \in DOMAIN l : l[k] = c =>
              Len(r) = Len(l) - 1 /\ \A n \in 1 .. k - 1 : r[n] = l[n]
<1>1. CASE \A n \in DOMAIN l : l[n] # c
  BY <1>1 DEF RemoveCollider
<1>2. CASE ~ \A n \in DOMAIN l : l[n] # c
  <2>. DEFINE k == CHOOSE n \in DOMAIN l : l[n] = c
  <2>1. k \in DOMAIN l /\ l[k] = c
    BY <1>2
  <2>2. r = [n \in 1 .. Len(l) - 1 |-> IF n < k THEN l[n] ELSE l[n + 1]]
    BY <1>2 DEF RemoveCollider
  <2>. HIDE DEF k
  <2>3. k \in 1 .. Len(l) /\ Len(l) \in Nat /\ Len(l) - 1 \in Nat /\ DOMAIN l = 1 .. Len(l)
    BY <2>1
  <2>4. r \in Seq(Colliders) /\ Len(r) = Len(l) - 1 /\ DOMAIN r = 1 .. Len(l) - 1
    <3>1. \A n \in 1 .. Len(l) - 1 : n \in 1 .. Len(l) /\ n + 1 \in 1 .. Len(l)
      BY <2>3
    <3>2. \A n \in 1 .. Len(l) - 1 : r[n] \in Colliders
      BY <2>2, <2>3, <3>1
    <3>. DEFINE m == Len(l) - 1
    <3>3. r \in [1 .. m -> Colliders] /\ m \in Nat /\ DOMAIN r = 1 .. m
      BY <2>2, <2>3, <3>2
    <3>. HIDE DEF m
    <3>4. r \in Seq(Colliders)
      BY <3>3
    <3>5. Len(r) = m
      BY <3>3, <3>4
    <3>. QED
      BY <3>3, <3>4, <3>5 DEF m
  <2>5. \A n \in DOMAIN r : r[n] = (IF n < k THEN l[n] ELSE l[n + 1])
    BY <2>2, <2>4
  <2>6. \A a, b \in DOMAIN r : r[a] = r[b] => a = b
    BY <2>3, <2>4, <2>5
  <2>7. \A n \in DOMAIN r : r[n] # c
    BY <2>1, <2>3, <2>4, <2>5
  <2>8. \A a, b \in DOMAIN r : a < b => \E d, e \in DOMAIN l : d < e /\ l[d] = r[a] /\ l[e] = r[b]
    <3>. SUFFICES ASSUME NEW a \in DOMAIN r, NEW b \in DOMAIN r, a < b
                  PROVE  \E d, e \in DOMAIN l : d < e /\ l[d] = r[a] /\ l[e] = r[b]
      OBVIOUS
    <3>. DEFINE at(n) == IF n < k THEN n ELSE n + 1
    <3>1. at(a) \in DOMAIN l /\ at(b) \in DOMAIN l /\ at(a) < at(b)
      BY <2>3, <2>4
    <3>2. l[at(a)] = r[a] /\ l[at(b)] = r[b]
      BY <2>5
    <3>. QED
      BY <3>1, <3>2
  <2>9. \A a \in DOMAIN r : \E d \in DOMAIN l : l[d] = r[a]
    BY <2>3, <2>4, <2>5
  <2>10. \A m \in DOMAIN l : l[m] = c => m = k
    BY <2>1
  <2>11. \A m \in DOMAIN l : l[m] = c => Len(r) = Len(l) - 1 /\ \A n \in 1 .. m - 1 : r[n] = l[n]
    BY <2>3, <2>4, <2>5, <2>10
  <2>. QED
    BY <2>4, <2>6, <2>7, <2>8, <2>9, <2>11
<1>. QED
  BY <1>1, <1>2

\* A list that lost colliders: what remains and in which order.
Shorter(cs) ==
  /\ list' \in Seq(Colliders) /\ \A a, b \in DOMAIN list' : list'[a] = list'[b] => a = b
  /\ \A n \in DOMAIN list' : list'[n] \notin cs
  /\ \A a \in DOMAIN list' : \E d \in DOMAIN list : list[d] = list'[a]
  /\ \A a, b \in DOMAIN list' : a < b =>
       \E d, e \in DOMAIN list : d < e /\ list[d] = list'[a] /\ list[e] = list'[b]

LEMMA RemovedFromList ==
  ASSUME TypeOK, NEW c, NEW m, RemoveActor(c, m)
  PROVE  Shorter(CollidersOf(c))
<1>. list \in Seq(Colliders) /\ \A a, b \in DOMAIN list : list[a] = list[b] => a = b
  BY DEF TypeOK
<1>1. CASE c \in Players
  <2>. DEFINE r == RemoveCollider(list, c)
  <2>1. /\ r \in Seq(Colliders) /\ \A a, b \in DOMAIN r : r[a] = r[b] => a = b
        /\ \A n \in DOMAIN r : r[n] # c
        /\ \A a \in DOMAIN r : \E d \in DOMAIN list : list[d] = r[a]
        /\ \A a, b \in DOMAIN r : a < b =>
             \E d, e \in DOMAIN list : d < e /\ list[d] = r[a] /\ list[e] = r[b]
    BY Removal
  <2>2. list' = RemoveCollider(r, Detect(c))
    BY <1>1 DEF RemoveActor
  <2>. HIDE DEF r
  <2>3. /\ list' \in Seq(Colliders) /\ \A a, b \in DOMAIN list' : list'[a] = list'[b] => a = b
        /\ \A n \in DOMAIN list' : list'[n] # Detect(c)
        /\ \A a \in DOMAIN list' : \E d \in DOMAIN r : r[d] = list'[a]
        /\ \A a, b \in DOMAIN list' : a < b =>
             \E d, e \in DOMAIN r : d < e /\ r[d] = list'[a] /\ r[e] = list'[b]
    BY <2>1, <2>2, Removal
  <2>4. \A n \in DOMAIN list' : list'[n] \notin CollidersOf(c)
    BY <1>1, <2>1, <2>3 DEF CollidersOf
  <2>5. \A a \in DOMAIN list' : \E d \in DOMAIN list : list[d] = list'[a]
    BY <2>1, <2>3
  <2>6. \A a, b \in DOMAIN list' : a < b =>
          \E d, e \in DOMAIN list : d < e /\ list[d] = list'[a] /\ list[e] = list'[b]
    <3>. SUFFICES ASSUME NEW a \in DOMAIN list', NEW b \in DOMAIN list', a < b
                  PROVE  \E d, e \in DOMAIN list : d < e /\ list[d] = list'[a] /\ list[e] = list'[b]
      OBVIOUS
    <3>1. PICK d \in DOMAIN r, e \in DOMAIN r : d < e /\ r[d] = list'[a] /\ r[e] = list'[b]
      BY <2>3
    <3>. QED
      BY <2>1, <3>1
  <2>. QED
    BY <2>3, <2>4, <2>5, <2>6 DEF Shorter
<1>2. CASE c \notin Players
  <2>1. list' = RemoveCollider(list, c) /\ CollidersOf(c) = {c}
    BY <1>2 DEF RemoveActor, CollidersOf
  <2>. QED
    BY <2>1, Removal DEF Shorter
<1>. QED
  BY <1>1, <1>2

-----------------------------------------------------------------------------
(* Placed: the types, and who is in the list.                              *)

LEMMA ChosenOne ==
  ASSUME NEW A, Pair \cap A # {}
  PROVE  TheOne(A) \in Pair /\ TheOne(A) \in A
BY DEF TheOne, Pair

\* The two of a check are different colliders, the source at its index.
LEMMA PairOfCheck ==
  ASSUME Placed, Checks
  PROVE  /\ i \in DOMAIN list /\ j \in DOMAIN list /\ i < j /\ src = list[i]
         /\ src \in Colliders /\ Dest \in Colliders /\ src # Dest
         /\ i \in 1 .. Len(list) /\ j \in 1 .. Len(list) /\ Len(list) \in Nat
<1>1. /\ list \in Seq(Colliders) /\ \A a, b \in DOMAIN list : list[a] = list[b] => a = b
      /\ i \in 1 .. Len(list) /\ j \in i + 1 .. Len(list) + 2 /\ j <= Len(list) /\ src = list[i]
  BY DEF Placed, TypeOK, Checks
<1>2. DOMAIN list = 1 .. Len(list) /\ Len(list) \in Nat
  BY <1>1
<1>3. i \in DOMAIN list /\ j \in DOMAIN list /\ i < j
  BY <1>1, <1>2
<1>. QED
  BY <1>1, <1>2, <1>3 DEF Dest

\* A new contact is put into both maps.
LEMMA InsertedType ==
  ASSUME Placed, Checks
  PROVE  Inserted \in [Colliders -> SUBSET Colliders]
<1>1. map \in [Colliders -> SUBSET Colliders] /\ src \in Colliders /\ Dest \in Colliders
  BY PairOfCheck DEF Placed, TypeOK
<1>. DEFINE m == [map EXCEPT ![src] = @ \cup {Dest}]
<1>2. m \in [Colliders -> SUBSET Colliders]
  BY <1>1
<1>3. Inserted = [m EXCEPT ![Dest] = @ \cup {src}]
  BY DEF Inserted
<1>. HIDE DEF m
<1>. QED
  BY <1>1, <1>2, <1>3

\* The contact of an item and a player, and that of a detect collider.
LEMMA ItemContact ==
  ASSUME At(Items, Players)
  PROVE  TheOne(Items) \in Items /\ TheOne(Players) \in Players
BY ChosenOne DEF At

LEMMA DetectContact ==
  ASSUME At(Detects, Monsters)
  PROVE  TheOne(Detects)[2] \in Players
BY ChosenOne DEF At, Detects, Detect

\* A step in which the list grows by a collider of an actor.
LEMMA ListGrows ==
  ASSUME Placed, NEW c \in Colliders, list' = Append(list, c),
         \A n \in DOMAIN list : list[n] # c
  PROVE  /\ list' \in Seq(Colliders) /\ \A a, b \in DOMAIN list' : list'[a] = list'[b] => a = b
         /\ DOMAIN list' = DOMAIN list \cup {Len(list) + 1}
         /\ list'[Len(list) + 1] = c /\ \A n \in DOMAIN list : list'[n] = list[n]
<1>1. list \in Seq(Colliders) /\ \A a, b \in DOMAIN list : list[a] = list[b] => a = b
  BY DEF Placed, TypeOK
<1>2. /\ list' \in Seq(Colliders) /\ Len(list') = Len(list) + 1 /\ Len(list) \in Nat
      /\ DOMAIN list = 1 .. Len(list) /\ DOMAIN list' = 1 .. Len(list) + 1
      /\ list'[Len(list) + 1] = c /\ \A n \in 1 .. Len(list) : list'[n] = list[n]
  BY <1>1
<1>3. DOMAIN list' = DOMAIN list \cup {Len(list) + 1}
  BY <1>2
<1>. QED
  BY <1>1, <1>2, <1>3

\* An actor that is not in the scene has no collider in the list.
LEMMA NewInList ==
  ASSUME Placed, NEW a \in Players \cup Monsters \cup Waves, a \notin actors
  PROVE  \A n \in DOMAIN list : list[n] \notin CollidersOf(a)
BY Owners DEF Placed, TypeOK

\* What is left of the list when an actor goes belongs to those who stay.
LEMMA OfTheRest ==
  ASSUME Placed, NEW c, Shorter(CollidersOf(c))
  PROVE  \A n \in DOMAIN list' : \E a \in actors \ {c} : list'[n] \in CollidersOf(a)
BY DEF Placed, Shorter

LEMMA MapsTyped ==
  ASSUME NEW m \in [Colliders -> SUBSET Colliders], NEW cs
  PROVE  Forget(m, cs) \in [Colliders -> SUBSET Colliders]
         /\ Dangle(m, cs) \in [Colliders -> SUBSET Colliders]
<1>1. Forget(m, cs) \in [Colliders -> SUBSET Colliders]
  BY DEF Forget
<1>2. Dangle(m, cs) \in [Colliders -> SUBSET Colliders]
  BY DEF Dangle
<1>. QED
  BY <1>1, <1>2

LEMMA RemovedTypes ==
  ASSUME Placed, NEW c, NEW m \in [Colliders -> SUBSET Colliders], RemoveActor(c, m)
  PROVE  /\ actors' \subseteq Players \cup Monsters \cup Items \cup Waves
         /\ map' \in [Colliders -> SUBSET Colliders] /\ told' \subseteq SUBSET Colliders
         /\ list' \in Seq(Colliders) /\ \A a, b \in DOMAIN list' : list'[a] = list'[b] => a = b
         /\ \A n \in DOMAIN list' : \E a \in actors' : list'[n] \in CollidersOf(a)
<1>1. Shorter(CollidersOf(c))
  BY RemovedFromList DEF Placed
<1>2. actors' = actors \ {c} /\ told' = Untold(CollidersOf(c))
  BY DEF RemoveActor
<1>3. map' = Forget(m, CollidersOf(c)) \/ map' = Dangle(m, CollidersOf(c))
  BY DEF RemoveActor
<1>4. map' \in [Colliders -> SUBSET Colliders]
  BY <1>3, MapsTyped
<1>5. actors' \subseteq Players \cup Monsters \cup Items \cup Waves /\ told' \subseteq SUBSET Colliders
  BY <1>2 DEF Placed, TypeOK, Untold
<1>6. \A n \in DOMAIN list' : \E a \in actors' : list'[n] \in CollidersOf(a)
  BY <1>1, <1>2, OfTheRest
<1>. QED
  BY <1>1, <1>4, <1>5, <1>6 DEF Shorter

\* The parts of Placed, by what an action can disturb.
ListPlaced ==
  /\ actors \subseteq Players \cup Monsters \cup Items \cup Waves
  /\ list \in Seq(Colliders) /\ \A a, b \in DOMAIN list : list[a] = list[b] => a = b
  /\ \A n \in DOMAIN list : \E a \in actors : list[n] \in CollidersOf(a)

MapsPlaced ==
  /\ map \in [Colliders -> SUBSET Colliders]
  /\ told \subseteq SUBSET Colliders /\ touched \subseteq SUBSET Colliders

HandsPlaced ==
  /\ closeAtk \subseteq Players /\ skill \subseteq Players
  /\ hand \in [Players -> Items \cup {Nothing}]
  /\ fkey \subseteq Items /\ owner \in [Items -> Players \cup {Nothing}]

LoopsPlaced ==
  /\ step \in {"tick", "pass", "end", "crashed"}
  /\ step = "pass" => i \in 1 .. Len(list) /\ j \in i + 1 .. Len(list) + 2 /\ src = list[i]

LEMMA PlacedParts ==
  Placed <=> ListPlaced /\ MapsPlaced /\ HandsPlaced /\ LoopsPlaced /\ erased \in BOOLEAN
<1>1. ASSUME Placed PROVE ListPlaced /\ MapsPlaced /\ HandsPlaced /\ LoopsPlaced
  <2>1. ListPlaced
    BY <1>1 DEF Placed, TypeOK, ListPlaced
  <2>2. MapsPlaced
    BY <1>1 DEF Placed, TypeOK, MapsPlaced
  <2>3. HandsPlaced
    BY <1>1 DEF Placed, TypeOK, HandsPlaced
  <2>4. LoopsPlaced
    BY <1>1 DEF Placed, TypeOK, LoopsPlaced
  <2>. QED
    BY <2>1, <2>2, <2>3, <2>4
<1>2. Placed => erased \in BOOLEAN
  BY Zenon DEF Placed, TypeOK
<1>3. ASSUME ListPlaced, MapsPlaced, HandsPlaced, LoopsPlaced, erased \in BOOLEAN PROVE Placed
  <2>1. InList \subseteq Colliders
    BY <1>3 DEF ListPlaced, InList
  <2>2. TypeOK
    BY <1>3, <2>1, Zenon DEF TypeOK, ListPlaced, MapsPlaced, HandsPlaced, LoopsPlaced
  <2>. QED
    BY <1>3, <2>2, Zenon DEF Placed, ListPlaced, LoopsPlaced
<1>. QED
  BY <1>1, <1>2, <1>3, Zenon

LEMMA PlacedLater ==
  ListPlaced' /\ MapsPlaced' /\ HandsPlaced' /\ LoopsPlaced' /\ (erased \in BOOLEAN)' => Placed'
BY PlacedParts, PTL

LEMMA PlacedInit == Init => Placed
<1>. SUFFICES ASSUME Init PROVE Placed
  OBVIOUS
<1>. USE ContactsAssumption
<1>1. ListPlaced
  <2>1. Cardinality(Items) \in Nat
    BY FS_CardinalityType
  <2>2. PICK l \in [1 .. Cardinality(Items) -> Items] :
          list = l /\ \A a, b \in DOMAIN l : l[a] = l[b] => a = b
    BY DEF Init
  <2>3. list \in Seq(Items)
    BY <2>1, <2>2
  <2>4. list \in Seq(Colliders)
    BY <2>3 DEF Colliders
  <2>5. \A n \in DOMAIN list : list[n] \in Items
    BY <2>2
  <2>6. \A n \in DOMAIN list : \E a \in actors : list[n] \in CollidersOf(a)
    BY <2>5, Owners DEF Init
  <2>. QED
    BY <2>2, <2>4, <2>6 DEF Init, ListPlaced
<1>2. MapsPlaced
  BY DEF Init, MapsPlaced
<1>3. HandsPlaced
  BY DEF Init, HandsPlaced
<1>4. LoopsPlaced
  BY DEF Init, LoopsPlaced
<1>5. erased \in BOOLEAN
  BY Zenon DEF Init
<1>. QED
  BY <1>1, <1>2, <1>3, <1>4, <1>5, PlacedParts

\* The part of a step of the pass in which the list stays as it is.
LEMMA PassStep ==
  ASSUME Placed, Checks, Advance, UNCHANGED <<actors, list>>
  PROVE  ListPlaced' /\ LoopsPlaced'
<1>. USE PlacedParts
<1>1. ListPlaced'
  BY DEF ListPlaced
<1>2. i \in 1 .. Len(list) /\ j \in i + 1 .. Len(list) + 2 /\ src = list[i] /\ j <= Len(list)
      /\ step = "pass" /\ Len(list) \in Nat
  BY PairOfCheck DEF LoopsPlaced, Checks
<1>3. j' = j + 1 /\ step' = step /\ i' = i /\ src' = src /\ list' = list
  BY DEF Advance
<1>4. LoopsPlaced'
  BY <1>2, <1>3 DEF LoopsPlaced
<1>. QED
  BY <1>1, <1>4

LEMMA PlacedStep ==
  ASSUME Placed, [Next]_vars
  PROVE  Placed'
<1>. USE PlacedParts, PlacedLater
<1>1. ASSUME NEW c \in Players \cup Monsters \cup Waves, Enter(c) PROVE Placed'
  <2>1. c \in Colliders /\ list' = Append(list, c) /\ actors' = actors \cup {c} /\ c \notin actors
    BY <1>1 DEF Enter, Colliders
  <2>2. \A n \in DOMAIN list : list[n] # c
    BY <1>1, <2>1, NewInList, Owners
  <2>3. ListPlaced'
    <3>1. \A n \in DOMAIN list' : \E a \in actors' : list'[n] \in CollidersOf(a)
      BY <2>1, <2>2, ListGrows, Owners DEF ListPlaced
    <3>. QED
      BY <2>1, <2>2, <3>1, ListGrows DEF ListPlaced
  <2>4. MapsPlaced' /\ (erased \in BOOLEAN)'
    BY <1>1, Zenon DEF Enter, MapsPlaced
  <2>5. HandsPlaced'
    BY <1>1 DEF Enter, HandsPlaced, item
  <2>6. LoopsPlaced'
    BY <1>1 DEF Enter, LoopsPlaced, loops
  <2>. QED
    BY <2>3, <2>4, <2>5, <2>6
<1>2. ASSUME NEW c, Remove(c) PROVE Placed'
  <2>1. RemoveActor(c, map) /\ step' = "tick" /\ UNCHANGED <<player, item, touched, erased>>
    BY <1>2 DEF Remove, loops
  <2>2. ListPlaced' /\ MapsPlaced'
    BY <2>1, RemovedTypes DEF MapsPlaced, ListPlaced
  <2>3. HandsPlaced'
    BY <2>1 DEF HandsPlaced, player, item
  <2>4. LoopsPlaced'
    BY <2>1 DEF LoopsPlaced
  <2>. QED
    BY <2>1, <2>2, <2>3, <2>4, Zenon
<1>3. ASSUME NEW p \in Players, Tick(p) PROVE Placed'
  <2>1. PICK skilled \in BOOLEAN, pressed \in BOOLEAN :
          /\ skill' = IF skilled THEN skill \cup {p} ELSE skill \ {p}
          /\ TickCollideItem(p, pressed) /\ TickDetect(p, skilled)
    BY <1>3 DEF Tick
  <2>2. p \in actors /\ step' = "tick"
        /\ UNCHANGED <<actors, closeAtk, hand, touched, erased>>
    BY <1>3 DEF Tick, loops
  <2>3. HandsPlaced'
    <3>1. fkey' \subseteq Items /\ owner' \in [Items -> Players \cup {Nothing}]
      BY <2>1 DEF TickCollideItem, HandsPlaced, item
    <3>. QED
      BY <2>1, <2>2, <3>1 DEF HandsPlaced
  <2>. DEFINE d == Detect(p)
  <2>4. d \in Colliders /\ d \in CollidersOf(p)
    BY DEF Colliders, Detects, CollidersOf
  <2>5. ListPlaced' /\ MapsPlaced'
    <3>1. CASE /\ list' = RemoveCollider(list, d)
               /\ map' = Forget(map, {d}) /\ told' = Untold({d})
      <4>1. /\ list' \in Seq(Colliders) /\ \A a, b \in DOMAIN list' : list'[a] = list'[b] => a = b
            /\ \A a \in DOMAIN list' : \E n \in DOMAIN list : list[n] = list'[a]
        BY <3>1, Removal DEF ListPlaced
      <4>2. ListPlaced'
        BY <2>2, <4>1 DEF ListPlaced
      <4>3. MapsPlaced'
        BY <2>2, <3>1, MapsTyped DEF MapsPlaced, Untold
      <4>. QED
        BY <4>2, <4>3
    <3>2. CASE d \notin InList /\ list' = Append(list, d) /\ UNCHANGED <<map, told>>
      <4>1. \A n \in DOMAIN list : list[n] # d
        BY <3>2 DEF InList
      <4>2. \A n \in DOMAIN list' : \E a \in actors' : list'[n] \in CollidersOf(a)
        BY <2>2, <2>4, <3>2, <4>1, ListGrows DEF ListPlaced
      <4>3. ListPlaced'
        BY <2>2, <2>4, <3>2, <4>1, <4>2, ListGrows DEF ListPlaced
      <4>. QED
        BY <2>2, <3>2, <4>3 DEF MapsPlaced
    <3>3. CASE UNCHANGED <<list, map, told>>
      BY <2>2, <3>3 DEF ListPlaced, MapsPlaced
    <3>. QED
      BY <2>1, <3>1, <3>2, <3>3 DEF TickDetect
  <2>6. LoopsPlaced'
    BY <2>2 DEF LoopsPlaced
  <2>. QED
    BY <2>2, <2>3, <2>5, <2>6, Zenon
<1>4. ASSUME Update \/ NextSource \/ PassReturns PROVE Placed'
  <2>1. UNCHANGED <<actors, list, map, player, item, told>>
        /\ (touched' = touched \/ touched' = {}) /\ list \in Seq(Colliders)
    BY <1>4 DEF Update, NextSource, PassReturns, ListPlaced
  <2>2. erased' = erased \/ erased' = FALSE
    BY <1>4, Zenon DEF Update, NextSource, PassReturns
  <2>3. (erased \in BOOLEAN)'
    BY <2>2, Zenon
  <2>4. ListPlaced' /\ MapsPlaced' /\ HandsPlaced'
    BY <2>1 DEF ListPlaced, MapsPlaced, HandsPlaced, player, item
  <2>5. LoopsPlaced'
    <3>1. CASE Update
      <4>1. Len(list) \in Nat \ {0}
        BY <2>1, <3>1 DEF Update
      <4>. QED
        BY <2>1, <3>1, <4>1 DEF Update, LoopsPlaced
    <3>2. CASE NextSource
      BY <2>1, <3>2 DEF NextSource, LoopsPlaced
    <3>3. CASE PassReturns
      BY <3>3 DEF PassReturns, LoopsPlaced
    <3>. QED
      BY <1>4, <3>1, <3>2, <3>3
  <2>. QED
    BY <2>3, <2>4, <2>5
<1>5. ASSUME Begins, UNCHANGED closeAtk \/ closeAtk' \subseteq Players,
             UNCHANGED <<fkey, hand>> \/ (fkey' \subseteq Items /\ hand' \in [Players -> Items \cup {Nothing}])
      PROVE  Placed'
  <2>1. /\ Checks /\ Advance /\ map' = Inserted /\ told' = told \cup {Pair} /\ Touches
        /\ UNCHANGED <<actors, list, skill, owner>>
    BY <1>5 DEF Begins
  <2>2. ListPlaced' /\ LoopsPlaced'
    BY <2>1, PassStep
  <2>3. Pair \subseteq Colliders
    BY <2>1, PairOfCheck DEF Pair
  <2>4. MapsPlaced'
    BY <2>1, <2>3, InsertedType DEF MapsPlaced, Touches
  <2>5. HandsPlaced'
    BY <1>5, <2>1 DEF HandsPlaced
  <2>6. (erased \in BOOLEAN)'
    BY <1>5, Zenon DEF Begins
  <2>. QED
    BY <2>2, <2>4, <2>5, <2>6
<1>6. CASE BeginItem
  <2>1. TheOne(Items) \in Items /\ TheOne(Players) \in Players
    BY <1>6, ItemContact DEF BeginItem
  <2>2. UNCHANGED <<fkey, hand>> \/ (fkey' \subseteq Items /\ hand' \in [Players -> Items \cup {Nothing}])
    BY <1>6, <2>1 DEF BeginItem, HandsPlaced
  <2>. QED
    BY <1>5, <1>6, <2>2 DEF BeginItem
<1>7. CASE BeginDetect
  BY <1>5, <1>7, DetectContact DEF BeginDetect, HandsPlaced
<1>8. CASE BeginWave
  <2>1. /\ Checks /\ RemoveActor(TheOne(Waves), Inserted) /\ Touches /\ At(Waves, Players)
        /\ j' = j + 1 /\ UNCHANGED <<player, item, i, src>>
        /\ step' = IF src \in Waves THEN "crashed" ELSE step
    BY <1>8 DEF BeginWave
  <2>2. ListPlaced' /\ MapsPlaced'
    <3>1. Pair \subseteq Colliders
      BY <2>1, PairOfCheck DEF Pair
    <3>. QED
      BY <2>1, <3>1, InsertedType, RemovedTypes DEF ListPlaced, MapsPlaced, Touches
  <2>3. HandsPlaced'
    BY <2>1 DEF HandsPlaced, player, item
  <2>4. LoopsPlaced'
    <3>1. CASE src \in Waves
      BY <2>1, <3>1 DEF LoopsPlaced
    <3>2. CASE src \notin Waves
      <4>1. TheOne(Waves) = list[j] /\ TheOne(Waves) \in Waves
        BY <2>1, <3>2, ChosenOne DEF At, Pair, Dest
      <4>2. TheOne(Waves) \notin Players
        BY <4>1, ContactsAssumption
      <4>3. list' = RemoveCollider(list, TheOne(Waves))
        BY <2>1, <4>2 DEF RemoveActor
      <4>4. i \in 1 .. Len(list) /\ j \in 1 .. Len(list) /\ i < j /\ src = list[i] /\ Len(list) \in Nat
            /\ j \in DOMAIN list
        BY <2>1, PairOfCheck
      <4>5. list \in Seq(Colliders) /\ \A a, b \in DOMAIN list : list[a] = list[b] => a = b
        BY DEF ListPlaced
      <4>6. Len(list') = Len(list) - 1 /\ \A n \in 1 .. j - 1 : list'[n] = list[n]
        BY <4>1, <4>3, <4>4, <4>5, Removal
      <4>. QED
        BY <2>1, <3>2, <4>6, <4>4 DEF LoopsPlaced
    <3>. QED
      BY <3>1, <3>2
  <2>5. (erased \in BOOLEAN)'
    BY <1>8, Zenon DEF BeginWave
  <2>. QED
    BY <2>2, <2>3, <2>4, <2>5
<1>9. CASE Overlapping \/ Apart
  <2>1. /\ Checks /\ Advance /\ touched' \subseteq touched \cup {Pair}
        /\ UNCHANGED <<actors, list, map, player, item, told>>
    BY <1>9 DEF Overlapping, Apart, Touches
  <2>2. Pair \subseteq Colliders
    BY <2>1, PairOfCheck DEF Pair
  <2>3. MapsPlaced' /\ HandsPlaced'
    BY <2>1, <2>2 DEF MapsPlaced, HandsPlaced, player, item
  <2>4. (erased \in BOOLEAN)'
    BY <1>9, Zenon DEF Overlapping, Apart
  <2>. QED
    BY <2>1, <2>3, <2>4, PassStep
<1>10. CASE End
  <2>1. /\ Checks /\ Advance /\ told' = told \ {Pair}
        /\ map' = [map EXCEPT ![src] = @ \ {Dest}, ![Dest] = @ \ {src}]
        /\ UNCHANGED <<actors, list, skill, owner, touched>>
    BY <1>10 DEF End
  <2>2. src \in Colliders /\ Dest \in Colliders
    BY <2>1, PairOfCheck
  <2>3. map' \in [Colliders -> SUBSET Colliders]
    <3>. DEFINE m == [map EXCEPT ![src] = @ \ {Dest}]
    <3>1. m \in [Colliders -> SUBSET Colliders]
      BY <2>2 DEF MapsPlaced
    <3>2. map' = [m EXCEPT ![Dest] = @ \ {src}]
      BY <2>1
    <3>. HIDE DEF m
    <3>. QED
      BY <2>2, <3>1, <3>2
  <2>4. MapsPlaced'
    BY <2>1, <2>3 DEF MapsPlaced
  <2>5. closeAtk' \subseteq Players /\ fkey' \subseteq Items
    BY <1>10 DEF End, HandsPlaced
  <2>6. hand' \in [Players -> Items \cup {Nothing}]
    BY <1>10 DEF End, HandsPlaced
  <2>7. HandsPlaced'
    BY <2>1, <2>5, <2>6 DEF HandsPlaced
  <2>8. (erased \in BOOLEAN)'
    BY <1>10, Zenon DEF End
  <2>. QED
    BY <2>1, <2>4, <2>7, <2>8, PassStep
<1>11. CASE UNCHANGED vars
  BY <1>11, Zenon DEF vars, player, item, loops, Placed, TypeOK, InList
<1>. QED
  BY <1>1, <1>2, <1>3, <1>4, <1>6, <1>7, <1>8, <1>9, <1>10, <1>11 DEF Next

-----------------------------------------------------------------------------
(* WavesLast, where nobody enters while a projectile flies.                *)

\* A projectile that met a player in the pass is the later of the two.
LEMMA WaveIsDest ==
  ASSUME Placed, WavesLast, Checks, At(Waves, Players)
  PROVE  src \notin Waves
<1>1. i \in DOMAIN list /\ j \in DOMAIN list /\ i < j /\ src = list[i] /\ Dest = list[j]
      /\ src \in Colliders
  BY PairOfCheck DEF Dest
<1>2. ASSUME src \in Waves PROVE Dest \in Players
  BY <1>1, <1>2, OneKind DEF At, Pair
<1>. QED
  BY <1>1, <1>2 DEF WavesLast

LEMMA WavesLastStep ==
  ASSUME ~LateEntry, Placed, WavesLast, [Next]_vars
  PROVE  WavesLast'
<1>1. ASSUME NEW c \in Players \cup Monsters \cup Waves, Enter(c) PROVE WavesLast'
  <2>1. /\ c \in Colliders /\ list' = Append(list, c) /\ step' = "tick"
        /\ c \in Players => Waves \cap actors = {}
    BY <1>1 DEF Enter, Colliders, loops
  <2>2. \A n \in DOMAIN list : list[n] # c
    BY <1>1, NewInList, Owners DEF Enter
  <2>3. c \in Players => \A n \in DOMAIN list : list[n] \notin Waves
    <3>. SUFFICES ASSUME c \in Players, NEW n \in DOMAIN list, list[n] \in Waves
                  PROVE  FALSE
      OBVIOUS
    <3>1. PICK a \in actors : list[n] \in CollidersOf(a)
      BY DEF Placed
    <3>2. a = list[n]
      BY <3>1, Owners DEF Placed, TypeOK
    <3>. QED
      BY <2>1, <3>2
  <2>4. \A a \in DOMAIN list : a \in Nat /\ a < Len(list) + 1
    BY DEF Placed, TypeOK
  <2>5. /\ DOMAIN list' = DOMAIN list \cup {Len(list) + 1} /\ Len(list) \in Nat
        /\ list'[Len(list) + 1] = c /\ \A n \in DOMAIN list : list'[n] = list[n]
    BY <2>1, <2>2, ListGrows DEF Placed, TypeOK
  <2>6. \A a, b \in DOMAIN list' : a < b => a \in DOMAIN list
    BY <2>4, <2>5
  <2>. QED
    BY <2>1, <2>3, <2>5, <2>6 DEF WavesLast
<1>2. ASSUME NEW c, NEW m, RemoveActor(c, m), step' # "crashed" PROVE WavesLast'
  <2>1. Shorter(CollidersOf(c))
    BY <1>2, RemovedFromList DEF Placed
  <2>. QED
    BY <1>2, <2>1 DEF Shorter, WavesLast
<1>3. ASSUME NEW p \in Players, Tick(p) PROVE WavesLast'
  <2>. DEFINE d == Detect(p)
  <2>1. step' = "tick" /\ d \in Colliders /\ d \in Detects
    BY <1>3 DEF Tick, loops, Colliders, Detects
  <2>2. list \in Seq(Colliders) /\ \A a, b \in DOMAIN list : list[a] = list[b] => a = b
    BY DEF Placed, TypeOK
  <2>3. CASE list' = RemoveCollider(list, d)
    <3>1. \A a, b \in DOMAIN list' : a < b =>
            \E e, f \in DOMAIN list : e < f /\ list[e] = list'[a] /\ list[f] = list'[b]
      BY <2>2, <2>3, Removal
    <3>. QED
      BY <2>1, <3>1 DEF WavesLast
  <2>4. CASE d \notin InList /\ list' = Append(list, d)
    <3>1. \A n \in DOMAIN list : list[n] # d
      BY <2>4 DEF InList
    <3>2. /\ DOMAIN list' = DOMAIN list \cup {Len(list) + 1} /\ Len(list) \in Nat
          /\ list'[Len(list) + 1] = d /\ \A n \in DOMAIN list : list'[n] = list[n]
      BY <2>1, <2>2, <2>4, <3>1, ListGrows
    <3>3. \A a \in DOMAIN list : a \in Nat /\ a < Len(list) + 1
      BY <2>2
    <3>4. d \notin Players
      BY <2>1, OneKind
    <3>. QED
      BY <2>1, <3>2, <3>3, <3>4 DEF WavesLast
  <2>5. CASE UNCHANGED list
    BY <2>1, <2>5 DEF WavesLast
  <2>. QED
    BY <1>3, <2>3, <2>4, <2>5 DEF Tick, TickDetect
<1>4. ASSUME UNCHANGED list, step' # "crashed" PROVE WavesLast'
  BY <1>4 DEF WavesLast
<1>5. CASE BeginWave
  <2>1. RemoveActor(TheOne(Waves), Inserted) /\ step' = step
    BY <1>5, WaveIsDest DEF BeginWave
  <2>. QED
    BY <1>2, <2>1 DEF WavesLast
<1>6. ASSUME NEW c, Remove(c) PROVE WavesLast'
  BY <1>2, <1>6 DEF Remove, loops
<1>7. CASE Update \/ NextSource \/ PassReturns
  BY <1>4, <1>7 DEF Update, NextSource, PassReturns, WavesLast
<1>8. CASE BeginItem \/ BeginDetect \/ Overlapping \/ End \/ Apart
  <2>1. UNCHANGED list /\ step' = step
    BY <1>8 DEF BeginItem, BeginDetect, Begins, Overlapping, End, Apart, Advance
  <2>. QED
    BY <1>4, <2>1 DEF WavesLast
<1>9. CASE UNCHANGED vars
  BY <1>4, <1>9 DEF vars, loops, WavesLast
<1>. QED
  BY <1>1, <1>3, <1>5, <1>6, <1>7, <1>8, <1>9 DEF Next

-----------------------------------------------------------------------------
(* Shown: what the hands and the F keys are worth.                         *)

LEMMA ShownStep ==
  ASSUME Placed, Shown, [Next]_vars
  PROVE  Shown'
<1>. DEFINE InHand(p) == hand[p] \in Items /\ owner[hand[p]] = Nothing
<1>0. hand \in [Players -> Items \cup {Nothing}] /\ owner \in [Items -> Players \cup {Nothing}]
      /\ fkey \subseteq Items /\ Nothing \notin Items
  BY ContactsAssumption DEF Placed, TypeOK
<1>1. ASSUME NEW c \in Players \cup Monsters \cup Waves, Enter(c) PROVE Shown'
  <2>1. /\ actors' = actors \cup {c} /\ UNCHANGED <<fkey, owner, told>>
        /\ hand' = [p \in Players |-> IF p = c THEN Nothing ELSE hand[p]]
    BY <1>1 DEF Enter, item
  <2>. QED
    BY <1>0, <2>1 DEF Shown
\* Whose collider goes, its contacts with items go with it.
<1>2. ASSUME NEW cs, cs \cap Items = {}, told' = Untold(cs), UNCHANGED <<hand, item>>,
             actors' \subseteq actors, \A p \in Players \cap actors' : p \notin cs
      PROVE  Shown'
  <2>1. \A p \in Players \cap actors' : InHand(p) => {hand[p], p} \in told'
    <3>. SUFFICES ASSUME NEW p \in Players \cap actors', InHand(p)
                  PROVE  {hand[p], p} \in told'
      OBVIOUS
    <3>1. {hand[p], p} \in told
      BY <1>2 DEF Shown
    <3>2. {hand[p], p} \cap cs = {}
      BY <1>2
    <3>. QED
      BY <1>2, <3>1, <3>2 DEF Untold
  <2>. QED
    BY <1>2, <2>1 DEF Shown, item
<1>3. ASSUME NEW c \in Copies \cup Monsters \cup Waves, NEW m, RemoveActor(c, m), UNCHANGED <<hand, item>>
      PROVE  Shown'
  <2>1. /\ actors' = actors \ {c} /\ told' = Untold(CollidersOf(c))
    BY <1>3 DEF RemoveActor
  <2>2. CollidersOf(c) \cap Items = {}
    BY ContactsAssumption DEF CollidersOf, Players, Detects
  <2>3. \A p \in Players \cap actors' : p \notin CollidersOf(c)
    BY <2>1, Owners DEF Players
  <2>. QED
    BY <1>2, <1>3, <2>1, <2>2, <2>3
<1>4. ASSUME NEW c \in Copies \cup Monsters \cup Waves, Remove(c) PROVE Shown'
  BY <1>3, <1>4 DEF Remove, player
<1>5. ASSUME NEW p \in Players, Tick(p) PROVE Shown'
  <2>1. PICK skilled \in BOOLEAN, pressed \in BOOLEAN :
          TickCollideItem(p, pressed) /\ TickDetect(p, skilled)
    BY <1>5 DEF Tick
  <2>2. UNCHANGED <<actors, hand>>
    BY <1>5 DEF Tick
  <2>3. told' = told \/ told' = Untold({Detect(p)})
    BY <2>1 DEF TickDetect
  <2>4. \A q \in Players \cap actors : InHand(q) => {hand[q], q} \in told'
    <3>1. \A q \in Players : q # Detect(p) /\ Detect(p) \notin Items
      BY ContactsAssumption DEF Detects
    <3>2. \A q \in Players \cap actors : InHand(q) => {hand[q], q} \in told
      BY DEF Shown
    <3>. QED
      BY <2>3, <3>1, <3>2 DEF Untold
  <2>5. CASE pressed /\ hand[p] \in fkey
    <3>1. owner' = [owner EXCEPT ![hand[p]] = p] /\ fkey' = fkey \ {hand[p]}
      BY <2>1, <2>5 DEF TickCollideItem
    <3>2. \A k \in fkey' : owner'[k] = Nothing
      BY <1>0, <3>1 DEF Shown
    <3>3. \A k \in Items : owner'[k] = Nothing => owner[k] = Nothing
      BY <1>0, <2>5, <3>1 DEF Shown
    <3>. QED
      BY <2>2, <2>4, <3>2, <3>3 DEF Shown
  <2>6. CASE UNCHANGED item
    BY <2>2, <2>4, <2>6 DEF Shown, item
  <2>. QED
    BY <2>1, <2>5, <2>6 DEF TickCollideItem
<1>6. CASE BeginItem
  <2>. DEFINE k == TheOne(Items)
              p == TheOne(Players)
  <2>1. k \in Items /\ p \in Players /\ k \in Pair /\ p \in Pair
    BY <1>6, ChosenOne DEF BeginItem, At
  <2>2. Pair = {k, p}
    <3>1. k # p
      BY <2>1, ContactsAssumption
    <3>. QED
      BY <2>1, <3>1 DEF Pair
  <2>3. /\ IF Layer(k) = "ITEM" THEN fkey' = fkey \cup {k} /\ hand' = [hand EXCEPT ![p] = k]
           ELSE UNCHANGED <<fkey, hand>>
        /\ told' = told \cup {Pair} /\ UNCHANGED <<actors, owner>>
    BY <1>6 DEF BeginItem, Begins
  <2>4. Layer(k) = "ITEM" => owner[k] = Nothing
    BY <2>1, ContactsAssumption DEF Layer
  <2>. HIDE DEF k, p
  <2>. QED
    BY <1>0, <2>1, <2>2, <2>3, <2>4 DEF Shown
<1>7. CASE BeginDetect
  <2>1. UNCHANGED <<hand, fkey, owner, actors>> /\ told' = told \cup {Pair}
    BY <1>7 DEF BeginDetect, Begins
  <2>. QED
    BY <2>1 DEF Shown
<1>8. CASE BeginWave
  <2>1. RemoveActor(TheOne(Waves), Inserted) /\ UNCHANGED <<hand, item>> /\ TheOne(Waves) \in Waves
    BY <1>8, ChosenOne DEF BeginWave, player, At
  <2>. QED
    BY <1>3, <2>1
<1>9. CASE End
  <2>1. told' = told \ {Pair} /\ UNCHANGED <<actors, owner>>
    BY <1>9 DEF End
  <2>2. CASE At(Items, Players) /\ Layer(TheOne(Items)) = "ITEM"
    <3>. DEFINE k == TheOne(Items)
                p == TheOne(Players)
    <3>1. k \in Items /\ p \in Players /\ k \in Pair /\ p \in Pair
      BY <2>2, ChosenOne DEF At
    <3>2. Pair = {k, p}
      <4>1. k # p
        BY <3>1, ContactsAssumption
      <4>. QED
        BY <3>1, <4>1 DEF Pair
    <3>3. fkey' = fkey \ {k} /\ hand' = [hand EXCEPT ![p] = Nothing]
      BY <1>9, <2>2 DEF End
    <3>. HIDE DEF k, p
    <3>4. ASSUME NEW q \in Players \cap actors, hand'[q] \in Items, owner[hand'[q]] = Nothing
          PROVE  {hand'[q], q} \in told'
      <4>1. q # p /\ hand'[q] = hand[q]
        BY <1>0, <3>1, <3>3, <3>4
      <4>2. {hand[q], q} \in told
        BY <3>4, <4>1 DEF Shown
      <4>3. {hand[q], q} # {k, p}
        BY <3>1, <3>4, <4>1, ContactsAssumption
      <4>. QED
        BY <2>1, <3>2, <4>1, <4>2, <4>3
    <3>. QED
      BY <2>1, <3>3, <3>4 DEF Shown
  <2>3. CASE ~(At(Items, Players) /\ Layer(TheOne(Items)) = "ITEM")
    <3>1. UNCHANGED <<fkey, hand>>
      BY <1>9, <2>3 DEF End
    <3>2. ASSUME NEW q \in Players \cap actors, InHand(q)
          PROVE  {hand[q], q} # Pair
      <4>. SUFFICES ASSUME {hand[q], q} = Pair PROVE FALSE
        OBVIOUS
      <4>1. At(Items, Players)
        BY <3>2 DEF At
      <4>2. TheOne(Items) = hand[q]
        BY <3>2, <4>1, ChosenOne, ContactsAssumption DEF At
      <4>3. Layer(hand[q]) = "ITEM"
        BY <3>2, ContactsAssumption DEF Layer
      <4>. QED
        BY <2>3, <4>1, <4>2, <4>3
    <3>. QED
      BY <2>1, <3>1, <3>2 DEF Shown
  <2>. QED
    BY <2>2, <2>3
<1>10. CASE Update \/ NextSource \/ PassReturns \/ Overlapping \/ Apart \/ UNCHANGED vars
  <2>1. UNCHANGED <<actors, hand, fkey, owner, told>>
    BY <1>10 DEF Update, NextSource, PassReturns, Overlapping, Apart, vars, player, item
  <2>. QED
    BY <2>1 DEF Shown
<1>. QED
  BY <1>1, <1>4, <1>5, <1>6, <1>7, <1>8, <1>9, <1>10 DEF Next

-----------------------------------------------------------------------------
(* ToldSoFar, where no collider gets the address of a deleted one.         *)

\* The maps and what was told lose the colliders that go together.
LEMMA ForgotTogether ==
  ASSUME NEW cs, NEW m \in [Colliders -> SUBSET Colliders], NEW t,
         \A c, d \in Colliders : {c, d} \in t <=> d \in m[c],
         map' = Forget(m, cs), told' = {u \in t : u \cap cs = {}}
  PROVE  MapsAreTold'
<1>. SUFFICES ASSUME NEW c \in Colliders, NEW d \in Colliders
              PROVE  {c, d} \in told' <=> d \in map'[c]
  BY DEF MapsAreTold
<1>1. {c, d} \in told' <=> {c, d} \in t /\ c \notin cs /\ d \notin cs
  OBVIOUS
<1>2. map'[c] = IF c \in cs THEN {} ELSE m[c] \ cs
  BY DEF Forget
<1>. QED
  BY <1>1, <1>2

\* A contact that begins is told when it is put into the maps.
LEMMA InsertedTold ==
  ASSUME Placed, Checks, MapsAreTold
  PROVE  \A c, d \in Colliders : {c, d} \in told \cup {Pair} <=> d \in Inserted[c]
<1>1. map \in [Colliders -> SUBSET Colliders] /\ src \in Colliders /\ Dest \in Colliders /\ src # Dest
  BY PairOfCheck DEF Placed, TypeOK
<1>. SUFFICES ASSUME NEW c \in Colliders, NEW d \in Colliders
              PROVE  {c, d} \in told \cup {Pair} <=> d \in Inserted[c]
  OBVIOUS
<1>2. {c, d} = Pair <=> (c = src /\ d = Dest) \/ (c = Dest /\ d = src)
  BY PairsEqual DEF Pair
<1>3. d \in Inserted[c] <=> d \in map[c] \/ (c = src /\ d = Dest) \/ (c = Dest /\ d = src)
  BY <1>1 DEF Inserted
<1>4. {c, d} \in told <=> d \in map[c]
  BY DEF MapsAreTold
<1>. QED
  BY <1>2, <1>3, <1>4

\* The next pair of the inner loop: the one place that becomes checked.
LEMMA OneMoreChecked ==
  ASSUME Placed, Checks, Advance, NEW a \in DOMAIN list, NEW b \in DOMAIN list, a < b
  PROVE  /\ Checked(a, b)' <=> Checked(a, b) \/ (a = i /\ b = j)
         /\ (a = i /\ b = j) <=> {list[a], list[b]} = Pair
         /\ (a = i /\ b = j) => ~Checked(a, b)
<1>1. /\ i \in DOMAIN list /\ j \in DOMAIN list /\ i < j /\ src = list[i] /\ Dest = list[j]
      /\ list \in Seq(Colliders) /\ \A m, n \in DOMAIN list : list[m] = list[n] => m = n
      /\ step = "pass"
  BY PairOfCheck DEF Dest, Placed, TypeOK, Checks
<1>2. i \in Nat /\ j \in Nat /\ a \in Nat /\ b \in Nat
  BY <1>1
<1>3. i' = i /\ j' = j + 1 /\ step' = "pass"
  BY <1>1 DEF Advance
<1>4. Checked(a, b)' <=> Checked(a, b) \/ (a = i /\ b = j)
  BY <1>1, <1>2, <1>3 DEF Checked
<1>5. (a = i /\ b = j) => ~Checked(a, b)
  BY <1>1, <1>2 DEF Checked
<1>6. {list[a], list[b]} = Pair <=> (list[a] = src /\ list[b] = Dest) \/ (list[a] = Dest /\ list[b] = src)
  BY PairsEqual DEF Pair
<1>7. (list[a] = src <=> a = i) /\ (list[a] = Dest <=> a = j) /\ (list[b] = src <=> b = i)
      /\ (list[b] = Dest <=> b = j)
  BY <1>1
<1>. QED
  BY <1>1, <1>2, <1>4, <1>5, <1>6, <1>7

\* A check that settles its own pair and no other.
LEMMA PairSettled ==
  ASSUME Placed, ToldSoFar, Checks, Advance, UNCHANGED <<list, owner, erased>>,
         MapsAreTold',
         \A p : p # Pair => (p \in told' <=> p \in told) /\ (p \in touched' <=> p \in touched),
         ~erased => (Pair \in told' <=> Pair \in touched' /\ Collides)
  PROVE  ToldSoFar'
<1>1. step = "pass" /\ step' = "pass"
  BY DEF Checks, Advance
<1>2. ASSUME ~erased, NEW a \in DOMAIN list, NEW b \in DOMAIN list, a < b
      PROVE  IF Checked(a, b)'
             THEN {list[a], list[b]} \in told' <=>
                    {list[a], list[b]} \in touched' /\ Layer(list[b]) \in Flags(list[a])
             ELSE {list[a], list[b]} \notin touched'
  <2>1. IF Checked(a, b)
        THEN {list[a], list[b]} \in told <=>
               {list[a], list[b]} \in touched /\ Layer(list[b]) \in Flags(list[a])
        ELSE {list[a], list[b]} \notin touched
    BY <1>1, <1>2 DEF ToldSoFar
  <2>2. CASE a = i /\ b = j
    <3>1. list[a] = src /\ list[b] = Dest
      BY <2>2, PairOfCheck DEF Dest
    <3>2. Collides <=> Layer(list[b]) \in Flags(list[a])
      BY <3>1 DEF Collides
    <3>. QED
      BY <1>2, <2>2, <3>2, OneMoreChecked
  <2>3. CASE ~(a = i /\ b = j)
    BY <1>2, <2>1, <2>3, OneMoreChecked
  <2>. QED
    BY <2>2, <2>3
<1>3. \A c : Layer(c)' = Layer(c)
  BY DEF Layer
<1>. QED
  BY <1>1, <1>2, <1>3 DEF ToldSoFar

LEMMA ToldStep ==
  ASSUME ~Reuse, Placed, ToldSoFar, [Next]_vars
  PROVE  ToldSoFar'
<1>0. MapsAreTold /\ map \in [Colliders -> SUBSET Colliders]
  BY DEF ToldSoFar, Placed, TypeOK
\* Between two passes only the maps matter.
<1>1. ASSUME step' = "tick", UNCHANGED <<touched, erased>>, step = "tick", MapsAreTold'
      PROVE  ToldSoFar'
  BY <1>1 DEF ToldSoFar
<1>2. ASSUME UNCHANGED <<map, told>> PROVE MapsAreTold'
  BY <1>0, <1>2 DEF MapsAreTold
<1>3. ASSUME NEW c \in Players \cup Monsters \cup Waves, Enter(c) PROVE ToldSoFar'
  BY <1>1, <1>2, <1>3 DEF Enter, loops
<1>4. ASSUME NEW c, Remove(c) PROVE ToldSoFar'
  <2>1. map' = Forget(map, CollidersOf(c)) /\ told' = Untold(CollidersOf(c))
    BY <1>4 DEF Remove, RemoveActor
  <2>2. MapsAreTold'
    BY <1>0, <2>1, ForgotTogether DEF Untold, MapsAreTold
  <2>. QED
    BY <1>1, <1>4, <2>2 DEF Remove, loops
<1>5. ASSUME NEW p \in Players, Tick(p) PROVE ToldSoFar'
  <2>1. \/ map' = Forget(map, {Detect(p)}) /\ told' = Untold({Detect(p)})
        \/ UNCHANGED <<map, told>>
    BY <1>5 DEF Tick, TickDetect
  <2>2. ASSUME map' = Forget(map, {Detect(p)}), told' = Untold({Detect(p)}) PROVE MapsAreTold'
    BY <1>0, <2>2, ForgotTogether DEF Untold, MapsAreTold
  <2>. QED
    BY <1>1, <1>2, <1>5, <2>1, <2>2 DEF Tick, loops
<1>6. CASE Update
  <2>1. \A a, b \in DOMAIN list : a < b => ~Checked(a, b)'
    <3>1. \A a \in DOMAIN list : a \in Nat /\ a >= 1
      BY DEF Placed, TypeOK
    <3>2. step' = "pass" /\ i' = 1 /\ j' = 2
      BY <1>6 DEF Update
    <3>. QED
      BY <3>1, <3>2 DEF Checked
  <2>2. UNCHANGED <<list, map, told, touched, erased>> /\ touched = {} /\ step' = "pass"
    BY <1>6 DEF Update, ToldSoFar
  <2>. QED
    BY <1>2, <2>1, <2>2 DEF ToldSoFar
<1>7. CASE NextSource
  <2>1. /\ step = "pass" /\ j > Len(list) /\ i \in 1 .. Len(list)
        /\ list \in Seq(Colliders) /\ j \in i + 1 .. Len(list) + 2
        /\ UNCHANGED <<list, map, told, touched, erased, owner>>
    BY <1>7 DEF NextSource, Placed, TypeOK, item
  <2>2. \A a \in DOMAIN list : a \in Nat /\ a <= Len(list)
    BY <2>1
  <2>3. \A a, b \in DOMAIN list : a < b => (Checked(a, b)' <=> Checked(a, b))
    <3>1. CASE i < Len(list)
      <4>1. i' = i + 1 /\ j' = i + 2 /\ step' = "pass"
        BY <1>7, <2>1, <3>1 DEF NextSource
      <4>. QED
        BY <2>1, <2>2, <4>1 DEF Checked
    <3>2. CASE ~(i < Len(list))
      <4>1. i = Len(list) /\ step' = "end"
        BY <1>7, <2>1, <3>2 DEF NextSource
      <4>. QED
        BY <2>1, <2>2, <4>1 DEF Checked
    <3>. QED
      BY <3>1, <3>2
  <2>4. step' \in {"pass", "end"}
    BY <1>7, <2>1 DEF NextSource
  <2>5. \A c : Layer(c)' = Layer(c)
    BY <2>1 DEF Layer
  <2>. QED
    BY <1>2, <2>1, <2>3, <2>4, <2>5 DEF ToldSoFar
<1>8. CASE PassReturns
  BY <1>2, <1>8 DEF PassReturns, ToldSoFar
<1>9. ASSUME Begins PROVE ToldSoFar'
  <2>1. /\ Checks /\ Collides /\ Advance /\ map' = Inserted /\ told' = told \cup {Pair}
        /\ touched' = touched \cup {Pair} /\ UNCHANGED <<list, owner, erased>>
    BY <1>9 DEF Begins, Touches
  <2>2. MapsAreTold'
    BY <1>0, <2>1, InsertedTold DEF MapsAreTold
  <2>. QED
    BY <2>1, <2>2, PairSettled
<1>10. CASE BeginWave
  <2>. DEFINE w == TheOne(Waves)
  <2>1. /\ Checks /\ map' = Forget(Inserted, CollidersOf(w)) /\ told' = Untold(CollidersOf(w))
        /\ erased' /\ step' # "tick"
    BY <1>10 DEF BeginWave, RemoveActor, Checks
  <2>2. w \in Pair /\ w \in CollidersOf(w)
    BY <1>10, ChosenOne DEF BeginWave, At, CollidersOf
  <2>3. told' = {u \in told \cup {Pair} : u \cap CollidersOf(w) = {}}
    BY <2>1, <2>2 DEF Untold
  <2>4. MapsAreTold'
    <3>1. Inserted \in [Colliders -> SUBSET Colliders]
      BY <2>1, InsertedType
    <3>2. \A c, d \in Colliders : {c, d} \in told \cup {Pair} <=> d \in Inserted[c]
      BY <1>0, <2>1, InsertedTold
    <3>. DEFINE t == told \cup {Pair}
                cs == CollidersOf(w)
    <3>3. \A c, d \in Colliders : {c, d} \in t <=> d \in Inserted[c]
      BY <3>2
    <3>4. map' = Forget(Inserted, cs) /\ told' = {u \in t : u \cap cs = {}}
      BY <2>1, <2>3
    <3>. HIDE DEF t, cs
    <3>. QED
      BY <3>1, <3>3, <3>4, ForgotTogether
  <2>. QED
    BY <2>1, <2>4 DEF ToldSoFar
<1>11. CASE Overlapping
  <2>1. /\ Checks /\ Collides /\ Known /\ Advance /\ touched' = touched \cup {Pair}
        /\ UNCHANGED <<list, owner, erased, map, told>>
    BY <1>11 DEF Overlapping, Touches, item
  <2>2. Pair \in told
    BY <1>0, <2>1, PairOfCheck DEF MapsAreTold, Known, Pair
  <2>. QED
    BY <1>2, <2>1, <2>2, PairSettled
\* A pair that is checked now has not touched in this pass.
<1>12. ASSUME Checks, ~erased PROVE Pair \notin touched
  <2>1. i \in DOMAIN list /\ j \in DOMAIN list /\ i < j /\ Pair = {list[i], list[j]}
    BY <1>12, PairOfCheck DEF Pair, Dest
  <2>2. ~Checked(i, j) /\ step = "pass"
    BY <1>12, <2>1 DEF Checked, Checks
  <2>. QED
    BY <1>12, <2>1, <2>2 DEF ToldSoFar
<1>13. CASE End
  <2>1. /\ Checks /\ Advance /\ told' = told \ {Pair}
        /\ map' = [map EXCEPT ![src] = @ \ {Dest}, ![Dest] = @ \ {src}]
        /\ UNCHANGED <<list, owner, erased, touched>>
    BY <1>13 DEF End
  <2>2. src \in Colliders /\ Dest \in Colliders /\ src # Dest
    BY <2>1, PairOfCheck
  <2>3. MapsAreTold'
    <3>. SUFFICES ASSUME NEW c \in Colliders, NEW d \in Colliders
                  PROVE  {c, d} \in told' <=> d \in map'[c]
      BY DEF MapsAreTold
    <3>1. {c, d} = Pair <=> (c = src /\ d = Dest) \/ (c = Dest /\ d = src)
      BY PairsEqual DEF Pair
    <3>2. d \in map'[c] <=> d \in map[c] /\ ~(c = src /\ d = Dest) /\ ~(c = Dest /\ d = src)
      BY <1>0, <2>1, <2>2
    <3>3. {c, d} \in told <=> d \in map[c]
      BY <1>0 DEF MapsAreTold
    <3>. QED
      BY <2>1, <3>1, <3>2, <3>3
  <2>. QED
    BY <1>12, <2>1, <2>3, PairSettled
<1>14. CASE Apart
  <2>1. Checks /\ Advance /\ ~Known /\ UNCHANGED <<list, owner, erased, map, told>>
    BY <1>14 DEF Apart, item
  <2>2. \/ touched' = touched
        \/ touched' = touched \cup {Pair} /\ ~Collides
    BY <1>14, Zenon DEF Apart
  <2>3. Pair \notin told
    BY <1>0, <2>1, PairOfCheck DEF MapsAreTold, Known, Pair
  <2>. QED
    BY <1>2, <1>12, <2>1, <2>2, <2>3, PairSettled
<1>15. CASE UNCHANGED vars
  <2>1. UNCHANGED <<list, map, owner, step, i, j, told, touched, erased>>
    BY <1>15 DEF vars, item, loops
  <2>2. \A c : Layer(c)' = Layer(c)
    BY <2>1 DEF Layer
  <2>. QED
    BY <1>2, <2>1, <2>2 DEF ToldSoFar, Checked
<1>. QED
  BY <1>3, <1>4, <1>5, <1>6, <1>7, <1>8, <1>9, <1>10, <1>11, <1>13, <1>14, <1>15
     DEF Next, BeginItem, BeginDetect

-----------------------------------------------------------------------------
(* The theorems.                                                           *)

LEMMA PlacedAlways == Spec => []Placed
<1>1. Placed /\ [Next]_vars => Placed'
  BY PlacedStep
<1>. QED
  BY <1>1, PlacedInit, PTL DEF Spec

LEMMA ShownAlways == Spec => []Shown
<1>1. Init => Shown
  BY ContactsAssumption DEF Init, Shown
<1>2. Placed /\ Shown /\ [Next]_vars => Shown'
  BY ShownStep
<1>. QED
  BY <1>1, <1>2, PlacedAlways, PTL DEF Spec

\* Every variable has its type, and the loops stay in the list
\* (CollisionManager::Update).
THEOREM TypeCorrect == Spec => []TypeOK
<1>1. Placed => TypeOK
  BY DEF Placed
<1>. QED
  BY <1>1, PlacedAlways, PTL

\* Where no player enters while a projectile flies, no pass uses a collider
\* that a callback deleted: the list and the source of the inner loop are
\* colliders of actors in the scene (CollisionManager::Update, Actor::~Actor).
THEOREM NothingFreedIsUsed == ASSUME ~LateEntry PROVE Spec => []NoFreedCollider
<1>1. Init => WavesLast
  <2>1. ASSUME Init PROVE step # "crashed" /\ \A n \in DOMAIN list : list[n] \notin Players
    BY <2>1, ContactsAssumption DEF Init
  <2>. QED
    BY <2>1 DEF WavesLast
<1>2. Placed /\ WavesLast /\ [Next]_vars => WavesLast'
  BY WavesLastStep
<1>3. Placed /\ WavesLast => NoFreedCollider
  <2>. SUFFICES ASSUME Placed, WavesLast PROVE NoFreedCollider
    OBVIOUS
  <2>1. step = "pass" => i \in DOMAIN list /\ src = list[i]
    BY DEF Placed, TypeOK
  <2>2. \A n \in DOMAIN list : \E a \in actors : list[n] \in CollidersOf(a)
    BY DEF Placed
  <2>. QED
    BY <2>1, <2>2 DEF NoFreedCollider, WavesLast, InList
<1>. QED
  BY <1>1, <1>2, <1>3, PlacedAlways, PTL DEF Spec

\* Where no collider gets the address of a deleted one, the begin and end
\* callbacks tell the owners of exactly the contacts there are, though only one
\* collider of a pair is asked (CollisionManager::Update).
THEOREM EventsAreContacts == ASSUME ~Reuse PROVE Spec => []EventsTellContacts
<1>1. Init => ToldSoFar
  <2>. SUFFICES ASSUME Init PROVE ToldSoFar
    OBVIOUS
  <2>1. MapsAreTold
    BY DEF Init, MapsAreTold
  <2>. QED
    BY <2>1 DEF Init, ToldSoFar
<1>2. Placed /\ ToldSoFar /\ [Next]_vars => ToldSoFar'
  BY ToldStep
<1>3. ToldSoFar => EventsTellContacts
  BY DEF ToldSoFar, EventsTellContacts, Checked
<1>. QED
  BY <1>1, <1>2, <1>3, PlacedAlways, PTL DEF Spec

\* Whoever acquires an item has been told of a contact with it that lasts
\* (Player::TickCollideItem).
THEOREM OnlyInReach == Spec => TakenInReach
<1>1. Placed /\ Shown /\ [Next]_vars =>
        [\A k \in Items : owner'[k] # owner[k] => {k, owner'[k]} \in told]_vars
  <2>. SUFFICES ASSUME Placed, Shown, Next, NEW k \in Items, owner'[k] # owner[k]
                PROVE  {k, owner'[k]} \in told
    OBVIOUS
  <2>1. PICK p \in Players : Tick(p)
    BY DEF Next, Enter, Remove, Update, NextSource, PassReturns, BeginItem, BeginDetect, Begins,
           BeginWave, Overlapping, End, Apart, item
  <2>2. PICK pressed \in BOOLEAN : TickCollideItem(p, pressed)
    BY <2>1 DEF Tick
  <2>3. owner' = [owner EXCEPT ![hand[p]] = p] /\ hand[p] \in fkey
    BY <2>2 DEF TickCollideItem, item
  <2>4. owner \in [Items -> Players \cup {Nothing}] /\ fkey \subseteq Items
    BY DEF Placed, TypeOK
  <2>5. hand[p] = k /\ owner'[k] = p
    BY <2>3, <2>4
  <2>6. owner[k] = Nothing /\ p \in actors
    BY <2>1, <2>3, <2>5 DEF Shown, Tick
  <2>. QED
    BY <2>5, <2>6 DEF Shown
<1>. QED
  BY <1>1, PlacedAlways, ShownAlways, PTL DEF TakenInReach, Spec

\* An acquired item keeps its owner, whoever else stands at it and presses F
\* (Player::TickCollideItem).
THEOREM OnlyOnce == Spec => TakenOnce
<1>1. Placed /\ Shown /\ [Next]_vars =>
        [\A k \in Items : owner[k] # Nothing => owner'[k] = owner[k]]_vars
  <2>. SUFFICES ASSUME Placed, Shown, Next, NEW k \in Items, owner[k] # Nothing
                PROVE  owner'[k] = owner[k]
    OBVIOUS
  <2>1. UNCHANGED owner \/ \E p \in Players, pressed \in BOOLEAN : TickCollideItem(p, pressed)
    BY DEF Next, Enter, Remove, Tick, Update, NextSource, PassReturns, BeginItem, BeginDetect, Begins,
           BeginWave, Overlapping, End, Apart, item
  <2>2. k \notin fkey /\ owner \in [Items -> Players \cup {Nothing}]
    BY DEF Shown, Placed, TypeOK
  <2>. QED
    BY <2>1, <2>2 DEF TickCollideItem, item
<1>. QED
  BY <1>1, PlacedAlways, ShownAlways, PTL DEF TakenOnce, Spec
=============================================================================
