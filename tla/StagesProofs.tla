---------------------------- MODULE StagesProofs ----------------------------
(***************************************************************************)
(* Stages and the save file, for every number of stages, monsters and      *)
(* items: SaveOfThisStage, NoDanglingMonster and ContinueRestores.         *)
(*                                                                         *)
(* First what SaveCurData writes: FlattenPairs finds, by induction on the  *)
(* number of pairs, the sequence that FlattenSeq makes of them, FileLayout *)
(* lists the numbers of the file, and LoadedBack shows that LoadGameData   *)
(* makes of them what they were made of.  Then IInv is inductive: a file   *)
(* there is was written by SaveCurData in the stage that is played, and    *)
(* the monsters registered with a pointer are in the scene.                *)
(***************************************************************************)
EXTENDS Stages, SequenceTheorems, FiniteSetTheorems, WellFoundedInduction, TLAPS

-----------------------------------------------------------------------------
(* Induction over the natural numbers, with a set for the predicate.       *)

\* A set of natural numbers that is not empty has a least element.
LEMMA Least ==
  ASSUME NEW T, T \subseteq Nat, T # {}
  PROVE  \E x \in T : \A y \in T : x <= y
<1>. DEFINE R == OpToRel(<, Nat)
<1>1. IsWellFoundedOn(R, Nat)
  BY NatLessThanWellFounded
<1>2. \A x, y \in Nat : <<x, y>> \in R <=> x < y
  BY DEF OpToRel
<1>. HIDE DEF R
<1>3. PICK x \in T : \A y \in T : ~ (<<y, x>> \in R)
  BY <1>1, WFMin
<1>4. \A y \in T : x \in Nat /\ y \in Nat /\ ~(y < x)
  BY <1>2, <1>3
<1>. QED
  BY <1>4

\* What holds of 1 and of the number after each it holds of, up to N, holds of
\* all of 1 .. N.
LEMMA UpTo ==
  ASSUME NEW N \in Nat, NEW S, N > 0 => 1 \in S,
         \A n \in 1 .. N - 1 : n \in S => n + 1 \in S
  PROVE  1 .. N \subseteq S
<1>1. SUFFICES ASSUME (1 .. N) \ S # {}
               PROVE  FALSE
  OBVIOUS
<1>2. PICK x \in (1 .. N) \ S : \A y \in (1 .. N) \ S : x <= y
  <2>1. (1 .. N) \ S \subseteq Nat
    OBVIOUS
  <2>. QED
    BY <1>1, <2>1, Least
<1>3. x # 1 /\ x - 1 \in 1 .. N - 1
  BY <1>2
<1>4. x - 1 \in S
  BY <1>2, <1>3
<1>. QED
  BY <1>2, <1>3, <1>4

-----------------------------------------------------------------------------
(* Pairs.                                                                  *)

\* The sequence of the first n pairs of a and b.
Interleaved(a, b, n) ==
  [j \in 1 .. 2 * n |-> IF j % 2 = 1 THEN a[(j + 1) \div 2] ELSE b[j \div 2]]

\* p is the sequence over V of the first n pairs of a and b.
PairsOf(p, V, a, b, n) ==
  /\ p \in Seq(V) /\ Len(p) = 2 * n
  /\ \A k \in 1 .. n : p[2 * k - 1] = a[k] /\ p[2 * k] = b[k]

LEMMA InterleavedSeq ==
  ASSUME NEW V, NEW N \in Nat, NEW a \in [1 .. N -> V], NEW b \in [1 .. N -> V]
  PROVE  \A n \in 0 .. N : PairsOf(Interleaved(a, b, n), V, a, b, n)
<1>. TAKE n \in 0 .. N
<1>1. \A j \in 1 .. 2 * n : IF j % 2 = 1 THEN (j + 1) \div 2 \in 1 .. N ELSE j \div 2 \in 1 .. N
  OBVIOUS
<1>2. Interleaved(a, b, n) \in [1 .. 2 * n -> V]
  BY <1>1 DEF Interleaved
<1>3. 2 * n \in Nat
  OBVIOUS
<1>4. \A k \in 1 .. n : /\ 2 * k \in 1 .. 2 * n /\ 2 * k - 1 \in 1 .. 2 * n
                        /\ (2 * k) % 2 = 0 /\ (2 * k - 1) % 2 = 1
                        /\ (2 * k) \div 2 = k /\ (2 * k - 1 + 1) \div 2 = k
  OBVIOUS
<1>. QED
  BY <1>2, <1>3, <1>4, SeqDef DEF Interleaved, PairsOf

\* FlattenSeq of a sequence of pairs.
LEMMA FlattenPairs ==
  ASSUME NEW V, NEW N \in Nat, N > 0, NEW a \in [1 .. N -> V], NEW b \in [1 .. N -> V]
  PROVE  FlattenSeq([n \in 1 .. N |-> <<a[n], b[n]>>]) = Interleaved(a, b, N)
<1>. DEFINE seqs == [n \in 1 .. N |-> <<a[n], b[n]>>]
            F == [i \in 1 .. N |-> Interleaved(a, b, i)]
            Is(f) == f = [i \in 1 .. N |-> IF i = 1 THEN seqs[i] ELSE f[i - 1] \o seqs[i]]
<1>1. Len(seqs) = N
  OBVIOUS
<1>2. \A i \in 1 .. N : seqs[i] = <<a[i], b[i]>> /\ seqs[i] \in Seq(V) /\ Len(seqs[i]) = 2
  OBVIOUS
<1>0. \A n \in 0 .. N :
        /\ Interleaved(a, b, n) \in Seq(V) /\ Len(Interleaved(a, b, n)) = 2 * n
        /\ \A k \in 1 .. n : /\ Interleaved(a, b, n)[2 * k - 1] = a[k]
                             /\ Interleaved(a, b, n)[2 * k] = b[k]
  <2>1. \A n \in 0 .. N : PairsOf(Interleaved(a, b, n), V, a, b, n)
    BY InterleavedSeq
  <2>. QED
    BY <2>1 DEF PairsOf
<1>3. F[1] = seqs[1]
  <2>1. /\ Interleaved(a, b, 1) \in Seq(V) /\ Len(Interleaved(a, b, 1)) = 2
        /\ Interleaved(a, b, 1)[1] = a[1] /\ Interleaved(a, b, 1)[2] = b[1]
    <3>1. /\ Interleaved(a, b, 1) \in Seq(V) /\ Len(Interleaved(a, b, 1)) = 2 * 1
          /\ Interleaved(a, b, 1)[2 * 1 - 1] = a[1] /\ Interleaved(a, b, 1)[2 * 1] = b[1]
      <4>1. 1 \in 0 .. N /\ 1 \in 1 .. 1
        OBVIOUS
      <4>. QED
        BY <1>0, <4>1
    <3>. QED
      BY <3>1
  <2>2. \A j \in 1 .. 2 : Interleaved(a, b, 1)[j] = seqs[1][j]
    BY <1>2, <2>1
  <2>. HIDE DEF seqs
  <2>. QED
    BY <1>2, <2>1, <2>2, SeqEqual
<1>4. ASSUME NEW i \in 1 .. N, i # 1
      PROVE  F[i] = F[i - 1] \o seqs[i]
  <2>. DEFINE s == Interleaved(a, b, i - 1)
              t == Interleaved(a, b, i)
  <2>1. s \in Seq(V) /\ Len(s) = 2 * (i - 1) /\ t \in Seq(V) /\ Len(t) = 2 * i
    <3>1. i - 1 \in 0 .. N /\ i \in 0 .. N
      BY <1>4
    <3>. QED
      BY <1>0, <3>1
  <2>2. /\ s \o seqs[i] \in Seq(V) /\ Len(s \o seqs[i]) = 2 * i
        /\ \A j \in 1 .. 2 * i : (s \o seqs[i])[j]
             = IF j <= 2 * (i - 1) THEN s[j] ELSE seqs[i][j - 2 * (i - 1)]
    <3>. HIDE DEF s, t, seqs
    <3>1. /\ s \o seqs[i] \in Seq(V) /\ Len(s \o seqs[i]) = Len(s) + Len(seqs[i])
          /\ \A j \in 1 .. Len(s) + Len(seqs[i]) : (s \o seqs[i])[j]
               = IF j <= Len(s) THEN s[j] ELSE seqs[i][j - Len(s)]
      BY <1>2, <2>1, ConcatProperties
    <3>2. Len(s) + Len(seqs[i]) = 2 * i
      <4>1. Len(s) = 2 * (i - 1) /\ Len(seqs[i]) = 2
        BY <1>2, <2>1
      <4>. QED
        BY <4>1
    <3>. QED
      BY <2>1, <3>1, <3>2
  <2>5. t[2 * i - 1] = a[i] /\ t[2 * i] = b[i]
    <3>1. i \in 0 .. N /\ i \in 1 .. i
      OBVIOUS
    <3>. QED
      BY <1>0, <3>1
  <2>3. \A j \in 1 .. 2 * i : (s \o seqs[i])[j] = t[j]
    <3>. SUFFICES ASSUME NEW j \in 1 .. 2 * i
                  PROVE  (s \o seqs[i])[j] = t[j]
      OBVIOUS
    <3>1. CASE j <= 2 * (i - 1)
      <4>1. s[j] = t[j]
        BY <3>1, <1>4 DEF Interleaved
      <4>. QED
        BY <2>2, <3>1, <4>1
    <3>2. CASE j = 2 * i - 1
      <4>1. t[2 * i - 1] = a[i]
        BY <2>5
      <4>2. (s \o seqs[i])[j] = seqs[i][1]
        BY <2>2, <3>2
      <4>. QED
        BY <1>2, <3>2, <4>1, <4>2
    <3>3. CASE j = 2 * i
      <4>1. t[2 * i] = b[i]
        BY <2>5
      <4>2. (s \o seqs[i])[j] = seqs[i][2]
        <5>1. ~(2 * i <= 2 * (i - 1)) /\ 2 * i - 2 * (i - 1) = 2 /\ 2 * i \in 1 .. 2 * i
          OBVIOUS
        <5>. QED
          BY <2>2, <3>3, <5>1
      <4>. QED
        BY <1>2, <3>3, <4>1, <4>2
    <3>4. j <= 2 * (i - 1) \/ j = 2 * i - 1 \/ j = 2 * i
      OBVIOUS
    <3>. QED
      BY <3>1, <3>2, <3>3, <3>4
  <2>. HIDE DEF s, t, seqs
  <2>4. s \o seqs[i] = t
    BY <2>1, <2>2, <2>3, SeqEqual
  <2>. QED
    <3>1. F[i] = t /\ F[i - 1] = s
      BY <1>4 DEF s, t
    <3>. QED
      BY <2>4, <3>1
<1>. HIDE DEF seqs
<1>10. \A i \in 1 .. N : i # 1 => F[i] = F[i - 1] \o seqs[i]
  <2>. HIDE DEF F
  <2>. QED
    BY <1>4
<1>5. Is(F)
  <2>1. \A i \in 1 .. N : F[i] = IF i = 1 THEN seqs[i] ELSE F[i - 1] \o seqs[i]
    BY <1>3, <1>4
  <2>. QED
    BY <2>1
<1>6. ASSUME NEW f, Is(f)
      PROVE  f = F
  <2>. DEFINE S == {i \in 1 .. N : f[i] = F[i]}
  <2>0. \A i \in 1 .. N : f[i] = IF i = 1 THEN seqs[i] ELSE f[i - 1] \o seqs[i]
    BY <1>6
  <2>1. N > 0 => 1 \in S
    BY <1>3, <2>0
  <2>2. ASSUME NEW n \in 1 .. N - 1, n \in S
        PROVE  n + 1 \in S
    <3>1. PICK m \in 1 .. N : m = n + 1
      OBVIOUS
    <3>2. m # 1 /\ m - 1 = n
      BY <3>1
    <3>3. f[m] = f[m - 1] \o seqs[m]
      BY <2>0, <3>2
    <3>4. F[m] = F[m - 1] \o seqs[m]
      <4>. HIDE DEF F
      <4>. QED
        BY <1>10, <3>2
    <3>5. f[m] = F[m]
      <4>. HIDE DEF F
      <4>. QED
        BY <2>2, <3>2, <3>3, <3>4
    <3>. QED
      BY <3>1, <3>5
  <2>3. 1 .. N \subseteq S
    <3>. HIDE DEF S
    <3>. QED
      BY <2>1, <2>2, UpTo
  <2>4. DOMAIN f = 1 .. N
    BY <1>6
  <2>5. f = [i \in 1 .. N |-> f[i]]
    BY <1>6
  <2>. QED
    BY <2>3, <2>5
<1>7. FlattenSeq(seqs) = (CHOOSE f : Is(f))[N]
  BY <1>1 DEF FlattenSeq
<1>8. (CHOOSE f : Is(f)) = F
  <2>. HIDE DEF Is
  <2>. QED
    BY <1>5, <1>6
<1>9. F[N] = Interleaved(a, b, N)
  OBVIOUS
<1>. QED
  BY <1>7, <1>8, <1>9 DEF seqs
-----------------------------------------------------------------------------
(* The file.                                                               *)

\* SetToSeq lists every element of a finite set.
LEMMA Listed ==
  ASSUME NEW S, IsFiniteSet(S)
  PROVE  /\ Cardinality(S) \in Nat
         /\ SetToSeq(S) \in [1 .. Cardinality(S) -> S]
         /\ \A x \in S : \E n \in 1 .. Cardinality(S) : SetToSeq(S)[n] = x
<1>. DEFINE N == Cardinality(S)
            l == SetToSeq(S)
<1>1. N \in Nat /\ ExistsBijection(1 .. N, S)
  BY FS_CardinalityType
<1>2. \E f \in [1 .. N -> S] : IsInjective(f)
  BY <1>1 DEF ExistsBijection, Bijection, Injection
<1>3. l \in [1 .. N -> S] /\ IsInjective(l)
  BY <1>2 DEF SetToSeq
<1>4. IsFiniteSet(1 .. N) /\ Cardinality(1 .. N) = N
  BY <1>1, FS_Interval
<1>. HIDE DEF N, l
<1>5. l \in Injection(1 .. N, S)
  BY <1>3 DEF Injection
<1>6. l \in Surjection(1 .. N, S)
  BY <1>4, <1>5, FS_Injection DEF N
<1>. QED
  BY <1>1, <1>3, <1>6 DEF Surjection, N, l

\* Pairs writes a function pair by pair, each of its arguments once or more.
LEMMA PairsWritten ==
  ASSUME NEW V, NEW f, IsFiniteSet(DOMAIN f), DOMAIN f \subseteq V,
         \A k \in DOMAIN f : f[k] \in V
  PROVE  \E e \in [1 .. Cardinality(DOMAIN f) -> DOMAIN f] :
           /\ \A k \in DOMAIN f : \E n \in 1 .. Cardinality(DOMAIN f) : e[n] = k
           /\ PairsOf(Pairs(f), V, e, [n \in 1 .. Cardinality(DOMAIN f) |-> f[e[n]]],
                      Cardinality(DOMAIN f))
<1>. DEFINE N == Cardinality(DOMAIN f)
            e == SetToSeq(DOMAIN f)
            v == [n \in 1 .. N |-> f[e[n]]]
            seqs == [n \in 1 .. N |-> <<e[n], v[n]>>]
<1>1. /\ N \in Nat /\ e \in [1 .. N -> DOMAIN f]
      /\ \A k \in DOMAIN f : \E n \in 1 .. N : e[n] = k
  BY Listed
<1>2. Pairs(f) = FlattenSeq([n \in 1 .. N |-> <<e[n], f[e[n]]>>])
  BY DEF Pairs
<1>. HIDE DEF N, e
<1>3. e \in [1 .. N -> V] /\ v \in [1 .. N -> V]
  BY <1>1
<1>4. Pairs(f) = FlattenSeq(seqs)
  <2>1. [n \in 1 .. N |-> <<e[n], f[e[n]]>>] = seqs
    OBVIOUS
  <2>. QED
    BY <1>2, <2>1
<1>. HIDE DEF v
<1>5. PairsOf(Pairs(f), V, e, v, N)
  <2>1. CASE N > 0
    <3>1. Pairs(f) = Interleaved(e, v, N)
      BY <1>1, <1>3, <1>4, <2>1, FlattenPairs
    <3>2. N \in 0 .. N
      BY <1>1
    <3>3. \A n \in 0 .. N : PairsOf(Interleaved(e, v, n), V, e, v, n)
      BY <1>1, <1>3, InterleavedSeq
    <3>. QED
      BY <3>1, <3>2, <3>3
  <2>2. CASE N = 0
    <3>1. seqs \in Seq(V) /\ Len(seqs) = 0
      BY <2>2
    <3>. HIDE DEF seqs
    <3>2. Pairs(f) = seqs
      BY <1>4, <3>1 DEF FlattenSeq
    <3>. QED
      BY <2>2, <3>1, <3>2 DEF PairsOf
  <2>. QED
    BY <1>1, <2>1, <2>2
<1>. QED
  BY <1>1, <1>5 DEF N, v

\* t is s followed by u, element by element.
Follows(t, s, u) ==
  /\ Len(t) = Len(s) + Len(u)
  /\ \A i \in 1 .. Len(s) : t[i] = s[i]
  /\ \A i \in 1 .. Len(u) : t[Len(s) + i] = u[i]

LEMMA Joined ==
  ASSUME NEW V, NEW s \in Seq(V), NEW u \in Seq(V)
  PROVE  s \o u \in Seq(V) /\ Follows(s \o u, s, u)
<1>1. Len(s) \in Nat /\ Len(u) \in Nat
  OBVIOUS
<1>2. /\ s \o u \in Seq(V) /\ Len(s \o u) = Len(s) + Len(u)
      /\ \A i \in 1 .. Len(s) + Len(u) :
           (s \o u)[i] = IF i <= Len(s) THEN s[i] ELSE u[i - Len(s)]
  BY ConcatProperties
<1>3. \A i \in 1 .. Len(s) : (s \o u)[i] = s[i]
  BY <1>1, <1>2
<1>4. \A i \in 1 .. Len(u) : (s \o u)[Len(s) + i] = u[i]
  BY <1>1, <1>2
<1>. QED
  BY <1>2, <1>3, <1>4 DEF Follows

\* t is four sequences one after the other.
FourIn(t, s1, s2, s3, s4) ==
  /\ Len(t) = Len(s1) + Len(s2) + Len(s3) + Len(s4)
  /\ \A j \in 1 .. Len(s1) : t[j] = s1[j]
  /\ \A j \in 1 .. Len(s2) : t[Len(s1) + j] = s2[j]
  /\ \A j \in 1 .. Len(s3) : t[Len(s1) + Len(s2) + j] = s3[j]
  /\ \A j \in 1 .. Len(s4) : t[Len(s1) + Len(s2) + Len(s3) + j] = s4[j]

LEMMA FourParts ==
  ASSUME NEW V, NEW s1 \in Seq(V), NEW s2 \in Seq(V), NEW s3 \in Seq(V), NEW s4 \in Seq(V)
  PROVE  /\ s1 \o s2 \o s3 \o s4 \in Seq(V)
         /\ FourIn(s1 \o s2 \o s3 \o s4, s1, s2, s3, s4)
<1>. DEFINE a == s1 \o s2
            b == a \o s3
            t == b \o s4
<1>1. a \in Seq(V) /\ Follows(a, s1, s2)
  BY Joined
<1>. HIDE DEF a
<1>2. b \in Seq(V) /\ Follows(b, a, s3)
  BY <1>1, Joined
<1>. HIDE DEF b
<1>3. t \in Seq(V) /\ Follows(t, b, s4)
  BY <1>2, Joined
<1>. HIDE DEF t
<1>4. /\ Len(s1) \in Nat /\ Len(s2) \in Nat /\ Len(s3) \in Nat /\ Len(s4) \in Nat
      /\ Len(a) = Len(s1) + Len(s2)
      /\ Len(b) = Len(s1) + Len(s2) + Len(s3)
      /\ Len(t) = Len(s1) + Len(s2) + Len(s3) + Len(s4)
  BY <1>1, <1>2, <1>3 DEF Follows
<1>5. /\ \A j \in 1 .. Len(b) : t[j] = b[j]
      /\ \A j \in 1 .. Len(s4) : t[Len(b) + j] = s4[j]
      /\ \A j \in 1 .. Len(a) : b[j] = a[j]
      /\ \A j \in 1 .. Len(s3) : b[Len(a) + j] = s3[j]
      /\ \A j \in 1 .. Len(s1) : a[j] = s1[j]
      /\ \A j \in 1 .. Len(s2) : a[Len(s1) + j] = s2[j]
  BY <1>1, <1>2, <1>3 DEF Follows
<1>6. \A j \in 1 .. Len(s1) : t[j] = s1[j]
  <2>. TAKE j \in 1 .. Len(s1)
  <2>1. j \in 1 .. Len(a) /\ j \in 1 .. Len(b)
    BY <1>4
  <2>. QED
    BY <1>5, <2>1
<1>7. \A j \in 1 .. Len(s2) : t[Len(s1) + j] = s2[j]
  <2>. TAKE j \in 1 .. Len(s2)
  <2>1. PICK i \in 1 .. Len(a) : i = Len(s1) + j
    BY <1>4
  <2>2. i \in 1 .. Len(b)
    BY <1>4
  <2>. QED
    BY <1>5, <2>1, <2>2
<1>8. \A j \in 1 .. Len(s3) : t[Len(s1) + Len(s2) + j] = s3[j]
  <2>. TAKE j \in 1 .. Len(s3)
  <2>1. PICK i \in 1 .. Len(b) : i = Len(a) + j
    BY <1>4
  <2>2. i = Len(s1) + Len(s2) + j
    BY <1>4, <2>1
  <2>3. t[i] = s3[j]
    BY <1>5, <2>1
  <2>. QED
    BY <2>2, <2>3
<1>9. \A j \in 1 .. Len(s4) : t[Len(s1) + Len(s2) + Len(s3) + j] = s4[j]
  <2>. TAKE j \in 1 .. Len(s4)
  <2>1. Len(b) + j = Len(s1) + Len(s2) + Len(s3) + j
    BY <1>4
  <2>2. t[Len(b) + j] = s4[j]
    BY <1>5
  <2>. QED
    BY <2>1, <2>2
<1>. QED
  BY <1>3, <1>4, <1>6, <1>7, <1>8, <1>9 DEF t, b, a, FourIn

\* What a save keeps, and the health the living may have.
Healths == UNION {[ms -> 1 .. MaxMonsterHp] : ms \in SUBSET Monsters}
Saves == [player : Player, stage : StageNums, dead : SUBSET Monsters, killed : SUBSET Monsters,
          living : Healths]

\* The file that SaveCurData writes for the save sv, with the health of those
\* who live.
FileOf(sv, living) ==
  <<sv.stage, sv.player.pos, sv.player.hp, sv.player.skill>> \o Pairs(living)
    \o Pairs([m \in sv.dead |-> 0])
    \o IF DOMAIN sv.player.items = {} THEN <<0>> ELSE Pairs(sv.player.items)

\* From its fifth number on, t has M monsters with their health: the dead with
\* none, the living with some.
MonstersOf(t, M, living, dead) ==
  /\ \A k \in 1 .. M : /\ t[3 + 2 * k] \in Monsters
                       /\ t[4 + 2 * k] <= 0 => t[3 + 2 * k] \in dead
                       /\ t[4 + 2 * k] > 0 => t[3 + 2 * k] \in living
  /\ \A m \in dead : \E k \in 1 .. M : t[3 + 2 * k] = m /\ t[4 + 2 * k] <= 0
  /\ \A m \in living : \E k \in 1 .. M : t[3 + 2 * k] = m /\ t[4 + 2 * k] > 0

\* The numbers of t from rest on are the items and how many there are, or 0.
ItemsOf(t, rest, items) ==
  IF DOMAIN items = {} THEN Len(t) = rest /\ t[rest] = 0
  ELSE \E n \in Nat \ {0} :
         /\ Len(t) = rest - 1 + 2 * n
         /\ \A j \in 1 .. n : /\ t[rest - 2 + 2 * j] \in DOMAIN items
                              /\ t[rest - 1 + 2 * j] = items[t[rest - 2 + 2 * j]]
         /\ \A k \in DOMAIN items : \E j \in 1 .. n : t[rest - 2 + 2 * j] = k

\* The places of a saved file.
LEMMA FileLayout ==
  ASSUME NEW sv \in Saves, NEW living \in Healths
  PROVE  LET t == FileOf(sv, living)
         IN  /\ t \in Seq(Nat)
             /\ t[1] = sv.stage /\ t[2] = sv.player.pos
             /\ t[3] = sv.player.hp /\ t[4] = sv.player.skill
             /\ \E M \in Nat : /\ 4 + 2 * M < Len(t)
                               /\ MonstersOf(t, M, DOMAIN living, sv.dead)
                               /\ ItemsOf(t, 5 + 2 * M, sv.player.items)
<1>. DEFINE t == FileOf(sv, living)
            s1 == <<sv.stage, sv.player.pos, sv.player.hp, sv.player.skill>>
            none == [m \in sv.dead |-> 0]
            items == sv.player.items
            s2 == Pairs(living)
            s3 == Pairs(none)
            s4 == IF DOMAIN items = {} THEN <<0>> ELSE Pairs(items)
            n2 == Cardinality(DOMAIN living)
            n3 == Cardinality(sv.dead)
            n4 == Cardinality(DOMAIN items)
<1>1. /\ Monsters \subseteq Nat /\ Items \subseteq Nat
      /\ LastStage \in Nat /\ MaxHp \in Nat /\ MaxMonsterHp \in Nat /\ MaxSkill \in Nat
  BY StagesAssumption
<1>2. s1 \in Seq(Nat) /\ Len(s1) = 4
  BY <1>1 DEF Saves, Player, StageNums, SavePoint
<1>3. /\ DOMAIN living \subseteq Monsters
      /\ \A k \in DOMAIN living : living[k] \in 1 .. MaxMonsterHp
      /\ sv.dead \subseteq Monsters /\ DOMAIN items \subseteq Items
      /\ \A k \in DOMAIN items : items[k] = 1
  BY DEF Healths, Saves, Player
<1>4. IsFiniteSet(DOMAIN living) /\ IsFiniteSet(sv.dead) /\ IsFiniteSet(DOMAIN items)
  BY <1>3, FS_Subset, StagesAssumption
<1>. HIDE DEF items
<1>5. PICK e2 \in [1 .. n2 -> DOMAIN living] :
        /\ \A k \in DOMAIN living : \E n \in 1 .. n2 : e2[n] = k
        /\ PairsOf(s2, Nat, e2, [n \in 1 .. n2 |-> living[e2[n]]], n2)
  <2>1. DOMAIN living \subseteq Nat /\ \A k \in DOMAIN living : living[k] \in Nat
    <3>1. 1 .. MaxMonsterHp \subseteq Nat
      OBVIOUS
    <3>. QED
      BY <1>1, <1>3, <3>1
  <2>. QED
    BY <1>4, <2>1, PairsWritten
<1>6. PICK e3 \in [1 .. n3 -> sv.dead] :
        /\ \A k \in sv.dead : \E n \in 1 .. n3 : e3[n] = k
        /\ PairsOf(s3, Nat, e3, [n \in 1 .. n3 |-> none[e3[n]]], n3)
  <2>1. DOMAIN none = sv.dead /\ DOMAIN none \subseteq Nat /\ \A k \in DOMAIN none : none[k] \in Nat
    BY <1>1, <1>3
  <2>2. IsFiniteSet(DOMAIN none)
    BY <1>4, <2>1
  <2>. HIDE DEF none
  <2>3. \E e \in [1 .. Cardinality(DOMAIN none) -> DOMAIN none] :
          /\ \A k \in DOMAIN none : \E n \in 1 .. Cardinality(DOMAIN none) : e[n] = k
          /\ PairsOf(Pairs(none), Nat, e,
                     [n \in 1 .. Cardinality(DOMAIN none) |-> none[e[n]]],
                     Cardinality(DOMAIN none))
    BY <2>1, <2>2, PairsWritten
  <2>4. DOMAIN none = sv.dead
    BY <2>1
  <2>. QED
    BY <2>3, <2>4, Zenon
<1>7. PICK e4 \in [1 .. n4 -> DOMAIN items] :
        /\ \A k \in DOMAIN items : \E n \in 1 .. n4 : e4[n] = k
        /\ PairsOf(Pairs(items), Nat, e4, [n \in 1 .. n4 |-> items[e4[n]]], n4)
  <2>1. DOMAIN items \subseteq Nat
    BY <1>1, <1>3
  <2>2. \A k \in DOMAIN items : items[k] \in Nat
    BY <1>3
  <2>. QED
    BY <1>4, <2>1, <2>2, PairsWritten
<1>8. n2 \in Nat /\ n3 \in Nat /\ n4 \in Nat
  BY <1>4, FS_CardinalityType
<1>. HIDE DEF n2, n3, n4, s1, s2, s3
<1>9. /\ s2 \in Seq(Nat) /\ Len(s2) = 2 * n2
      /\ s3 \in Seq(Nat) /\ Len(s3) = 2 * n3
      /\ \A k \in 1 .. n2 : s2[2 * k - 1] = e2[k] /\ s2[2 * k] = living[e2[k]]
      /\ \A k \in 1 .. n3 : s3[2 * k - 1] = e3[k] /\ s3[2 * k] = 0
  BY <1>5, <1>6 DEF PairsOf
<1>10. /\ Pairs(items) \in Seq(Nat) /\ Len(Pairs(items)) = 2 * n4
       /\ \A k \in 1 .. n4 : /\ Pairs(items)[2 * k - 1] = e4[k]
                             /\ Pairs(items)[2 * k] = items[e4[k]]
  BY <1>7 DEF PairsOf
<1>11. s4 \in Seq(Nat)
  BY <1>10
<1>12. t = s1 \o s2 \o s3 \o s4
  BY DEF FileOf, s1, s2, s3, items
<1>. HIDE DEF s4, t
<1>13. /\ t \in Seq(Nat) /\ Len(t) = Len(s1) + Len(s2) + Len(s3) + Len(s4)
       /\ \A j \in 1 .. Len(s1) : t[j] = s1[j]
       /\ \A j \in 1 .. Len(s2) : t[Len(s1) + j] = s2[j]
       /\ \A j \in 1 .. Len(s3) : t[Len(s1) + Len(s2) + j] = s3[j]
       /\ \A j \in 1 .. Len(s4) : t[Len(s1) + Len(s2) + Len(s3) + j] = s4[j]
  <2>1. t \in Seq(Nat) /\ FourIn(t, s1, s2, s3, s4)
    BY <1>2, <1>9, <1>11, <1>12, FourParts
  <2>. QED
    BY <2>1 DEF FourIn
<1>. DEFINE M == n2 + n3
<1>14. /\ M \in Nat /\ Len(s4) \in Nat /\ Len(t) = 4 + 2 * M + Len(s4)
       /\ \A j \in 1 .. 4 : t[j] = s1[j]
       /\ \A j \in 1 .. 2 * n2 : t[4 + j] = s2[j]
       /\ \A j \in 1 .. 2 * n3 : t[4 + 2 * n2 + j] = s3[j]
       /\ \A j \in 1 .. Len(s4) : t[4 + 2 * M + j] = s4[j]
  <2>1. Len(s4) \in Nat
    BY <1>11
  <2>2. 4 + 2 * n2 + 2 * n3 = 4 + 2 * M
    BY <1>8
  <2>. QED
    BY <1>2, <1>8, <1>9, <1>13, <2>1, <2>2
<1>15. \A k \in 1 .. n2 : t[3 + 2 * k] = e2[k] /\ t[4 + 2 * k] = living[e2[k]]
  <2>. TAKE k \in 1 .. n2
  <2>1. PICK j \in 1 .. 2 * n2 : j = 2 * k - 1
    BY <1>8
  <2>2. 2 * k \in 1 .. 2 * n2 /\ 4 + j = 3 + 2 * k
    BY <1>8, <2>1
  <2>3. t[4 + j] = s2[j] /\ t[4 + 2 * k] = s2[2 * k]
    BY <1>14, <2>2
  <2>. QED
    BY <1>9, <2>1, <2>2, <2>3
<1>16. \A k \in 1 .. n3 : t[3 + 2 * (n2 + k)] = e3[k] /\ t[4 + 2 * (n2 + k)] = 0
  <2>. TAKE k \in 1 .. n3
  <2>1. PICK j \in 1 .. 2 * n3 : j = 2 * k - 1
    BY <1>8
  <2>2. /\ 2 * k \in 1 .. 2 * n3 /\ 4 + 2 * n2 + j = 3 + 2 * (n2 + k)
        /\ 4 + 2 * n2 + 2 * k = 4 + 2 * (n2 + k)
    BY <1>8, <2>1
  <2>3. t[4 + 2 * n2 + j] = s3[j] /\ t[4 + 2 * n2 + 2 * k] = s3[2 * k]
    BY <1>14, <2>2
  <2>. QED
    BY <1>9, <2>1, <2>2, <2>3
<1>17. MonstersOf(t, M, DOMAIN living, sv.dead)
  <2>1. ASSUME NEW k \in 1 .. M
        PROVE  /\ t[3 + 2 * k] \in Monsters
               /\ t[4 + 2 * k] <= 0 => t[3 + 2 * k] \in sv.dead
               /\ t[4 + 2 * k] > 0 => t[3 + 2 * k] \in DOMAIN living
    <3>1. CASE k \in 1 .. n2
      <4>1. e2[k] \in DOMAIN living
        BY <1>5, <3>1
      <4>2. living[e2[k]] \in 1 .. MaxMonsterHp /\ e2[k] \in Monsters
        BY <1>3, <4>1
      <4>. QED
        BY <1>1, <1>15, <3>1, <4>1, <4>2
    <3>2. CASE k \notin 1 .. n2
      <4>1. PICK l \in 1 .. n3 : k = n2 + l
        <5>1. k - n2 \in 1 .. n3 /\ k = n2 + (k - n2)
          BY <1>8, <3>2
        <5>. QED
          BY <5>1
      <4>2. e3[l] \in sv.dead
        BY <1>6
      <4>3. t[3 + 2 * k] = e3[l] /\ t[4 + 2 * k] = 0
        BY <1>16, <4>1
      <4>. QED
        BY <1>3, <4>2, <4>3
    <3>. QED
      BY <3>1, <3>2
  <2>2. ASSUME NEW m \in sv.dead
        PROVE  \E k \in 1 .. M : t[3 + 2 * k] = m /\ t[4 + 2 * k] <= 0
    <3>1. PICK l \in 1 .. n3 : e3[l] = m
      BY <1>6
    <3>2. PICK k \in 1 .. M : k = n2 + l
      BY <1>8
    <3>3. t[3 + 2 * k] = m /\ t[4 + 2 * k] = 0
      BY <1>16, <3>1, <3>2
    <3>. QED
      BY <3>3
  <2>3. ASSUME NEW m \in DOMAIN living
        PROVE  \E k \in 1 .. M : t[3 + 2 * k] = m /\ t[4 + 2 * k] > 0
    <3>1. PICK k \in 1 .. n2 : e2[k] = m
      BY <1>5
    <3>2. k \in 1 .. M
      BY <1>8
    <3>3. t[3 + 2 * k] = m /\ t[4 + 2 * k] = living[m]
      BY <1>15, <3>1
    <3>4. living[m] > 0
      BY <1>3, <1>1
    <3>. QED
      BY <3>2, <3>3, <3>4
  <2>. QED
    BY <2>1, <2>2, <2>3 DEF MonstersOf
<1>18. ItemsOf(t, 5 + 2 * M, items) /\ 4 + 2 * M < Len(t)
  <2>1. CASE DOMAIN items = {}
    <3>1. s4 = <<0>>
      BY <2>1 DEF s4
    <3>2. Len(s4) = 1 /\ s4[1] = 0
      BY <3>1
    <3>3. Len(t) = 5 + 2 * M /\ t[4 + 2 * M + 1] = 0
      BY <1>14, <3>2
    <3>4. 4 + 2 * M + 1 = 5 + 2 * M
      BY <1>14
    <3>. QED
      BY <1>14, <2>1, <3>3, <3>4 DEF ItemsOf
  <2>2. CASE DOMAIN items # {}
    <3>1. s4 = Pairs(items)
      BY <2>2 DEF s4
    <3>2. n4 # 0
      BY <1>4, <2>2, FS_EmptySet DEF n4
    <3>3. /\ Len(t) = 4 + 2 * M + 2 * n4
          /\ \A j \in 1 .. 2 * n4 : t[4 + 2 * M + j] = s4[j]
      BY <1>10, <1>14, <3>1
    <3>4. \A k \in 1 .. n4 : /\ t[(5 + 2 * M) - 2 + 2 * k] = e4[k]
                             /\ t[(5 + 2 * M) - 1 + 2 * k] = items[e4[k]]
      <4>. TAKE k \in 1 .. n4
      <4>1. PICK j \in 1 .. 2 * n4 : j = 2 * k - 1
        BY <1>8
      <4>2. /\ 2 * k \in 1 .. 2 * n4 /\ 4 + 2 * M + j = (5 + 2 * M) - 2 + 2 * k
            /\ 4 + 2 * M + 2 * k = (5 + 2 * M) - 1 + 2 * k
        BY <1>8, <1>14, <4>1
      <4>3. t[4 + 2 * M + j] = s4[j] /\ t[4 + 2 * M + 2 * k] = s4[2 * k]
        BY <3>3, <4>2
      <4>. QED
        BY <1>10, <3>1, <4>1, <4>2, <4>3
    <3>5. Len(t) = (5 + 2 * M) - 1 + 2 * n4 /\ 4 + 2 * M < Len(t)
      <4>1. (5 + 2 * M) - 1 = 4 + 2 * M /\ 2 * n4 > 0
        BY <1>8, <1>14, <3>2
      <4>. QED
        BY <1>8, <1>14, <3>3, <4>1
    <3>6. /\ \A j \in 1 .. n4 :
               /\ t[(5 + 2 * M) - 2 + 2 * j] \in DOMAIN items
               /\ t[(5 + 2 * M) - 1 + 2 * j] = items[t[(5 + 2 * M) - 2 + 2 * j]]
          /\ \A k \in DOMAIN items : \E j \in 1 .. n4 : t[(5 + 2 * M) - 2 + 2 * j] = k
      BY <1>7, <3>4
    <3>7. n4 \in Nat \ {0}
      BY <1>8, <3>2
    <3>. DEFINE rest == 5 + 2 * M
    <3>8. ItemsOf(t, rest, items)
      <4>1. /\ Len(t) = rest - 1 + 2 * n4
            /\ \A j \in 1 .. n4 : /\ t[rest - 2 + 2 * j] \in DOMAIN items
                                  /\ t[rest - 1 + 2 * j] = items[t[rest - 2 + 2 * j]]
            /\ \A k \in DOMAIN items : \E j \in 1 .. n4 : t[rest - 2 + 2 * j] = k
        BY <3>5, <3>6, Zenon
      <4>. HIDE DEF rest
      <4>. QED
        BY <2>2, <3>7, <4>1, Zenon DEF ItemsOf
    <3>. QED
      BY <3>5, <3>8
  <2>. QED
    BY <2>1, <2>2
<1>19. /\ t[1] = sv.stage /\ t[2] = sv.player.pos
       /\ t[3] = sv.player.hp /\ t[4] = sv.player.skill
  <2>1. t[1] = s1[1] /\ t[2] = s1[2] /\ t[3] = s1[3] /\ t[4] = s1[4]
    BY <1>14
  <2>. QED
    BY <2>1 DEF s1
<1>. QED
  BY <1>13, <1>14, <1>17, <1>18, <1>19 DEF t, items

\* The GameScene.
Scenes ==
  [stage : 0 .. LastStage, dead : SUBSET Monsters,
   monsters : UNION {[ms -> BOOLEAN] : ms \in SUBSET Monsters}, field : Healths,
   loaded : Player \cup {None}, pending : 0 .. LastStage, changes : 0 .. 3]

\* The scene s after the save sv was read, with the monsters alive in it.
Restored(s, sv, alive) ==
  [s EXCEPT !.stage = sv.stage, !.loaded = sv.player, !.dead = sv.dead,
            !.monsters = [m \in alive |-> FALSE]]

\* What LoadGameData reads is what SaveCurData wrote, whatever its length.
LEMMA LoadedBack ==
  ASSUME NEW sv \in Saves, NEW living \in Healths, NEW s \in Scenes
  PROVE  Loaded(s, FileOf(sv, living)) = Restored(s, sv, DOMAIN living)
<1>. DEFINE t == FileOf(sv, living)
            items == sv.player.items
            alive == DOMAIN living
<1>1. /\ t \in Seq(Nat)
      /\ t[1] = sv.stage /\ t[2] = sv.player.pos /\ t[3] = sv.player.hp /\ t[4] = sv.player.skill
      /\ \E M \in Nat : /\ 4 + 2 * M < Len(t)
                        /\ MonstersOf(t, M, alive, sv.dead)
                        /\ ItemsOf(t, 5 + 2 * M, items)
  BY FileLayout
<1>2. PICK M \in Nat : /\ 4 + 2 * M < Len(t)
                       /\ MonstersOf(t, M, alive, sv.dead)
                       /\ ItemsOf(t, 5 + 2 * M, items)
  BY <1>1
<1>3. /\ sv.player \in Player /\ DOMAIN items \subseteq Items /\ items = [k \in DOMAIN items |-> items[k]]
      /\ sv.player = [pos |-> sv.player.pos, hp |-> sv.player.hp, skill |-> sv.player.skill,
                      items |-> items]
  BY DEF Saves, Player
<1>4. /\ ItemId \in Nat \ {0}
      /\ \A m \in Monsters : m < ItemId
      /\ \A k \in Items : k \in Nat /\ k >= ItemId
  BY StagesAssumption
<1>. HIDE DEF t, items, alive
<1>. DEFINE rest == 5 + 2 * M
            entries == {k \in 1 .. Len(t) :
                          4 + 2 * k <= Len(t) /\ \A l \in 1 .. k : t[3 + 2 * l] < ItemId}
            places == IF rest > Len(t) \/ t[rest] = 0 THEN {}
                      ELSE {n \in rest .. Len(t) - 1 : (n - rest) % 2 = 0}
            carried == [k \in {t[n] : n \in places} |-> t[1 + CHOOSE n \in places : t[n] = k]]
<1>5. Len(t) \in Nat
  BY <1>1
<1>6. entries = 1 .. M
  <2>1. ASSUME NEW k \in 1 .. M
        PROVE  k \in entries
    <3>1. k \in 1 .. Len(t) /\ 4 + 2 * k <= Len(t)
      BY <1>2, <1>5
    <3>2. ASSUME NEW l \in 1 .. k
          PROVE  t[3 + 2 * l] \in Monsters
      <4>1. l \in 1 .. M
        OBVIOUS
      <4>. QED
        BY <1>2, <4>1 DEF MonstersOf
    <3>. QED
      BY <1>4, <3>1, <3>2
  <2>2. ASSUME NEW k \in entries, k \notin 1 .. M
        PROVE  FALSE
    <3>1. k \in Nat /\ k > M /\ 4 + 2 * k <= Len(t)
      BY <2>2
    <3>2. CASE DOMAIN items = {}
      <4>1. Len(t) = 5 + 2 * M
        BY <1>2, <3>2 DEF ItemsOf
      <4>. QED
        BY <3>1, <4>1
    <3>3. CASE DOMAIN items # {}
      <4>1. t[rest - 2 + 2 * 1] \in Items
        <5>1. \E n \in Nat \ {0} : \A j \in 1 .. n : t[rest - 2 + 2 * j] \in DOMAIN items
          BY <1>2, <3>3 DEF ItemsOf
        <5>2. PICK n \in Nat \ {0} : \A j \in 1 .. n : t[rest - 2 + 2 * j] \in DOMAIN items
          BY <5>1
        <5>3. 1 \in 1 .. n
          OBVIOUS
        <5>. QED
          BY <1>3, <5>2, <5>3
      <4>2. rest - 2 + 2 * 1 = 3 + 2 * (M + 1) /\ M + 1 \in 1 .. k
        BY <3>1
      <4>3. t[3 + 2 * (M + 1)] < ItemId
        BY <2>2, <4>2
      <4>. QED
        BY <1>4, <4>1, <4>2, <4>3
    <3>. QED
      BY <3>2, <3>3
  <2>. HIDE DEF entries
  <2>3. entries \subseteq 1 .. M /\ 1 .. M \subseteq entries
    BY <2>1, <2>2
  <2>. QED
    BY <2>3
<1>7. 5 + 2 * Cardinality(entries) = rest
  <2>1. Cardinality(1 .. M) = IF 1 > M THEN 0 ELSE M - 1 + 1
    BY FS_Interval
  <2>. HIDE DEF entries
  <2>. QED
    BY <1>6, <2>1
<1>8. carried = items
  <2>1. CASE DOMAIN items = {}
    <3>1. Len(t) = rest /\ t[rest] = 0
      BY <1>2, <2>1 DEF ItemsOf
    <3>2. places = {}
      BY <3>1
    <3>. HIDE DEF places
    <3>. QED
      BY <1>3, <2>1, <3>2
  <2>2. CASE DOMAIN items # {}
    <3>1. PICK n \in Nat \ {0} :
            /\ Len(t) = rest - 1 + 2 * n
            /\ \A j \in 1 .. n : /\ t[rest - 2 + 2 * j] \in DOMAIN items
                                 /\ t[rest - 1 + 2 * j] = items[t[rest - 2 + 2 * j]]
            /\ \A k \in DOMAIN items : \E j \in 1 .. n : t[rest - 2 + 2 * j] = k
      BY <1>2, <2>2, Zenon DEF ItemsOf
    <3>2. t[rest] \in Items /\ rest <= Len(t)
      <4>1. 1 \in 1 .. n /\ rest - 2 + 2 * 1 = rest
        OBVIOUS
      <4>2. t[rest - 2 + 2 * 1] \in Items
        BY <1>3, <3>1, <4>1
      <4>3. rest <= Len(t)
        BY <3>1
      <4>. QED
        BY <4>1, <4>2, <4>3
    <3>3. t[rest] # 0
      BY <1>4, <3>2
    <3>4. places = {p \in rest .. Len(t) - 1 : (p - rest) % 2 = 0}
      BY <1>5, <3>2, <3>3
    <3>. HIDE DEF places
    <3>5. ASSUME NEW p \in places
          PROVE  t[p] \in DOMAIN items /\ t[1 + p] = items[t[p]]
      <4>1. PICK j \in 1 .. n : p = rest - 2 + 2 * j
        <5>1. p \in Nat /\ rest <= p /\ p <= Len(t) - 1 /\ (p - rest) % 2 = 0
          BY <1>5, <3>4
        <5>2. PICK j \in Nat : p - rest = 2 * j
          <6>1. p - rest = 2 * ((p - rest) \div 2) /\ (p - rest) \div 2 \in Nat
            BY <5>1
          <6>. QED
            BY <6>1
        <5>3. j + 1 \in 1 .. n /\ p = rest - 2 + 2 * (j + 1)
          BY <3>1, <5>1, <5>2
        <5>. QED
          BY <5>3
      <4>2. 1 + p = rest - 1 + 2 * j
        BY <4>1
      <4>. QED
        BY <3>1, <4>1, <4>2
    <3>6. ASSUME NEW k \in DOMAIN items
          PROVE  \E p \in places : t[p] = k
      <4>1. PICK j \in 1 .. n : t[rest - 2 + 2 * j] = k
        BY <3>1
      <4>2. PICK p \in Nat : p = rest - 2 + 2 * j
        OBVIOUS
      <4>3. p \in rest .. Len(t) - 1 /\ p - rest = 2 * (j - 1)
        BY <3>1, <4>2
      <4>4. (p - rest) % 2 = 0
        BY <4>3
      <4>. QED
        BY <3>4, <4>1, <4>2, <4>3, <4>4
    <3>7. {t[p] : p \in places} = DOMAIN items
      BY <3>5, <3>6
    <3>8. \A k \in DOMAIN items : t[1 + CHOOSE p \in places : t[p] = k] = items[k]
      BY <3>5, <3>6
    <3>9. carried = [k \in DOMAIN items |-> items[k]]
      BY <3>7, <3>8
    <3>. QED
      BY <1>3, <3>9
  <2>. QED
    BY <2>1, <2>2
<1>9. {t[3 + 2 * k] : k \in {e \in 1 .. M : t[4 + 2 * e] <= 0}} = sv.dead
  BY <1>2 DEF MonstersOf
<1>10. {t[3 + 2 * k] : k \in {e \in 1 .. M : t[4 + 2 * e] > 0}} = alive
  BY <1>2 DEF MonstersOf
<1>11. Loaded(s, t) =
         [s EXCEPT !.stage = t[1],
                   !.loaded = [pos |-> t[2], hp |-> t[3], skill |-> t[4], items |-> carried],
                   !.dead = {t[3 + 2 * k] : k \in {e \in entries : t[4 + 2 * e] <= 0}},
                   !.monsters = [m \in {t[3 + 2 * k] : k \in {e \in entries : t[4 + 2 * e] > 0}}
                                   |-> FALSE]]
  <2>. DEFINE After(r, some, read) ==
                [s EXCEPT !.stage = t[1],
                          !.loaded = [pos |-> t[2], hp |-> t[3], skill |-> t[4], items |-> read],
                          !.dead = {t[3 + 2 * k] : k \in {e \in some : t[4 + 2 * e] <= 0}},
                          !.monsters = [m \in {t[3 + 2 * k] : k \in {e \in some : t[4 + 2 * e] > 0}}
                                          |-> FALSE]]
              At(r) == IF r > Len(t) \/ t[r] = 0 THEN {}
                       ELSE {n \in r .. Len(t) - 1 : (n - r) % 2 = 0}
              Read(ps) == [k \in {t[n] : n \in ps} |-> t[1 + CHOOSE n \in ps : t[n] = k]]
              r == 5 + 2 * Cardinality(entries)
  <2>1. Loaded(s, t) = After(r, entries, Read(At(r)))
    BY Zenon DEF Loaded
  <2>2. r = rest
    BY <1>7
  <2>3. Read(At(rest)) = carried
    OBVIOUS
  <2>. HIDE DEF rest, entries, carried, r, At, Read
  <2>4. Loaded(s, t) = After(rest, entries, carried)
    BY <2>1, <2>2, <2>3
  <2>. QED
    BY <2>4
<1>. HIDE DEF carried, entries
<1>12. Loaded(s, t) = Restored(s, sv, alive)
  BY <1>1, <1>3, <1>6, <1>8, <1>9, <1>10, <1>11 DEF Restored
<1>. QED
  BY <1>12 DEF t, alive

-----------------------------------------------------------------------------
(* The invariant.                                                          *)

\* A scene with its player: without a stage there is neither a player nor a
\* request; a game that was continued has what it was continued from; a third
\* change of stage ends the process; who is asked for its health is there.
Well(s, p, cont, gone) ==
  /\ s \in Scenes
  /\ IF s.stage = 0 THEN p = None /\ s.pending = 0 ELSE p \in Player
  /\ cont /\ s.stage # 0 => s.loaded \in Player
  /\ ~gone => s.changes <= 2
  /\ Pointers(s) \subseteq DOMAIN s.field

\* The file is a save of the stage that is played, written by SaveCurData.
Kept ==
  file # None => /\ saved \in Saves
                 /\ \E living \in Healths : file = FileOf(saved, living)
                 /\ scene # None => scene.stage = saved.stage

IInv ==
  /\ scene # None => Well(scene, player, isContinue, crashed)
  /\ setting => scene = None /\ player = None
  /\ setting \in BOOLEAN /\ isContinue \in BOOLEAN /\ crashed \in BOOLEAN
  /\ killed \subseteq Monsters
  /\ Kept

\* What the constants are.
LEMMA Numbers ==
  /\ LastStage \in Nat \ {0} /\ MaxHp \in Nat \ {0} /\ MaxMonsterHp \in Nat \ {0}
  /\ MaxSkill \in Nat
  /\ \A n \in StageNums : n \in 1 .. LastStage /\ StageMonsters[n] \subseteq Monsters
BY StagesAssumption DEF StageNums, Monsters

\* A new scene and a new player.
LEMMA NewOnes == NewScene \in Scenes /\ NewScene.changes = 0 /\ Created \in Player
<1>. DEFINE empty == [k \in {} |-> 0]
<1>1. empty \in [{} -> BOOLEAN] /\ empty \in [{} -> 1 .. MaxMonsterHp] /\ empty \in [{} -> {1}]
  OBVIOUS
<1>2. /\ empty \in UNION {[ms -> BOOLEAN] : ms \in SUBSET Monsters}
      /\ empty \in UNION {[ms -> 1 .. MaxMonsterHp] : ms \in SUBSET Monsters}
      /\ empty \in UNION {[ks -> {1}] : ks \in SUBSET Items}
  BY <1>1
<1>3. Nothing = empty
  BY DEF Nothing
<1>. HIDE DEF empty
<1>4. NewScene \in Scenes /\ NewScene.changes = 0
  BY <1>2, <1>3, Numbers DEF NewScene, Scenes, Healths
<1>5. Created \in Player
  BY <1>2, <1>3, Numbers DEF Created, Player, SavePoint
<1>. QED
  BY <1>4, <1>5

\* SetStage: who is registered is there, the save is gone.
LEMMA StagedWell ==
  ASSUME NEW s \in Scenes, s.changes <= 2, NEW n \in StageNums
  PROVE  /\ Staged(s, n) \in Scenes
         /\ Staged(s, n).stage = n /\ Staged(s, n).pending = 0
         /\ Staged(s, n).changes = s.changes + 1 /\ Staged(s, n).loaded = s.loaded
         /\ DOMAIN Staged(s, n).field = StageMonsters[n] \ s.dead
         /\ Pointers(Staged(s, n)) \subseteq DOMAIN Staged(s, n).field
<1>. DEFINE come == StageMonsters[n] \ s.dead
            registered == [m \in come |-> TRUE]
            health == [m \in come |-> MaxMonsterHp]
<1>1. come \subseteq Monsters /\ n \in 1 .. LastStage
  BY Numbers
<1>2. /\ registered \in UNION {[ms -> BOOLEAN] : ms \in SUBSET Monsters}
      /\ health \in Healths
  <2>1. registered \in [come -> BOOLEAN] /\ health \in [come -> 1 .. MaxMonsterHp]
    BY Numbers
  <2>. QED
    BY <1>1, <2>1 DEF Healths
<1>3. DOMAIN registered = come /\ DOMAIN health = come
  OBVIOUS
<1>4. Staged(s, n) = [s EXCEPT !.stage = n, !.pending = 0, !.changes = @ + 1,
                               !.monsters = registered, !.field = health]
  BY DEF Staged
<1>. HIDE DEF registered, health, come
<1>5. /\ Staged(s, n).stage = n /\ Staged(s, n).pending = 0
      /\ Staged(s, n).changes = s.changes + 1 /\ Staged(s, n).loaded = s.loaded
      /\ Staged(s, n).monsters = registered /\ Staged(s, n).field = health
  BY <1>4 DEF Scenes
<1>6. Staged(s, n) \in Scenes
  <2>1. Staged(s, n) = [stage |-> n, dead |-> s.dead, monsters |-> registered, field |-> health,
                        loaded |-> s.loaded, pending |-> 0, changes |-> s.changes + 1]
    BY <1>4 DEF Scenes
  <2>2. /\ n \in 0 .. LastStage /\ 0 \in 0 .. LastStage /\ s.changes + 1 \in 0 .. 3
        /\ s.dead \in SUBSET Monsters /\ s.loaded \in Player \cup {None}
    BY <1>1, Numbers DEF Scenes
  <2>. QED
    BY <1>2, <2>1, <2>2 DEF Scenes
<1>. QED
  BY <1>3, <1>5, <1>6 DEF Pointers, come

\* The monsters of a new stage are unhurt.
LEMMA StagedField ==
  ASSUME NEW s \in Scenes, NEW n
  PROVE  Staged(s, n).field = [m \in StageMonsters[n] \ s.dead |-> MaxMonsterHp]
BY DEF Staged, Scenes

\* SetStage makes the scene and the player well, whoever calls it.
LEMMA SetStageWell ==
  ASSUME NEW s \in Scenes, s.changes <= 2, NEW n \in StageNums, NEW p \in Player,
         NEW cont \in BOOLEAN, cont => s.loaded \in Player, SetStage(s, n, p, cont)
  PROVE  /\ Well(scene', player', cont, crashed') /\ scene' = Staged(s, n)
         /\ ~setting' /\ setting' \in BOOLEAN /\ crashed' \in BOOLEAN /\ file' = None
         /\ cont => player' = s.loaded
<1>1. /\ scene' = Staged(s, n) /\ setting' = FALSE /\ file' = None
      /\ player' = Placed(p, Staged(s, n), cont)
      /\ crashed' = (s.changes >= 2)
  BY Zenon DEF SetStage
<1>2. /\ scene' \in Scenes /\ scene'.stage = n /\ scene'.loaded = s.loaded
      /\ scene'.changes = s.changes + 1 /\ Pointers(scene') \subseteq DOMAIN scene'.field
  BY <1>1, StagedWell
<1>3. n \in 1 .. LastStage /\ s.changes \in 0 .. 3
  BY Numbers DEF Scenes
<1>4. player' \in Player /\ (cont => player' = s.loaded)
  <2>1. CASE cont
    BY <1>1, <2>1, StagedWell DEF Placed
  <2>2. CASE ~cont
    <3>1. player' = [p EXCEPT !.pos = Start(n)]
      BY <1>1, <2>2, StagedWell DEF Placed
    <3>2. Start(n) \in 0 .. SavePoint(LastStage)
      BY <1>3, Numbers DEF Start, SavePoint
    <3>. QED
      BY <2>2, <3>1, <3>2 DEF Player
  <2>. QED
    BY <2>1, <2>2
<1>5. crashed' \in BOOLEAN /\ (~crashed' => scene'.changes <= 2)
  <2>1. CASE s.changes >= 2
    <3>1. crashed' = TRUE
      BY <1>1, <2>1
    <3>. QED
      BY <3>1
  <2>2. CASE ~(s.changes >= 2)
    <3>1. (s.changes >= 2) = FALSE
      BY <2>2
    <3>2. crashed' = FALSE
      BY <1>1, <3>1, Zenon
    <3>3. scene'.changes <= 2
      BY <1>2, <1>3, <2>2
    <3>. QED
      BY <3>2, <3>3
  <2>. QED
    BY <2>1, <2>2
<1>6. Well(scene', player', cont, crashed')
  BY <1>2, <1>3, <1>4, <1>5 DEF Well
<1>. QED
  BY <1>1, <1>4, <1>5, <1>6

\* LoadGameData of the file there is.
LEMMA RestoredWell ==
  ASSUME IInv, file # None, NEW s \in Scenes
  PROVE  \E alive \in SUBSET Monsters :
           /\ Loaded(s, file) = Restored(s, saved, alive)
           /\ Loaded(s, file) \in Scenes /\ saved \in Saves
           /\ Loaded(s, file).stage = saved.stage /\ Loaded(s, file).loaded = saved.player
           /\ Loaded(s, file).dead = saved.dead /\ Loaded(s, file).changes = s.changes
           /\ Loaded(s, file).pending = s.pending /\ Loaded(s, file).field = s.field
           /\ Pointers(Loaded(s, file)) = {}
<1>1. PICK living \in Healths : file = FileOf(saved, living)
  BY DEF IInv, Kept
<1>2. saved \in Saves
  BY DEF IInv, Kept
<1>. DEFINE alive == DOMAIN living
            flags == [m \in alive |-> FALSE]
<1>3. alive \in SUBSET Monsters
  BY DEF Healths
<1>4. Loaded(s, file) = Restored(s, saved, alive)
  BY <1>1, <1>2, LoadedBack
<1>5. flags \in UNION {[ms -> BOOLEAN] : ms \in SUBSET Monsters}
  <2>1. flags \in [alive -> BOOLEAN]
    OBVIOUS
  <2>. QED
    BY <1>3, <2>1
<1>6. {m \in DOMAIN flags : flags[m]} = {}
  OBVIOUS
<1>7. Restored(s, saved, alive)
        = [s EXCEPT !.stage = saved.stage, !.loaded = saved.player, !.dead = saved.dead,
                    !.monsters = flags]
  BY DEF Restored
<1>. HIDE DEF alive, flags
<1>8. /\ Loaded(s, file).stage = saved.stage /\ Loaded(s, file).loaded = saved.player
      /\ Loaded(s, file).dead = saved.dead /\ Loaded(s, file).changes = s.changes
      /\ Loaded(s, file).pending = s.pending /\ Loaded(s, file).field = s.field
      /\ Loaded(s, file).monsters = flags
  BY <1>4, <1>7 DEF Scenes
<1>9. Loaded(s, file) \in Scenes
  <2>1. Restored(s, saved, alive)
          = [stage |-> saved.stage, dead |-> saved.dead, monsters |-> flags, field |-> s.field,
             loaded |-> saved.player, pending |-> s.pending, changes |-> s.changes]
    BY <1>7 DEF Scenes
  <2>2. /\ saved.stage \in 0 .. LastStage /\ saved.dead \in SUBSET Monsters
        /\ saved.player \in Player \cup {None}
    BY <1>2, Numbers DEF Saves, StageNums
  <2>3. s.field \in Healths /\ s.pending \in 0 .. LastStage /\ s.changes \in 0 .. 3
    BY DEF Scenes
  <2>. QED
    BY <1>4, <1>5, <2>1, <2>2, <2>3 DEF Scenes
<1>10. Pointers(Loaded(s, file)) = {}
  BY <1>6, <1>8 DEF Pointers
<1>. QED
  BY <1>2, <1>3, <1>4, <1>8, <1>9, <1>10

-----------------------------------------------------------------------------
(* The invariant is kept.                                                  *)

\* The game begins in its first stage.
LEMMA InitIInv == Init => IInv
<1>. SUFFICES ASSUME Init
              PROVE  IInv
  OBVIOUS
<1>1. 1 \in StageNums /\ 1 \in 1 .. LastStage
  BY Numbers DEF StageNums
<1>2. /\ scene \in Scenes /\ scene.stage = 1 /\ scene.changes = NewScene.changes + 1
      /\ Pointers(scene) \subseteq DOMAIN scene.field
  BY <1>1, NewOnes, StagedWell DEF Init
<1>3. player = [Created EXCEPT !.pos = Start(1)]
  BY <1>2 DEF Init, Placed
<1>4. player \in Player
  <2>1. Start(1) \in 0 .. SavePoint(LastStage)
    BY Numbers DEF Start, SavePoint
  <2>. QED
    BY <1>3, <2>1, NewOnes DEF Player
<1>5. /\ setting = FALSE /\ isContinue = FALSE /\ file = None /\ crashed = FALSE
      /\ killed = {}
  BY DEF Init
<1>6. scene.changes <= 2 /\ scene.stage # 0
  BY <1>2, NewOnes
<1>7. Well(scene, player, isContinue, crashed)
  BY <1>2, <1>4, <1>5, <1>6 DEF Well
<1>. QED
  BY <1>5, <1>7 DEF IInv, Kept

\* The invariant after SetStage, when isContinue is cont and killed well.
LEMMA AfterSetStage ==
  ASSUME NEW s \in Scenes, s.changes <= 2, NEW n \in StageNums, NEW p \in Player,
         NEW cont \in BOOLEAN, cont => s.loaded \in Player, SetStage(s, n, p, cont),
         isContinue' = cont, killed' \subseteq Monsters
  PROVE  IInv'
<1>1. /\ Well(scene', player', cont, crashed')
      /\ ~setting' /\ setting' \in BOOLEAN /\ crashed' \in BOOLEAN /\ file' = None
  BY SetStageWell
<1>. QED
  BY <1>1 DEF IInv, Kept

\* A new game.
LEMMA NewGameStep ==
  ASSUME IInv, NewGame, isContinue' = FALSE
  PROVE  IInv'
<1>1. SetStage(NewScene, 1, Created, FALSE) /\ killed' = {}
  BY Zenon DEF NewGame
<1>2. 1 \in StageNums
  BY Numbers DEF StageNums
<1>3. NewScene \in Scenes /\ NewScene.changes <= 2 /\ Created \in Player
  BY NewOnes
<1>. QED
  BY <1>1, <1>2, <1>3, AfterSetStage

\* What SavedGame calls SetStage with.
LEMMA SavedGameIs ==
  ASSUME IInv, SavedGame, file # None
  PROVE  \E s \in Scenes :
           /\ SetStage(s, saved.stage, Created, TRUE)
           /\ s.changes = 0 /\ s.loaded = saved.player /\ s.dead = saved.dead
           /\ saved \in Saves /\ killed' = saved.killed
<1>1. /\ SetStage(Loaded(NewScene, file), Loaded(NewScene, file).stage, Created, TRUE)
      /\ killed' = saved.killed
  BY Zenon DEF SavedGame
<1>2. /\ Loaded(NewScene, file) \in Scenes /\ saved \in Saves
      /\ Loaded(NewScene, file).stage = saved.stage
      /\ Loaded(NewScene, file).loaded = saved.player
      /\ Loaded(NewScene, file).dead = saved.dead
      /\ Loaded(NewScene, file).changes = NewScene.changes
  BY NewOnes, RestoredWell
<1>. QED
  BY <1>1, <1>2, NewOnes

\* A game that goes on from its save.
LEMMA SavedGameStep ==
  ASSUME IInv, SavedGame, file # None, isContinue' = TRUE
  PROVE  IInv'
<1>1. PICK s \in Scenes :
        /\ SetStage(s, saved.stage, Created, TRUE)
        /\ s.changes = 0 /\ s.loaded = saved.player
        /\ saved \in Saves /\ killed' = saved.killed
  BY SavedGameIs
<1>2. saved.stage \in StageNums /\ saved.player \in Player /\ saved.killed \subseteq Monsters
  BY <1>1 DEF Saves
<1>3. s.changes <= 2 /\ s.loaded \in Player /\ killed' \subseteq Monsters
  BY <1>1, <1>2
<1>. QED
  BY <1>1, <1>2, <1>3, NewOnes, AfterSetStage

\* In the title and the menus.
LEMMA TitleStep ==
  ASSUME IInv,
         OnClickBegin \/ OnClickContinue \/ OnClickGoTitle \/ OnClickSetting \/ BackToGame
  PROVE  IInv'
<1>1. CASE OnClickBegin
  BY <1>1, NewGameStep DEF OnClickBegin
<1>2. CASE OnClickContinue
  BY <1>2, SavedGameStep DEF OnClickContinue
<1>3. CASE OnClickGoTitle \/ OnClickSetting
  <2>1. /\ scene' = None /\ player' = None /\ setting' \in BOOLEAN
        /\ UNCHANGED <<isContinue, file, crashed, history>>
    BY <1>3 DEF OnClickGoTitle, OnClickSetting, Leave
  <2>. QED
    BY <2>1 DEF IInv, Kept, history
<1>4. CASE BackToGame
  <2>1. setting /\ UNCHANGED isContinue
    BY <1>4 DEF BackToGame
  <2>2. CASE ~isContinue /\ NewGame
    BY <2>1, <2>2, NewGameStep DEF IInv
  <2>3. CASE isContinue /\ file # None /\ SavedGame
    BY <2>1, <2>3, SavedGameStep DEF IInv
  <2>4. CASE /\ isContinue /\ file = None
             /\ scene' = [NewScene EXCEPT !.stage = 0] /\ setting' = FALSE
             /\ UNCHANGED <<player, file, crashed, history>>
    <3>1. player' = None
      BY <2>1, <2>4 DEF IInv
    <3>2. /\ scene' \in Scenes /\ scene'.stage = 0 /\ scene'.pending = 0 /\ scene'.changes = 0
          /\ Pointers(scene') \subseteq DOMAIN scene'.field
      <4>1. /\ scene'.stage = 0 /\ scene'.pending = 0 /\ scene'.changes = 0
            /\ scene'.monsters = Nothing /\ scene'.field = Nothing
        BY <2>4 DEF NewScene
      <4>2. scene' \in Scenes
        BY <2>4, NewOnes, Numbers DEF Scenes
      <4>3. DOMAIN Nothing = {}
        BY DEF Nothing
      <4>. QED
        BY <4>1, <4>2, <4>3 DEF Pointers
    <3>3. Well(scene', player', isContinue', crashed')
      BY <3>1, <3>2 DEF Well
    <3>. QED
      BY <2>1, <2>4, <3>3 DEF IInv, Kept, history
  <2>. QED
    BY <1>4, <2>2, <2>3, <2>4 DEF BackToGame
<1>. QED
  BY <1>1, <1>2, <1>3, <1>4

\* A scene in the game has a stage, a player and what belongs to them.
LEMMA GameIs ==
  ASSUME IInv, scene # None
  PROVE  /\ Well(scene, player, isContinue, crashed) /\ scene \in Scenes /\ ~setting
         /\ player # None => scene.stage \in StageNums /\ player \in Player
         /\ scene.pending # 0 => scene.stage \in StageNums /\ player \in Player
<1>1. Well(scene, player, isContinue, crashed) /\ ~setting
  BY DEF IInv
<1>2. scene \in Scenes /\ scene.stage \in 0 .. LastStage
  BY <1>1 DEF Well, Scenes
<1>3. scene.stage # 0 => scene.stage \in StageNums /\ player \in Player
  BY <1>1, <1>2, Numbers DEF Well, StageNums
<1>. QED
  BY <1>1, <1>2, <1>3 DEF Well

\* A frame that leaves the stage, the file and the menus alone keeps the
\* invariant if it keeps the scene and the player well.
LEMMA FrameKeeps ==
  ASSUME IInv, scene # None, Well(scene', player', isContinue, crashed),
         scene'.stage = scene.stage, killed' \subseteq Monsters,
         UNCHANGED <<setting, isContinue, file, crashed, saved>>
  PROVE  IInv'
BY GameIs DEF IInv, Kept

\* A monster dies.
LEMMA KillStep ==
  ASSUME IInv, NEW m \in Monsters, Kill(m)
  PROVE  IInv'
<1>. DEFINE flags == [n \in DOMAIN scene.monsters \ {m} |-> scene.monsters[n]]
            healths == [n \in DOMAIN scene.field \ {m} |-> scene.field[n]]
            dead == scene.dead \cup {m}
<1>1. /\ scene # None
      /\ scene' = [scene EXCEPT !.dead = dead, !.monsters = flags, !.field = healths]
      /\ killed' = killed \cup {m}
      /\ UNCHANGED <<player, setting, isContinue, file, crashed, saved>>
  BY DEF Kill
<1>2. Well(scene, player, isContinue, crashed) /\ scene \in Scenes
  BY <1>1, GameIs
<1>3. /\ scene.monsters \in [DOMAIN scene.monsters -> BOOLEAN]
      /\ DOMAIN scene.monsters \subseteq Monsters
      /\ scene.field \in [DOMAIN scene.field -> 1 .. MaxMonsterHp]
      /\ DOMAIN scene.field \subseteq Monsters
      /\ scene.dead \subseteq Monsters
  BY <1>2 DEF Scenes, Healths
<1>4. flags \in UNION {[ms -> BOOLEAN] : ms \in SUBSET Monsters}
  <2>1. flags \in [DOMAIN scene.monsters \ {m} -> BOOLEAN]
    BY <1>3
  <2>2. DOMAIN scene.monsters \ {m} \in SUBSET Monsters
    BY <1>3
  <2>. QED
    BY <2>1, <2>2
<1>5. healths \in Healths
  <2>1. healths \in [DOMAIN scene.field \ {m} -> 1 .. MaxMonsterHp]
    BY <1>3
  <2>2. DOMAIN scene.field \ {m} \in SUBSET Monsters
    BY <1>3
  <2>. QED
    BY <2>1, <2>2 DEF Healths
<1>6. {n \in DOMAIN flags : flags[n]} \subseteq DOMAIN healths
  BY <1>2 DEF Well, Pointers
<1>7. dead \in SUBSET Monsters
  BY <1>3
<1>. HIDE DEF flags, healths, dead
<1>8. /\ scene'.stage = scene.stage /\ scene'.loaded = scene.loaded
      /\ scene'.pending = scene.pending /\ scene'.changes = scene.changes
      /\ scene'.monsters = flags /\ scene'.field = healths
  BY <1>1, <1>2 DEF Scenes
<1>9. scene' \in Scenes
  BY <1>1, <1>2, <1>4, <1>5, <1>7 DEF Scenes
<1>10. Well(scene', player', isContinue, crashed)
  BY <1>1, <1>2, <1>6, <1>8, <1>9 DEF Well, Pointers
<1>11. killed' \subseteq Monsters
  BY <1>1 DEF IInv
<1>. QED
  BY <1>1, <1>8, <1>10, <1>11, FrameKeeps

\* A monster is hurt.
LEMMA HurtMonsterStep ==
  ASSUME IInv, NEW m \in Monsters, HurtMonster(m)
  PROVE  IInv'
<1>. DEFINE healths == [scene.field EXCEPT ![m] = @ - 1]
<1>1. /\ scene # None /\ m \in DOMAIN scene.field /\ scene.field[m] > 1
      /\ scene' = [scene EXCEPT !.field = healths]
      /\ UNCHANGED <<player, setting, isContinue, file, crashed, history>>
  BY DEF HurtMonster, Playing, InGame
<1>2. Well(scene, player, isContinue, crashed) /\ scene \in Scenes
  BY <1>1, GameIs
<1>3. /\ scene.field \in [DOMAIN scene.field -> 1 .. MaxMonsterHp]
      /\ DOMAIN scene.field \in SUBSET Monsters
  BY <1>2 DEF Scenes, Healths
<1>4. healths \in [DOMAIN scene.field -> 1 .. MaxMonsterHp]
  BY <1>1, <1>3, Numbers
<1>5. healths \in Healths /\ DOMAIN healths = DOMAIN scene.field
  BY <1>3, <1>4 DEF Healths
<1>. HIDE DEF healths
<1>6. /\ scene'.stage = scene.stage /\ scene'.loaded = scene.loaded
      /\ scene'.pending = scene.pending /\ scene'.changes = scene.changes
      /\ scene'.monsters = scene.monsters /\ scene'.field = healths
  BY <1>1, <1>2 DEF Scenes
<1>7. scene' \in Scenes
  BY <1>1, <1>2, <1>5 DEF Scenes
<1>8. Well(scene', player', isContinue, crashed)
  BY <1>1, <1>2, <1>5, <1>6, <1>7 DEF Well, Pointers
<1>9. killed' \subseteq Monsters
  BY <1>1 DEF IInv, history
<1>. QED
  BY <1>1, <1>6, <1>8, <1>9, FrameKeeps DEF history

\* What changes only the player: it is hurt, gains skill points or an item.
LEMMA PlayerStep ==
  ASSUME IInv, Hurt \/ GainSkill \/ \E k \in Items : Acquire(k)
  PROVE  IInv'
<1>1. scene # None /\ player # None
  BY DEF Hurt, GainSkill, Acquire, Playing, InGame
<1>2. /\ Well(scene, player, isContinue, crashed)
      /\ scene.stage \in StageNums /\ player \in Player
  BY <1>1, GameIs
<1>3. /\ player.hp \in 0 .. MaxHp /\ player.skill \in 0 .. MaxSkill
      /\ player.items \in [DOMAIN player.items -> {1}] /\ DOMAIN player.items \in SUBSET Items
  BY <1>2 DEF Player
<1>4. ASSUME NEW p \in Player, Play(p)
      PROVE  IInv'
  <2>1. /\ player' = p /\ scene' = scene /\ killed' = killed
        /\ UNCHANGED <<setting, isContinue, file, crashed, saved>>
    BY <1>4 DEF Play, history
  <2>2. Well(scene', player', isContinue, crashed)
    BY <1>2, <1>4, <2>1 DEF Well, StageNums
  <2>3. killed' \subseteq Monsters
    BY <2>1 DEF IInv
  <2>. QED
    BY <1>1, <2>1, <2>2, <2>3, FrameKeeps
<1>5. CASE Hurt
  <2>1. player.hp > 0 /\ Play([player EXCEPT !.hp = @ - 1])
    BY <1>5 DEF Hurt
  <2>2. [player EXCEPT !.hp = @ - 1] \in Player
    BY <1>2, <1>3, <2>1, Numbers DEF Player
  <2>. QED
    BY <1>4, <2>1, <2>2
<1>6. CASE GainSkill
  <2>1. player.skill < MaxSkill /\ Play([player EXCEPT !.skill = @ + 1])
    BY <1>6 DEF GainSkill
  <2>2. [player EXCEPT !.skill = @ + 1] \in Player
    BY <1>2, <1>3, <2>1, Numbers DEF Player
  <2>. QED
    BY <1>4, <2>1, <2>2
<1>7. CASE \E k \in Items : Acquire(k)
  <2>1. PICK k \in Items : Acquire(k)
    BY <1>7
  <2>. DEFINE more == [j \in DOMAIN player.items \cup {k} |-> IF j = k THEN 1 ELSE player.items[j]]
  <2>2. Play([player EXCEPT !.items = more])
    BY <2>1 DEF Acquire
  <2>3. more \in [DOMAIN player.items \cup {k} -> {1}]
    BY <1>3
  <2>4. DOMAIN player.items \cup {k} \in SUBSET Items
    BY <1>3
  <2>5. more \in UNION {[ks -> {1}] : ks \in SUBSET Items}
    BY <2>3, <2>4
  <2>. HIDE DEF more
  <2>6. [player EXCEPT !.items = more] \in Player
    BY <1>2, <2>5 DEF Player
  <2>. QED
    BY <1>4, <2>2, <2>6
<1>. QED
  BY <1>5, <1>6, <1>7

\* A save point is touched: the file is what SaveCurData writes for it.
LEMMA SaveStep ==
  ASSUME IInv, TouchSavePoint
  PROVE  IInv'
<1>. DEFINE p == [player EXCEPT !.pos = SavePoint(scene.stage)]
            living == [m \in Pointers(scene) |-> scene.field[m]]
            sv == [player |-> p, stage |-> scene.stage, dead |-> scene.dead, killed |-> killed,
                   living |-> living]
<1>1. /\ scene # None /\ player # None
      /\ player' = p /\ file' = Written(scene, p) /\ saved' = sv
      /\ UNCHANGED <<scene, setting, isContinue, crashed, killed>>
  BY DEF TouchSavePoint, InGame
<1>2. /\ Well(scene, player, isContinue, crashed) /\ scene \in Scenes /\ ~setting
      /\ scene.stage \in StageNums /\ player \in Player
  BY <1>1, GameIs
<1>3. p \in Player
  <2>1. SavePoint(scene.stage) \in 0 .. SavePoint(LastStage)
    BY <1>2, Numbers DEF SavePoint, StageNums
  <2>. QED
    BY <1>2, <2>1 DEF Player
<1>4. living \in Healths
  <2>1. /\ Pointers(scene) \subseteq DOMAIN scene.field
        /\ scene.field \in [DOMAIN scene.field -> 1 .. MaxMonsterHp]
        /\ DOMAIN scene.field \in SUBSET Monsters
    BY <1>2 DEF Well, Scenes, Healths
  <2>2. living \in [Pointers(scene) -> 1 .. MaxMonsterHp] /\ Pointers(scene) \in SUBSET Monsters
    BY <2>1
  <2>. QED
    BY <2>2 DEF Healths
<1>5. Written(scene, p) = FileOf(sv, living)
  <2>1. sv.player = p /\ sv.stage = scene.stage /\ sv.dead = scene.dead
    OBVIOUS
  <2>2. Written(scene, p)
          = <<scene.stage, p.pos, p.hp, p.skill>> \o Pairs(living)
              \o Pairs([m \in scene.dead |-> 0])
              \o IF DOMAIN p.items = {} THEN <<0>> ELSE Pairs(p.items)
    BY Zenon DEF Written
  <2>. HIDE DEF p, sv, living
  <2>. QED
    BY <2>1, <2>2 DEF FileOf
<1>6. scene.dead \in SUBSET Monsters /\ killed \in SUBSET Monsters
  BY <1>2 DEF Scenes, IInv
<1>. HIDE DEF p, living
<1>7. sv \in Saves /\ sv.stage = scene.stage
  BY <1>2, <1>3, <1>4, <1>6 DEF Saves
<1>. HIDE DEF sv
<1>8. Kept'
  BY <1>1, <1>4, <1>5, <1>7 DEF Kept
<1>9. Well(scene', player', isContinue', crashed')
  BY <1>1, <1>2, <1>3 DEF Well, StageNums
<1>. QED
  BY <1>1, <1>2, <1>8, <1>9 DEF IInv

\* The next stage is requested.
LEMMA RequestStep ==
  ASSUME IInv, TouchNext
  PROVE  IInv'
<1>1. /\ scene # None /\ player # None /\ scene.stage < LastStage
      /\ scene' = [scene EXCEPT !.pending = scene.stage + 1]
      /\ UNCHANGED <<player, setting, isContinue, file, crashed, history>>
  BY DEF TouchNext, Playing, InGame
<1>2. /\ Well(scene, player, isContinue, crashed) /\ scene \in Scenes
      /\ scene.stage \in 1 .. LastStage
  BY <1>1, GameIs DEF StageNums
<1>3. /\ scene'.stage = scene.stage /\ scene'.loaded = scene.loaded
      /\ scene'.changes = scene.changes
      /\ scene'.monsters = scene.monsters /\ scene'.field = scene.field
  BY <1>1, <1>2 DEF Scenes
<1>4. scene' \in Scenes
  <2>1. scene.stage + 1 \in 0 .. LastStage
    BY <1>1, <1>2, Numbers
  <2>. QED
    BY <1>1, <1>2, <2>1 DEF Scenes
<1>5. Well(scene', player', isContinue, crashed)
  BY <1>1, <1>2, <1>3, <1>4 DEF Well, Pointers
<1>6. killed' \subseteq Monsters
  BY <1>1 DEF IInv, history
<1>. QED
  BY <1>1, <1>3, <1>5, <1>6, FrameKeeps DEF history

\* The next Update changes the stage.
LEMMA ChangeStageStep ==
  ASSUME IInv, ~crashed, ChangeStage
  PROVE  IInv'
<1>1. /\ scene # None /\ scene.pending # 0
      /\ SetStage(scene, scene.pending, player, isContinue)
      /\ isContinue' = isContinue /\ killed' = killed
  BY Zenon DEF ChangeStage, history
<1>2. /\ Well(scene, player, isContinue, crashed) /\ scene \in Scenes
      /\ scene.stage \in StageNums /\ player \in Player
  BY <1>1, GameIs
<1>3. scene.changes <= 2 /\ (isContinue => scene.loaded \in Player)
  BY <1>2 DEF Well, StageNums
<1>4. scene.pending \in StageNums
  BY <1>1, <1>2, Numbers DEF Scenes, StageNums
<1>5. isContinue \in BOOLEAN /\ killed' \subseteq Monsters
  BY <1>1 DEF IInv
<1>. QED
  BY <1>1, <1>2, <1>3, <1>4, <1>5, AfterSetStage

\* The player comes back from its death.
LEMMA ReviveStep ==
  ASSUME IInv, Revive
  PROVE  IInv'
<1>1. /\ scene # None /\ player # None
      /\ scene' = IF file # None THEN Loaded(scene, file) ELSE scene
      /\ player' = [pos |-> IF file # None THEN scene'.loaded.pos ELSE 0, hp |-> MaxHp,
                    skill |-> IF player.skill > 5 THEN player.skill - 5 ELSE 0,
                    items |-> IF file # None THEN scene'.loaded.items ELSE player.items]
      /\ UNCHANGED <<setting, isContinue, file, crashed, history>>
  BY DEF Revive, InGame
<1>2. /\ Well(scene, player, isContinue, crashed) /\ scene \in Scenes
      /\ scene.stage \in StageNums /\ player \in Player
  BY <1>1, GameIs
<1>3. /\ scene' \in Scenes /\ scene'.stage = scene.stage /\ scene'.pending = scene.pending
      /\ scene'.changes = scene.changes /\ Pointers(scene') \subseteq DOMAIN scene'.field
      /\ IF file # None THEN scene'.loaded \in Player ELSE scene'.loaded = scene.loaded
  <2>1. CASE file # None
    <3>1. scene' = Loaded(scene, file)
      BY <1>1, <2>1
    <3>2. saved \in Saves /\ saved.stage = scene.stage
      BY <1>1, <2>1 DEF IInv, Kept
    <3>. QED
      BY <1>2, <2>1, <3>1, <3>2, RestoredWell DEF Saves
  <2>2. CASE file = None
    BY <1>1, <1>2, <2>2 DEF Well
  <2>. QED
    BY <2>1, <2>2
<1>. DEFINE hereafter == IF file # None THEN scene'.loaded.pos ELSE 0
            less == IF player.skill > 5 THEN player.skill - 5 ELSE 0
            carried == IF file # None THEN scene'.loaded.items ELSE player.items
<1>4. player' \in Player
  <2>1. hereafter \in 0 .. SavePoint(LastStage)
    BY <1>3, Numbers DEF Player, SavePoint
  <2>2. less \in 0 .. MaxSkill
    BY <1>2, Numbers DEF Player
  <2>3. carried \in UNION {[ks -> {1}] : ks \in SUBSET Items}
    BY <1>2, <1>3 DEF Player
  <2>4. player' = [pos |-> hereafter, hp |-> MaxHp, skill |-> less, items |-> carried]
    BY <1>1
  <2>. HIDE DEF hereafter, less, carried
  <2>. QED
    BY <2>1, <2>2, <2>3, <2>4, Numbers DEF Player
<1>5. Well(scene', player', isContinue, crashed)
  BY <1>2, <1>3, <1>4 DEF Well, StageNums
<1>6. killed' \subseteq Monsters
  BY <1>1 DEF IInv, history
<1>. QED
  BY <1>1, <1>3, <1>5, <1>6, FrameKeeps DEF history

\* The invariant holds of every behaviour.
THEOREM Inductive == Spec => []IInv
<1>1. IInv /\ [Next]_vars => IInv'
  <2>. SUFFICES ASSUME IInv, [Next]_vars
                PROVE  IInv'
    OBVIOUS
  <2>1. CASE Next
    <3>1. CASE OnClickBegin \/ OnClickContinue \/ OnClickGoTitle \/ OnClickSetting \/ BackToGame
      BY <3>1, TitleStep
    <3>2. CASE \E m \in Monsters : Kill(m) \/ HurtMonster(m)
      BY <3>2, KillStep, HurtMonsterStep
    <3>3. CASE Hurt \/ GainSkill \/ \E k \in Items : Acquire(k)
      BY <3>3, PlayerStep
    <3>4. CASE TouchSavePoint
      BY <3>4, SaveStep
    <3>5. CASE TouchNext
      BY <3>5, RequestStep
    <3>6. CASE ChangeStage
      BY <2>1, <3>6, ChangeStageStep DEF Next
    <3>7. CASE Revive
      BY <3>7, ReviveStep
    <3>. QED
      BY <2>1, <3>1, <3>2, <3>3, <3>4, <3>5, <3>6, <3>7 DEF Next
  <2>2. CASE UNCHANGED vars
    BY <2>2 DEF IInv, Kept, Well, Pointers, vars, game, history
  <2>. QED
    BY <2>1, <2>2
<1>. QED
  BY <1>1, InitIInv, PTL DEF Spec

-----------------------------------------------------------------------------
(* The properties.                                                         *)

\* A file there is says what was saved.
LEMMA FileSays ==
  ASSUME IInv, file # None
  PROVE  file \in Seq(Nat) /\ file[1] = saved.stage
<1>1. PICK living \in Healths : file = FileOf(saved, living)
  BY DEF IInv, Kept
<1>2. saved \in Saves
  BY DEF IInv, Kept
<1>. QED
  BY <1>1, <1>2, FileLayout

\* Every variable has its type, however many stages, monsters and items.
THEOREM TypeCorrect == Spec => []TypeOK
<1>1. IInv => TypeOK
  <2>. SUFFICES ASSUME IInv
                PROVE  TypeOK
    OBVIOUS
  <2>1. ASSUME scene # None
        PROVE  /\ IF scene.stage = 0 THEN player = None ELSE player \in Player
               /\ scene.stage \in 0 .. LastStage /\ scene.pending \in 0 .. LastStage
               /\ scene.changes \in 0 .. 3
               /\ scene.dead \cup DOMAIN scene.monsters \cup DOMAIN scene.field \subseteq Monsters
               /\ scene.loaded = None \/ scene.loaded \in Player
               /\ \A m \in DOMAIN scene.field : scene.field[m] \in 1 .. MaxMonsterHp
    <3>1. Well(scene, player, isContinue, crashed) /\ scene \in Scenes
      BY <2>1, GameIs
    <3>. QED
      BY <3>1 DEF Well, Scenes, Healths
  <2>2. file = None \/ file \in Seq(Nat)
    BY FileSays
  <2>. QED
    BY <2>1, <2>2 DEF IInv, TypeOK
<1>. QED
  BY <1>1, Inductive, PTL

\* A save belongs to the stage that is played, with any number of stages: the
\* file goes whenever SetStage enters one, and a player who comes back from its
\* death reads a save of its own stage.
THEOREM SaveKept == Spec => []SaveOfThisStage
<1>1. IInv => SaveOfThisStage
  BY FileSays DEF SaveOfThisStage, IInv, Kept
<1>. QED
  BY <1>1, Inductive, PTL

\* SaveCurData asks only monsters that are in the scene for their health:
\* LoadGameData registers those it reads without a pointer, and SetStage
\* registers anew those that it makes.
THEOREM NoDangling == Spec => []NoDanglingMonster
<1>1. IInv => NoDanglingMonster
  BY DEF NoDanglingMonster, IInv, Well
<1>. QED
  BY <1>1, Inductive, PTL

\* Continue gives back the stage and the player that SaveCurData wrote and the
\* monsters it did not list as dead, unhurt, whatever the file's length: what
\* LoadGameData makes of the numbers is what they were made of.
THEOREM Restores == Spec => ContinueRestores
<1>. DEFINE Given == scene = None /\ scene' # None /\ isContinue' /\ file # None =>
                       /\ player' = saved.player /\ scene'.stage = saved.stage
                       /\ scene'.field = [m \in StageMonsters[saved.stage] \ saved.dead |-> MaxMonsterHp]
<1>1. IInv /\ [Next]_vars => Given
  <2>. SUFFICES ASSUME IInv, [Next]_vars, scene = None, scene' # None, isContinue', file # None
                PROVE  /\ player' = saved.player /\ scene'.stage = saved.stage
                       /\ scene'.field = [m \in StageMonsters[saved.stage] \ saved.dead |-> MaxMonsterHp]
    OBVIOUS
  <2>1. SavedGame
    <3>1. Next
      BY DEF vars, game
    <3>2. CASE OnClickContinue
      BY <3>2 DEF OnClickContinue
    <3>3. CASE BackToGame
      BY <3>3 DEF BackToGame
    <3>. QED
      BY <3>1, <3>2, <3>3
         DEF Next, OnClickBegin, OnClickGoTitle, OnClickSetting, Leave, Kill, HurtMonster, Playing,
             Hurt, GainSkill, Acquire, TouchSavePoint, TouchNext, ChangeStage, Revive, InGame
  <2>2. PICK s \in Scenes :
          /\ SetStage(s, saved.stage, Created, TRUE)
          /\ s.changes = 0 /\ s.loaded = saved.player /\ s.dead = saved.dead
          /\ saved \in Saves
    BY <2>1, SavedGameIs
  <2>3. saved.stage \in StageNums /\ saved.player \in Player /\ s.changes <= 2
    BY <2>2 DEF Saves
  <2>4. scene' = Staged(s, saved.stage) /\ player' = s.loaded
    <3>1. s.loaded \in Player /\ TRUE \in BOOLEAN
      BY <2>2, <2>3
    <3>. QED
      BY <2>2, <2>3, <3>1, NewOnes, SetStageWell
  <2>5. /\ scene'.stage = saved.stage
        /\ scene'.field = [m \in StageMonsters[saved.stage] \ s.dead |-> MaxMonsterHp]
    BY <2>2, <2>3, <2>4, StagedWell, StagedField
  <2>. QED
    BY <2>2, <2>4, <2>5
<1>. QED
  BY <1>1, Inductive, PTL DEF Spec, ContinueRestores
=============================================================================
