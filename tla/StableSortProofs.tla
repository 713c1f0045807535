-------------------------- MODULE StableSortProofs --------------------------
(***************************************************************************)
(* What a stable sort returns, for sequences of every length: a            *)
(* permutation of its input, in order of the key, with equal keys in their *)
(* old order.  The other proofs cite these facts.                          *)
(***************************************************************************)
EXTENDS StableSort, FiniteSetTheorems, TLAPS

\* What the lemmas are about: n integer keys.
KeysOf(key, n) == DOMAIN key = 1 .. n /\ \A i \in 1 .. n : key[i] \in Int

\* A rank is a place in the sequence.
LEMMA RankType ==
  ASSUME NEW n \in Nat, NEW key, KeysOf(key, n), NEW i \in 1 .. n
  PROVE  Rank(key, i) \in 1 .. n
<1> DEFINE before == {j \in DOMAIN key : NoLater(key, j, i)}
<1>1. IsFiniteSet(1 .. n) /\ Cardinality(1 .. n) = n
  BY FS_Interval
<1>2. before \in SUBSET (1 .. n) /\ i \in before
  BY DEF KeysOf, NoLater
<1>3. IsFiniteSet(before) /\ Cardinality(before) =< n
  BY <1>1, <1>2, FS_Subset
<1>4. Cardinality(before) \in Nat /\ Cardinality(before) # 0
  BY <1>2, <1>3, FS_CardinalityType, FS_EmptySet
<1> QED
  BY <1>3, <1>4 DEF Rank

\* An element that sorts before another has the lower rank.
LEMMA RankMonotone ==
  ASSUME NEW n \in Nat, NEW key, KeysOf(key, n),
         NEW i \in 1 .. n, NEW j \in 1 .. n, i # j, NoLater(key, i, j)
  PROVE  Rank(key, i) < Rank(key, j)
<1> DEFINE upto(k) == {l \in DOMAIN key : NoLater(key, l, k)}
<1>1. upto(i) \subseteq upto(j)
  BY DEF KeysOf, NoLater
<1>2. j \in upto(j) /\ j \notin upto(i)
  BY DEF KeysOf, NoLater
<1>3. IsFiniteSet(upto(j))
  <2>1. upto(j) \in SUBSET (1 .. n) /\ IsFiniteSet(1 .. n)
    BY FS_Interval DEF KeysOf
  <2> QED
    BY <2>1, FS_Subset
<1>4. Cardinality(upto(i)) =< Cardinality(upto(j))
      /\ Cardinality(upto(i)) # Cardinality(upto(j))
  BY <1>1, <1>2, <1>3, FS_Subset, Zenon
<1>5. Rank(key, i) \in Nat /\ Rank(key, j) \in Nat
  BY RankType
<1> QED
  BY <1>4, <1>5 DEF Rank

\* Every place is taken, by one element only.
LEMMA RankBijective ==
  ASSUME NEW n \in Nat, NEW key, KeysOf(key, n)
  PROVE  /\ \A i, j \in 1 .. n : Rank(key, i) = Rank(key, j) => i = j
         /\ \A r \in 1 .. n : \E i \in 1 .. n : Rank(key, i) = r
<1> DEFINE rank == [i \in 1 .. n |-> Rank(key, i)]
<1>1. \A i, j \in 1 .. n : Rank(key, i) = Rank(key, j) => i = j
  <2> SUFFICES ASSUME NEW i \in 1 .. n, NEW j \in 1 .. n, i # j
               PROVE  Rank(key, i) # Rank(key, j)
    OBVIOUS
  <2>1. NoLater(key, i, j) \/ NoLater(key, j, i)
    BY DEF KeysOf, NoLater
  <2>2. Rank(key, i) < Rank(key, j) \/ Rank(key, j) < Rank(key, i)
    BY <2>1, RankMonotone
  <2>3. Rank(key, i) \in Nat /\ Rank(key, j) \in Nat
    BY RankType
  <2> QED
    BY <2>2, <2>3
<1>2. rank \in Injection(1 .. n, 1 .. n)
  BY <1>1, RankType DEF Injection, IsInjective
<1>3. rank \in Surjection(1 .. n, 1 .. n)
  BY <1>2, FS_Interval, FS_Injection
<1> QED
  BY <1>1, <1>3 DEF Surjection

\* AtRank inverts Rank.
LEMMA AtRankInverse ==
  ASSUME NEW n \in Nat, NEW key, KeysOf(key, n)
  PROVE  /\ \A r \in 1 .. n : AtRank(key, r) \in 1 .. n /\ Rank(key, AtRank(key, r)) = r
         /\ \A i \in 1 .. n : AtRank(key, Rank(key, i)) = i
<1>1. ASSUME NEW r \in 1 .. n
      PROVE  AtRank(key, r) \in 1 .. n /\ Rank(key, AtRank(key, r)) = r
  <2>1. \E i \in DOMAIN key : Rank(key, i) = r
    <3>1. \E i \in 1 .. n : Rank(key, i) = r
      BY RankBijective
    <3> QED
      BY <3>1 DEF KeysOf
  <2>2. AtRank(key, r) \in DOMAIN key /\ Rank(key, AtRank(key, r)) = r
    BY <2>1, Zenon DEF AtRank
  <2> QED
    BY <2>2 DEF KeysOf
<1>2. ASSUME NEW i \in 1 .. n
      PROVE  AtRank(key, Rank(key, i)) = i
  <2>1. Rank(key, i) \in 1 .. n
    BY RankType
  <2> QED
    BY <1>1, <2>1, RankBijective
<1> QED
  BY <1>1, <1>2

\* The sorted sequence has the type and the length of its input.
THEOREM SortedByType ==
  ASSUME NEW S, NEW s \in Seq(S), NEW key, KeysOf(key, Len(s))
  PROVE  SortedBy(s, key) \in Seq(S) /\ Len(SortedBy(s, key)) = Len(s)
<1> DEFINE n == Len(s)
<1>1. n \in Nat /\ DOMAIN s = 1 .. n
  OBVIOUS
<1>2. \A r \in 1 .. n : s[AtRank(key, r)] \in S
  BY <1>1, AtRankInverse
<1>3. SortedBy(s, key) = [r \in 1 .. n |-> s[AtRank(key, r)]]
  BY <1>1 DEF SortedBy
<1>4. SortedBy(s, key) \in [1 .. n -> S]
  BY <1>2, <1>3
<1> QED
  BY <1>1, <1>4

\* Sorting permutes: every element of the input is at one place of the
\* output, its rank, and the keys of the output ascend.
THEOREM SortedByPermutes ==
  ASSUME NEW S, NEW s \in Seq(S), NEW key, KeysOf(key, Len(s))
  PROVE  /\ \A i \in 1 .. Len(s) : Rank(key, i) \in 1 .. Len(s)
                                   /\ SortedBy(s, key)[Rank(key, i)] = s[i]
         /\ \A r \in 1 .. Len(s) : /\ AtRank(key, r) \in 1 .. Len(s)
                                   /\ Rank(key, AtRank(key, r)) = r
                                   /\ SortedBy(s, key)[r] = s[AtRank(key, r)]
         /\ \A q, r \in 1 .. Len(s) :
              q < r => key[AtRank(key, q)] =< key[AtRank(key, r)]
<1> DEFINE n == Len(s)
<1>1. n \in Nat /\ DOMAIN s = 1 .. n
  OBVIOUS
<1>2. \A r \in 1 .. n : SortedBy(s, key)[r] = s[AtRank(key, r)]
  BY <1>1 DEF SortedBy
<1>3. \A i \in 1 .. n : Rank(key, i) \in 1 .. n
  BY <1>1, RankType
<1>4. ASSUME NEW q \in 1 .. n, NEW r \in 1 .. n, q < r
      PROVE  key[AtRank(key, q)] =< key[AtRank(key, r)]
  <2> DEFINE a == AtRank(key, q)
             b == AtRank(key, r)
  <2>1. a \in 1 .. n /\ b \in 1 .. n /\ Rank(key, a) = q /\ Rank(key, b) = r
    BY <1>1, AtRankInverse
  <2>2. ~NoLater(key, b, a)
    <3> SUFFICES ASSUME NoLater(key, b, a) PROVE FALSE
      OBVIOUS
    <3>1. a # b
      BY <1>4, <2>1
    <3>2. Rank(key, b) < Rank(key, a)
      BY <1>1, <2>1, <3>1, RankMonotone
    <3> QED
      BY <1>4, <2>1, <3>2
  <2>3. key[a] \in Int /\ key[b] \in Int
    BY <2>1 DEF KeysOf
  <2> QED
    BY <2>2, <2>3 DEF NoLater
<1> QED
  BY <1>1, <1>2, <1>3, <1>4, AtRankInverse, ZenonT(40)

\* Sorting neither drops nor adds an element.
LEMMA SortedByMembers ==
  ASSUME NEW S, NEW s \in Seq(S), NEW key, KeysOf(key, Len(s))
  PROVE  /\ DOMAIN SortedBy(s, key) = DOMAIN s
         /\ {SortedBy(s, key)[r] : r \in DOMAIN SortedBy(s, key)} = {s[i] : i \in DOMAIN s}
<1> DEFINE sorted == SortedBy(s, key)
<1>1. DOMAIN sorted = DOMAIN s /\ DOMAIN s = 1 .. Len(s)
  BY DEF SortedBy
<1>2. /\ \A i \in 1 .. Len(s) : Rank(key, i) \in 1 .. Len(s) /\ sorted[Rank(key, i)] = s[i]
      /\ \A r \in 1 .. Len(s) : AtRank(key, r) \in 1 .. Len(s)
                                /\ sorted[r] = s[AtRank(key, r)]
  BY SortedByPermutes
<1> HIDE DEF sorted
<1> QED
  BY <1>1, <1>2 DEF sorted

\* A non-empty set of positions has a first one: it is the element that a
\* stable sort puts first when the positions in the set have the lower key.
LEMMA FirstPosition ==
  ASSUME NEW n \in Nat, NEW P, P \subseteq 1 .. n, P # {}
  PROVE  \E i \in P : \A j \in P : i =< j
<1> DEFINE key == [i \in 1 .. n |-> IF i \in P THEN 0 ELSE 1]
<1>0. PICK p \in P : p \in 1 .. n
  OBVIOUS
<1>1. KeysOf(key, n) /\ 1 \in 1 .. n
  BY <1>0 DEF KeysOf
<1> DEFINE f == AtRank(key, 1)
<1>2. f \in 1 .. n /\ Rank(key, f) = 1
  BY <1>1, AtRankInverse
<1>3. \A j \in 1 .. n : j # f => ~NoLater(key, j, f)
  <2> SUFFICES ASSUME NEW j \in 1 .. n, j # f, NoLater(key, j, f)
               PROVE  FALSE
    OBVIOUS
  <2>1. Rank(key, j) < 1
    BY <1>1, <1>2, RankMonotone
  <2>2. Rank(key, j) \in 1 .. n
    BY <1>1, RankType
  <2> QED
    BY <2>1, <2>2
<1>5. f \in P
  BY <1>0, <1>2, <1>3 DEF NoLater
<1>6. \A j \in P : f =< j
  BY <1>2, <1>3, <1>5 DEF NoLater
<1> QED
  BY <1>5, <1>6

-----------------------------------------------------------------------------
(* Filtering. *)

\* The places of finitely many positions are the numbers from 1, each given
\* once.
LEMMA PlacesCounted ==
  ASSUME NEW P, P \subseteq Nat, IsFiniteSet(P)
  PROVE  /\ Cardinality(P) \in Nat
         /\ \A i \in P : PlaceIn(P, i) \in 1 .. Cardinality(P)
         /\ \A i, j \in P : PlaceIn(P, i) = PlaceIn(P, j) => i = j
         /\ \A k \in 1 .. Cardinality(P) : Nth(P, k) \in P /\ PlaceIn(P, Nth(P, k)) = k
         /\ \A i \in P : Nth(P, PlaceIn(P, i)) = i
<1> DEFINE m == Cardinality(P)
           upto(i) == {j \in P : j =< i}
           place == [i \in P |-> PlaceIn(P, i)]
<1>1. m \in Nat
  BY FS_CardinalityType
<1>2. \A i : PlaceIn(P, i) = Cardinality(upto(i))
  BY DEF PlaceIn
<1>3. \A i : /\ upto(i) \subseteq P /\ IsFiniteSet(upto(i))
             /\ Cardinality(upto(i)) \in Nat /\ Cardinality(upto(i)) =< m
  BY <1>1, FS_Subset, FS_CardinalityType
<1>4. \A i \in P : PlaceIn(P, i) \in 1 .. m
  <2> SUFFICES ASSUME NEW i \in P
               PROVE  Cardinality(upto(i)) # 0
    <3> HIDE DEF upto, m
    <3> QED
      BY <1>1, <1>2, <1>3
  <2>1. i \in upto(i)
    OBVIOUS
  <2> QED
    BY <1>3, <2>1, FS_EmptySet
<1>5. ASSUME NEW i \in P, NEW j \in P, i < j
      PROVE  PlaceIn(P, i) # PlaceIn(P, j)
  <2>1. upto(i) \subseteq upto(j) /\ j \in upto(j) /\ j \notin upto(i)
    <3>1. i \in Nat /\ j \in Nat /\ \A k \in P : k \in Nat
      OBVIOUS
    <3>2. \A k \in upto(i) : k \in upto(j)
      BY <1>5, <3>1
    <3>3. j \in upto(j) /\ j \notin upto(i)
      BY <1>5, <3>1
    <3> QED
      BY <3>2, <3>3
  <2>2. Cardinality(upto(i)) # Cardinality(upto(j))
    BY <1>3, <2>1, FS_Subset, Zenon
  <2> QED
    BY <1>2, <2>2
<1>6. \A i, j \in P : PlaceIn(P, i) = PlaceIn(P, j) => i = j
  BY <1>5
<1>7. place \in Injection(P, 1 .. m)
  BY <1>4, <1>6 DEF Injection, IsInjective
<1>8. place \in Surjection(P, 1 .. m)
  <2>1. IsFiniteSet(1 .. m) /\ Cardinality(1 .. m) = m
    BY <1>1, FS_Interval
  <2> QED
    BY <1>7, <2>1, FS_Injection
<1>9. \A k \in 1 .. m : \E i \in P : PlaceIn(P, i) = k
  BY <1>8 DEF Surjection
<1>10. \A k \in 1 .. m : Nth(P, k) \in P /\ PlaceIn(P, Nth(P, k)) = k
  BY <1>9, Zenon DEF Nth
<1>11. \A i \in P : Nth(P, PlaceIn(P, i)) = i
  BY <1>4, <1>6, <1>10
<1> QED
  BY <1>1, <1>4, <1>6, <1>10, <1>11

\* Filtering keeps the elements at the positions, each once.
LEMMA PickedAre ==
  ASSUME NEW S, NEW s \in Seq(S), NEW P, P \subseteq DOMAIN s
  PROVE  /\ IsFiniteSet(P) /\ Cardinality(P) \in Nat
         /\ Picked(s, P) \in Seq(S) /\ Len(Picked(s, P)) = Cardinality(P)
         /\ \A k \in 1 .. Cardinality(P) : Nth(P, k) \in P /\ Picked(s, P)[k] = s[Nth(P, k)]
         /\ \A k, l \in 1 .. Cardinality(P) : Nth(P, k) = Nth(P, l) => k = l
         /\ \A i \in P : \E k \in 1 .. Cardinality(P) : Nth(P, k) = i
<1> DEFINE m == Cardinality(P)
           t == Picked(s, P)
<1>1. DOMAIN s = 1 .. Len(s) /\ Len(s) \in Nat /\ \A i \in 1 .. Len(s) : s[i] \in S
  OBVIOUS
<1>2. P \subseteq Nat /\ IsFiniteSet(P)
  <2>1. IsFiniteSet(1 .. Len(s))
    BY <1>1, FS_Interval
  <2>2. P \subseteq 1 .. Len(s) /\ 1 .. Len(s) \subseteq Nat
    BY <1>1
  <2> QED
    BY <2>1, <2>2, FS_Subset
<1>3. /\ m \in Nat
      /\ \A i \in P : PlaceIn(P, i) \in 1 .. m /\ Nth(P, PlaceIn(P, i)) = i
      /\ \A k \in 1 .. m : Nth(P, k) \in P /\ PlaceIn(P, Nth(P, k)) = k
  BY <1>2, PlacesCounted
<1>4. t = [k \in 1 .. m |-> s[Nth(P, k)]]
  BY DEF Picked
<1> HIDE DEF m, t
<1>5. DOMAIN t = 1 .. m /\ \A k \in 1 .. m : t[k] = s[Nth(P, k)] /\ t[k] \in S
  BY <1>1, <1>3, <1>4
<1>6. t \in Seq(S) /\ Len(t) = m
  <2>1. t = [k \in 1 .. m |-> t[k]]
    BY <1>4, <1>5
  <2> QED
    BY <1>3, <1>5, <2>1
<1>7. \A k, l \in 1 .. m : Nth(P, k) = Nth(P, l) => k = l
  BY <1>3
<1>8. \A i \in P : \E k \in 1 .. m : Nth(P, k) = i
  BY <1>3
<1> QED
  BY <1>2, <1>3, <1>5, <1>6, <1>7, <1>8 DEF m, t

-----------------------------------------------------------------------------
(* Induction over positions, which follows from FirstPosition: a set P of   *)
(* positions takes the place of what is to be shown of them.                *)

\* A set that has a position as soon as it has all later ones has them all.
LEMMA DownwardInduction ==
  ASSUME NEW n \in Nat, NEW P,
         \A i \in 1 .. n : (\A j \in i + 1 .. n : j \in P) => i \in P
  PROVE  \A i \in 1 .. n : i \in P
<1> DEFINE bad == {k \in 1 .. n : n + 1 - k \notin P}
<1>1. SUFFICES ASSUME bad # {} PROVE FALSE
  <2> SUFFICES ASSUME NEW i \in 1 .. n PROVE i \in P
    OBVIOUS
  <2>1. n + 1 - i \in 1 .. n /\ n + 1 - (n + 1 - i) = i
    OBVIOUS
  <2> QED
    BY <1>1, <2>1
<1>2. PICK k \in bad : \A l \in bad : k =< l
  BY <1>1, FirstPosition
<1>3. n + 1 - k \in 1 .. n /\ n + 1 - k \notin P
  BY <1>2
<1>4. PICK j \in (n + 1 - k) + 1 .. n : j \notin P
  BY <1>3
<1>5. n + 1 - j \in 1 .. n /\ n + 1 - (n + 1 - j) = j /\ n + 1 - j < k
  BY <1>2, <1>4
<1> QED
  BY <1>2, <1>4, <1>5

\* So has one that has the first, and with each position the next.
LEMMA UpwardInduction ==
  ASSUME NEW n \in Nat, NEW P, 1 \in P, \A i \in 1 .. n - 1 : i \in P => i + 1 \in P
  PROVE  \A i \in 1 .. n : i \in P
<1> DEFINE bad == {k \in 1 .. n : k \notin P}
<1>1. SUFFICES ASSUME bad # {} PROVE FALSE
  OBVIOUS
<1>2. PICK k \in bad : \A l \in bad : k =< l
  BY <1>1, FirstPosition
<1>3. k # 1 /\ k \in 1 .. n
  BY <1>2
<1>4. k - 1 \in 1 .. n - 1 /\ k - 1 \notin bad
  BY <1>2, <1>3
<1>5. k - 1 \in P
  BY <1>4
<1>6. (k - 1) + 1 = k
  BY <1>3
<1> QED
  BY <1>2, <1>4, <1>5, <1>6
=============================================================================
