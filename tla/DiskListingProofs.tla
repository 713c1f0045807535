-------------------------- MODULE DiskListingProofs --------------------------
(***************************************************************************)
(* The listing and its bars, for any disks, partitions, widths, palettes   *)
(* and units.  First sums, shares and the last of the largest, of which    *)
(* all the bars are made; then one invariant for each part of a bar:       *)
(*   TypeInv    the types, and where in the list the bar is;               *)
(*   SlotsInv   the colours: whose turn it is in the palette;              *)
(*   BarInv     the widths: they add up, and what lending leaves true;     *)
(*   SlicesInv  the slices: the cursor is at the end of what is covered.   *)
(* The overview and the sizes need none: they are computed in one step.    *)
(***************************************************************************)
EXTENDS DiskListingProps, StableSortProofs, SequenceTheorems

-----------------------------------------------------------------------------
(* Sums. *)

LEMMA FromZero ==
  ASSUME NEW n \in Nat, NEW P, 0 \in P, \A m \in 0 .. n - 1 : m \in P => m + 1 \in P
  PROVE  \A m \in 0 .. n : m \in P
<1> DEFINE Q == {m \in 1 .. n + 1 : m - 1 \in P}
<1>1. n + 1 \in Nat /\ 1 \in Q
  OBVIOUS
<1>2. ASSUME NEW m \in 1 .. (n + 1) - 1, m \in Q
      PROVE  m + 1 \in Q
  <2>1. m - 1 \in 0 .. n - 1 /\ m - 1 \in P /\ (m - 1) + 1 = m /\ (m + 1) - 1 = m
        /\ m + 1 \in 1 .. n + 1
    BY <1>2
  <2>2. (m - 1) + 1 \in P
    BY <2>1
  <2> QED
    BY <2>1, <2>2
<1>3. \A m \in 1 .. n + 1 : m \in Q
  <2> HIDE DEF Q
  <2> QED
    BY <1>1, <1>2, UpwardInduction
<1>4. ASSUME NEW m \in 0 .. n
      PROVE  m \in P
  <2>1. m + 1 \in 1 .. n + 1 /\ (m + 1) - 1 = m
    OBVIOUS
  <2> QED
    BY <1>3, <2>1
<1> QED
  BY <1>4

\* The sums of the first numbers, of none up to all.
SumsOf(s, sum) == /\ sum[0] = 0
                  /\ \A n \in 1 .. Len(s) : sum[n] = sum[n - 1] + s[n]
                  /\ \A n \in 0 .. Len(s) : sum[n] \in Int

\* The recursion of Total.
Adds(s, sum) == sum = [n \in 0 .. Len(s) |-> IF n = 0 THEN 0 ELSE sum[n - 1] + s[n]]

LEMMA AddsExists ==
  ASSUME NEW s \in Seq(Int)
  PROVE  \E sum : Adds(s, sum)
<1> DEFINE Sat(f, m) == f = [n \in 0 .. m |-> IF n = 0 THEN 0 ELSE f[n - 1] + s[n]]
           P == {m \in 0 .. Len(s) : \E f : Sat(f, m)}
<1>1. Len(s) \in Nat
  OBVIOUS
<1>2. 0 \in P
  <2> DEFINE g == [n \in 0 .. 0 |-> 0]
  <2>1. \A n \in 0 .. 0 : n = 0
    OBVIOUS
  <2>2. Sat(g, 0)
    BY <2>1
  <2>3. 0 \in 0 .. Len(s)
    BY <1>1
  <2> HIDE DEF g
  <2> QED
    BY <2>2, <2>3
<1>3. ASSUME NEW m \in 0 .. Len(s) - 1, m \in P
      PROVE  m + 1 \in P
  <2>1. PICK f : Sat(f, m)
    BY <1>3
  <2> DEFINE g == [n \in 0 .. m + 1 |-> IF n = m + 1 THEN f[m] + s[m + 1] ELSE f[n]]
  <2>2. ASSUME NEW n \in 0 .. m + 1
        PROVE  g[n] = IF n = 0 THEN 0 ELSE g[n - 1] + s[n]
    <3>1. CASE n = m + 1
      <4>1. n # 0 /\ n - 1 = m /\ m \in 0 .. m + 1 /\ m # m + 1
        BY <1>1, <3>1
      <4>2. g[m] = f[m] /\ g[n] = f[m] + s[n]
        BY <3>1, <4>1
      <4> HIDE DEF g
      <4> QED
        BY <4>1, <4>2
    <3>2. CASE n # m + 1
      <4>1. n \in 0 .. m
        BY <1>1, <3>2
      <4>2. f[n] = IF n = 0 THEN 0 ELSE f[n - 1] + s[n]
        BY <2>1, <4>1, Zenon
      <4>3. g[n] = f[n] /\ (n # 0 => g[n - 1] = f[n - 1])
        BY <1>1, <3>2, <4>1
      <4> HIDE DEF g
      <4> QED
        BY <4>2, <4>3
    <3> QED
      BY <3>1, <3>2
  <2>3. Sat(g, m + 1)
    BY <2>2
  <2>4. m + 1 \in 0 .. Len(s)
    BY <1>1
  <2> HIDE DEF g
  <2> QED
    BY <2>3, <2>4
<1>4. Len(s) \in P
  <2>1. Len(s) \in 0 .. Len(s)
    BY <1>1
  <2> HIDE DEF P
  <2> QED
    BY <1>1, <1>2, <1>3, <2>1, FromZero
<1> QED
  BY <1>4 DEF Adds

LEMMA TotalSums ==
  ASSUME NEW s \in Seq(Int)
  PROVE  \E sum : SumsOf(s, sum) /\ Total(s) = sum[Len(s)]
<1>1. PICK sum : Adds(s, sum) /\ Total(s) = sum[Len(s)]
  BY AddsExists DEF Adds, Total
<1>2. Len(s) \in Nat
  OBVIOUS
<1> DEFINE R(n) == sum[n - 1] + s[n]
<1>3. \A n \in 0 .. Len(s) : sum[n] = IF n = 0 THEN 0 ELSE R(n)
  BY <1>1, Zenon DEF Adds
<1>4. sum[0] = 0
  <2> HIDE DEF R
  <2> QED
    BY <1>2, <1>3
<1>5. \A n \in 1 .. Len(s) : sum[n] = R(n)
  <2> HIDE DEF R
  <2> QED
    BY <1>2, <1>3
<1> DEFINE P == {n \in 0 .. Len(s) : sum[n] \in Int}
<1>6. 0 \in P
  BY <1>2, <1>4
<1>7. ASSUME NEW m \in 0 .. Len(s) - 1, m \in P
      PROVE  m + 1 \in P
  <2>1. m + 1 \in 1 .. Len(s) /\ (m + 1) - 1 = m /\ sum[m] \in Int
    BY <1>2, <1>7
  <2>2. sum[m + 1] = sum[m] + s[m + 1] /\ s[m + 1] \in Int
    BY <1>5, <2>1
  <2>3. sum[m + 1] \in Int
    BY <2>1, <2>2
  <2> QED
    BY <1>2, <2>1, <2>3
<1>8. \A n \in 0 .. Len(s) : n \in P
  <2> HIDE DEF P
  <2> QED
    BY <1>2, <1>6, <1>7, FromZero
<1>9. SumsOf(s, sum)
  BY <1>4, <1>5, <1>8 DEF SumsOf
<1> QED
  BY <1>1, <1>9

\* The sums are determined, and a shorter sequence's are the first of them.
LEMMA SumsSame ==
  ASSUME NEW s \in Seq(Int), NEW t \in Seq(Int), NEW a, NEW b, SumsOf(s, a), SumsOf(t, b),
         NEW n \in Nat, n =< Len(s), n =< Len(t), \A m \in 1 .. n : s[m] = t[m]
  PROVE  \A m \in 0 .. n : a[m] = b[m]
<1> DEFINE P == {m \in 0 .. n : a[m] = b[m]}
<1>1. 0 \in P
  BY DEF SumsOf
<1>2. ASSUME NEW m \in 0 .. n - 1, m \in P
      PROVE  m + 1 \in P
  <2>1. m + 1 \in 1 .. Len(s) /\ m + 1 \in 1 .. Len(t) /\ m + 1 \in 1 .. n /\ (m + 1) - 1 = m
    OBVIOUS
  <2>2. a[m + 1] = a[m] + s[m + 1] /\ b[m + 1] = b[m] + t[m + 1]
    BY <2>1 DEF SumsOf
  <2> QED
    BY <1>2, <2>1, <2>2
<1>3. \A m \in 0 .. n : m \in P
  <2> HIDE DEF P
  <2> QED
    BY <1>1, <1>2, FromZero
<1> QED
  BY <1>3

LEMMA TotalEmpty == Total(<<>>) = 0
<1>1. <<>> \in Seq(Int) /\ Len(<<>>) = 0
  OBVIOUS
<1>2. PICK sum : SumsOf(<<>>, sum) /\ Total(<<>>) = sum[Len(<<>>)]
  BY <1>1, TotalSums, Zenon
<1> QED
  BY <1>1, <1>2 DEF SumsOf

LEMMA TotalAppend ==
  ASSUME NEW s \in Seq(Int), NEW x \in Int
  PROVE  Total(Append(s, x)) = Total(s) + x /\ Total(s) \in Int
<1> DEFINE t == Append(s, x)
<1>1. /\ t \in Seq(Int) /\ Len(t) = Len(s) + 1 /\ Len(s) \in Nat
      /\ t[Len(s) + 1] = x /\ \A m \in 1 .. Len(s) : s[m] = t[m]
  OBVIOUS
<1> HIDE DEF t
<1>2. PICK a : SumsOf(s, a) /\ Total(s) = a[Len(s)]
  BY TotalSums
<1>3. PICK b : SumsOf(t, b) /\ Total(t) = b[Len(t)]
  BY <1>1, TotalSums
<1>4. \A m \in 0 .. Len(s) : a[m] = b[m]
  <2> DEFINE n == Len(s)
  <2>1. /\ t \in Seq(Int) /\ SumsOf(s, a) /\ SumsOf(t, b) /\ n \in Nat
        /\ n =< Len(s) /\ n =< Len(t) /\ \A m \in 1 .. n : s[m] = t[m]
    BY <1>1, <1>2, <1>3
  <2> HIDE DEF n
  <2>2. \A m \in 0 .. n : a[m] = b[m]
    <3>1. s \in Seq(Int) /\ t \in Seq(Int)
      BY <2>1
    <3>2. SumsOf(s, a) /\ SumsOf(t, b)
      BY <2>1
    <3>3. n \in Nat /\ n =< Len(s) /\ n =< Len(t)
      BY <2>1
    <3>4. \A m \in 1 .. n : s[m] = t[m]
      BY <2>1
    <3> QED
      BY <3>1, <3>2, <3>3, <3>4, SumsSame
  <2> QED
    BY <2>2 DEF n
<1>5. b[Len(t)] = b[Len(s)] + x
  <2>1. Len(t) \in 1 .. Len(t) /\ Len(t) - 1 = Len(s)
    BY <1>1
  <2> QED
    BY <1>1, <1>3, <2>1 DEF SumsOf
<1>6. a[Len(s)] \in Int /\ Len(s) \in 0 .. Len(s)
  BY <1>1, <1>2 DEF SumsOf
<1>7. Total(t) = Total(s) + x
  BY <1>2, <1>3, <1>4, <1>5, <1>6
<1> QED
  BY <1>2, <1>6, <1>7 DEF t

LEMMA TotalType ==
  ASSUME NEW s \in Seq(Nat)
  PROVE  Total(s) \in Nat
<1>1. s \in Seq(Int) /\ Len(s) \in Nat
  OBVIOUS
<1>2. PICK a : SumsOf(s, a) /\ Total(s) = a[Len(s)]
  BY <1>1, TotalSums
<1> DEFINE P == {m \in 0 .. Len(s) : a[m] \in Nat}
<1>3. 0 \in P
  BY <1>1, <1>2 DEF SumsOf
<1>4. ASSUME NEW m \in 0 .. Len(s) - 1, m \in P
      PROVE  m + 1 \in P
  <2>1. m + 1 \in 1 .. Len(s) /\ (m + 1) - 1 = m
    BY <1>1
  <2>2. a[m + 1] = a[m] + s[m + 1] /\ s[m + 1] \in Nat
    BY <1>2, <2>1 DEF SumsOf
  <2> QED
    BY <1>4, <2>1, <2>2
<1>5. \A m \in 0 .. Len(s) : m \in P
  <2> HIDE DEF P
  <2> QED
    BY <1>1, <1>3, <1>4, FromZero
<1> QED
  BY <1>1, <1>2, <1>5

\* Two sequences added up place by place.
LEMMA TotalPlus ==
  ASSUME NEW s \in Seq(Int), NEW t \in Seq(Int), NEW u \in Seq(Int),
         Len(s) = Len(u), Len(t) = Len(u), \A m \in 1 .. Len(u) : u[m] = s[m] + t[m]
  PROVE  Total(u) = Total(s) + Total(t)
<1>1. PICK a : SumsOf(s, a) /\ Total(s) = a[Len(s)]
  BY TotalSums
<1>2. PICK b : SumsOf(t, b) /\ Total(t) = b[Len(t)]
  BY TotalSums
<1>3. PICK c : SumsOf(u, c) /\ Total(u) = c[Len(u)]
  BY TotalSums
<1> DEFINE P == {m \in 0 .. Len(u) : c[m] = a[m] + b[m]}
<1>4. 0 \in P /\ Len(u) \in Nat
  BY <1>1, <1>2, <1>3 DEF SumsOf
<1>5. ASSUME NEW m \in 0 .. Len(u) - 1, m \in P
      PROVE  m + 1 \in P
  <2>1. m + 1 \in 1 .. Len(u) /\ (m + 1) - 1 = m /\ m \in 0 .. Len(u)
    BY <1>4
  <2>2. /\ a[m + 1] = a[m] + s[m + 1] /\ b[m + 1] = b[m] + t[m + 1]
        /\ c[m + 1] = c[m] + u[m + 1]
    BY <1>1, <1>2, <1>3, <2>1 DEF SumsOf
  <2>3. /\ a[m] \in Int /\ b[m] \in Int /\ s[m + 1] \in Int /\ t[m + 1] \in Int
        /\ u[m + 1] = s[m + 1] + t[m + 1]
    BY <1>1, <1>2, <2>1 DEF SumsOf
  <2>4. c[m + 1] = a[m + 1] + b[m + 1]
    <3>1. c[m] = a[m] + b[m]
      BY <1>5
    <3> QED
      BY <2>2, <2>3, <3>1, SMTT(30)
  <2> QED
    BY <1>4, <2>1, <2>4
<1>6. \A m \in 0 .. Len(u) : m \in P
  <2> HIDE DEF P
  <2> QED
    BY <1>4, <1>5, FromZero
<1> QED
  BY <1>1, <1>2, <1>3, <1>4, <1>6

\* A sequence multiplied by a number.
LEMMA TotalTimes ==
  ASSUME NEW s \in Seq(Int), NEW u \in Seq(Int), NEW x \in Int,
         Len(s) = Len(u), \A m \in 1 .. Len(u) : u[m] = x * s[m]
  PROVE  Total(u) = x * Total(s)
<1>1. PICK a : SumsOf(s, a) /\ Total(s) = a[Len(s)]
  BY TotalSums
<1>2. PICK c : SumsOf(u, c) /\ Total(u) = c[Len(u)]
  BY TotalSums
<1> DEFINE P == {m \in 0 .. Len(u) : c[m] = x * a[m]}
<1>3. 0 \in P /\ Len(u) \in Nat
  BY <1>1, <1>2 DEF SumsOf
<1>4. ASSUME NEW m \in 0 .. Len(u) - 1, m \in P
      PROVE  m + 1 \in P
  <2>1. m + 1 \in 1 .. Len(u) /\ (m + 1) - 1 = m /\ m \in 0 .. Len(u)
    BY <1>3
  <2>2. a[m + 1] = a[m] + s[m + 1] /\ c[m + 1] = c[m] + u[m + 1]
    BY <1>1, <1>2, <2>1 DEF SumsOf
  <2>3. a[m] \in Int /\ s[m + 1] \in Int /\ u[m + 1] = x * s[m + 1] /\ c[m] = x * a[m]
    BY <1>1, <1>4, <2>1 DEF SumsOf
  <2>4. \A p, q \in Int : x * p + x * q = x * (p + q)
    OBVIOUS
  <2>5. c[m + 1] = x * a[m + 1]
    BY <2>2, <2>3, <2>4
  <2> QED
    BY <1>3, <2>1, <2>5
<1>5. \A m \in 0 .. Len(u) : m \in P
  <2> HIDE DEF P
  <2> QED
    BY <1>3, <1>4, FromZero
<1> QED
  BY <1>1, <1>2, <1>3, <1>5

\* A sequence that is nowhere larger has no larger sum.
LEMMA TotalAtMost ==
  ASSUME NEW s \in Seq(Int), NEW u \in Seq(Int),
         Len(s) = Len(u), \A m \in 1 .. Len(u) : s[m] =< u[m]
  PROVE  Total(s) =< Total(u)
<1>1. PICK a : SumsOf(s, a) /\ Total(s) = a[Len(s)]
  BY TotalSums
<1>2. PICK c : SumsOf(u, c) /\ Total(u) = c[Len(u)]
  BY TotalSums
<1> DEFINE P == {m \in 0 .. Len(u) : a[m] =< c[m]}
<1>3. 0 \in P /\ Len(u) \in Nat
  BY <1>1, <1>2 DEF SumsOf
<1>4. ASSUME NEW m \in 0 .. Len(u) - 1, m \in P
      PROVE  m + 1 \in P
  <2>1. m + 1 \in 1 .. Len(u) /\ (m + 1) - 1 = m /\ m \in 0 .. Len(u)
    BY <1>3
  <2>2. a[m + 1] = a[m] + s[m + 1] /\ c[m + 1] = c[m] + u[m + 1]
    BY <1>1, <1>2, <2>1 DEF SumsOf
  <2>3. /\ a[m] \in Int /\ c[m] \in Int /\ s[m + 1] \in Int /\ u[m + 1] \in Int
        /\ s[m + 1] =< u[m + 1] /\ a[m] =< c[m]
    BY <1>1, <1>2, <1>4, <2>1 DEF SumsOf
  <2>4. a[m + 1] =< c[m + 1]
    BY <2>2, <2>3
  <2> QED
    BY <1>3, <2>1, <2>4
<1>5. \A m \in 0 .. Len(u) : m \in P
  <2> HIDE DEF P
  <2> QED
    BY <1>3, <1>4, FromZero
<1> QED
  BY <1>1, <1>2, <1>3, <1>5

\* Ones at the positions M, and zeros elsewhere.
Marks(n, M) == [m \in 1 .. n |-> IF m \in M THEN 1 ELSE 0]

LEMMA TotalMarks ==
  ASSUME NEW n \in Nat, NEW M, M \subseteq 1 .. n
  PROVE  /\ Marks(n, M) \in Seq(Int) /\ Len(Marks(n, M)) = n
         /\ Total(Marks(n, M)) = Cardinality(M)
<1> DEFINE u == Marks(n, M)
           C(m) == Cardinality(M \cap (1 .. m))
<1>1. u \in Seq(Int) /\ Len(u) = n /\ \A m \in 1 .. n : u[m] = IF m \in M THEN 1 ELSE 0
  BY DEF Marks
<1> HIDE DEF u
<1>2. PICK c : SumsOf(u, c) /\ Total(u) = c[Len(u)]
  BY <1>1, TotalSums
<1>3. \A m \in Nat : IsFiniteSet(M \cap (1 .. m))
  <2> SUFFICES ASSUME NEW m \in Nat PROVE IsFiniteSet(M \cap (1 .. m))
    OBVIOUS
  <2>1. IsFiniteSet(1 .. m)
    BY FS_Interval
  <2>2. M \cap (1 .. m) \subseteq 1 .. m
    OBVIOUS
  <2> QED
    BY <2>1, <2>2, FS_Subset
<1> DEFINE P == {m \in 0 .. n : c[m] = C(m)}
<1>4. 0 \in P
  <2>1. M \cap (1 .. 0) = {}
    OBVIOUS
  <2>2. C(0) = 0
    BY <2>1, FS_EmptySet
  <2> QED
    BY <1>2, <2>2 DEF SumsOf
<1>5. ASSUME NEW m \in 0 .. n - 1, m \in P
      PROVE  m + 1 \in P
  <2>1. m + 1 \in 1 .. n /\ (m + 1) - 1 = m /\ m \in Nat
    OBVIOUS
  <2>2. c[m + 1] = c[m] + u[m + 1]
    BY <1>1, <1>2, <2>1 DEF SumsOf
  <2>3. C(m) \in Nat
    BY <1>3, <2>1, FS_CardinalityType
  <2>4. CASE m + 1 \in M
    <3>1. M \cap (1 .. m + 1) = (M \cap (1 .. m)) \cup {m + 1} /\ m + 1 \notin M \cap (1 .. m)
      BY <2>1, <2>4
    <3>2. C(m + 1) = C(m) + 1
      BY <1>3, <2>1, <3>1, FS_AddElement
    <3>3. c[m + 1] = C(m + 1)
      BY <1>1, <1>5, <2>1, <2>2, <2>4, <3>2
    <3> QED
      BY <2>1, <3>3
  <2>5. CASE m + 1 \notin M
    <3>1. M \cap (1 .. m + 1) = M \cap (1 .. m)
      BY <2>1, <2>5
    <3>2. C(m + 1) = C(m)
      BY <3>1
    <3>3. u[m + 1] = 0 /\ c[m] = C(m)
      BY <1>1, <1>5, <2>1, <2>5
    <3> HIDE DEF C
    <3>4. c[m + 1] = C(m + 1)
      BY <2>2, <2>3, <3>2, <3>3
    <3> QED
      BY <2>1, <3>4
  <2> QED
    BY <2>4, <2>5
<1>6. n \in P
  <2> HIDE DEF P
  <2> QED
    BY <1>4, <1>5, FromZero
<1>7. M \cap (1 .. n) = M
  OBVIOUS
<1>8. Total(u) = Cardinality(M)
  BY <1>1, <1>2, <1>6, <1>7
<1> QED
  BY <1>1, <1>8 DEF u

-----------------------------------------------------------------------------
(* Shares, turns and the last of the largest. *)

LEMMA Division ==
  ASSUME NEW a \in Nat, NEW b \in Nat \ {0}
  PROVE  /\ a \div b \in Nat /\ a % b \in 0 .. b - 1
         /\ a = b * (a \div b) + (a % b)
  OBVIOUS

\* A quotient and a remainder that fit are the ones.
LEMMA DivisionUnique ==
  ASSUME NEW a \in Nat, NEW b \in Nat \ {0}, NEW q \in Nat, NEW r \in 0 .. b - 1, a = b * q + r
  PROVE  a \div b = q /\ a % b = r
<1> DEFINE p == a \div b
           s == a % b
<1>1. p \in Nat /\ s \in 0 .. b - 1 /\ a = b * p + s
  BY Division
<1> HIDE DEF p, s
<1>2. b * (p - q) = r - s
  <2>1. \A x, y, z \in Int : x * (y - z) = x * y - x * z
    OBVIOUS
  <2>2. b * (p - q) = b * p - b * q
    BY <1>1, <2>1
  <2>3. \A x, y, u, v \in Int : x + u = y + v => x - y = v - u
    OBVIOUS
  <2>4. b * p \in Int /\ b * q \in Int
    BY <1>1
  <2> QED
    BY <1>1, <2>2, <2>3, <2>4
<1>3. p = q
  <2>1. CASE p > q
    <3>1. \A x, y \in Nat : y >= 1 => x * y >= x
      OBVIOUS
    <3>2. b * (p - q) >= b
      BY <1>1, <2>1, <3>1
    <3> QED
      BY <1>1, <1>2, <3>2
  <2>2. CASE p < q
    <3>1. \A x \in Nat, y \in Int : y =< -1 => x * y =< -x
      OBVIOUS
    <3>2. b * (p - q) =< -b
      BY <1>1, <2>2, <3>1
    <3> QED
      BY <1>1, <1>2, <3>2
  <2> QED
    BY <1>1, <2>1, <2>2
<1>4. r = s
  <2>1. p - q = 0 /\ b * 0 = 0
    BY <1>1, <1>3
  <2> QED
    BY <1>1, <1>2, <2>1
<1> QED
  BY <1>3, <1>4 DEF p, s

\* A larger number has no smaller quotient.
LEMMA DivisionMonotone ==
  ASSUME NEW a \in Nat, NEW c \in Nat, a =< c, NEW b \in Nat \ {0}
  PROVE  a \div b =< c \div b
<1> DEFINE p == a \div b
           q == c \div b
           s == a % b
           u == c % b
<1>1. p \in Nat /\ s \in 0 .. b - 1 /\ a = b * p + s
  BY Division
<1>2. q \in Nat /\ u \in 0 .. b - 1 /\ c = b * q + u
  BY Division
<1> HIDE DEF p, q, s, u
<1>3. SUFFICES ASSUME p > q PROVE FALSE
  BY <1>1, <1>2 DEF p, q
<1>4. b * p >= b * q + b
  <2>1. \A x, y, z \in Nat : y >= z + 1 => x * y >= x * z + x
    <3>1. \A x, y, z \in Nat : y >= z + 1 => x * (y - (z + 1)) >= 0
      OBVIOUS
    <3>2. \A x, y, z \in Nat : x * (y - (z + 1)) = x * y - (x * z + x)
      OBVIOUS
    <3>3. \A x, y \in Nat : x * y \in Nat
      OBVIOUS
    <3> QED
      BY <3>1, <3>2, <3>3
  <2> QED
    BY <1>1, <1>2, <1>3, <2>1
<1>5. b * p \in Nat /\ b * q \in Nat
  BY <1>1, <1>2
<1> QED
  BY <1>1, <1>2, <1>4, <1>5

\* The last of the largest of some numbers: what max_by_key finds.
IsLastLargest(f, P, n) == n \in P /\ \A m \in P : f[m] < f[n] \/ (f[m] = f[n] /\ m =< n)

LEMMA LastLargestExists ==
  ASSUME NEW n \in Nat, NEW P, P \subseteq 1 .. n, P # {}, NEW f, \A m \in P : f[m] \in Int
  PROVE  \E m \in P : IsLastLargest(f, P, m)
<1> DEFINE Upto(m) == P \cap (1 .. m)
           Q == {m \in 0 .. n : Upto(m) = {} \/ \E l \in Upto(m) : IsLastLargest(f, Upto(m), l)}
<1>1. 0 \in Q
  OBVIOUS
<1>2. ASSUME NEW m \in 0 .. n - 1, m \in Q
      PROVE  m + 1 \in Q
  <2>1. m + 1 \in 0 .. n /\ Upto(m + 1) = IF m + 1 \in P THEN Upto(m) \cup {m + 1} ELSE Upto(m)
    OBVIOUS
  <2>2. CASE m + 1 \notin P
    BY <1>2, <2>1, <2>2
  <2>3. CASE m + 1 \in P /\ Upto(m) = {}
    <3>1. Upto(m + 1) = {m + 1}
      BY <2>1, <2>3
    <3>2. IsLastLargest(f, {m + 1}, m + 1)
      BY <2>3 DEF IsLastLargest
    <3> QED
      BY <2>1, <3>1, <3>2
  <2>4. CASE m + 1 \in P /\ Upto(m) # {}
    <3>1. PICK l \in Upto(m) : IsLastLargest(f, Upto(m), l)
      BY <1>2, <2>4
    <3>2. f[l] \in Int /\ f[m + 1] \in Int /\ \A x \in Upto(m) : f[x] \in Int /\ x \in 1 .. m
      BY <2>4
    <3>3. CASE f[m + 1] >= f[l]
      <4>1. IsLastLargest(f, Upto(m + 1), m + 1)
        BY <2>1, <2>4, <3>1, <3>2, <3>3 DEF IsLastLargest
      <4> QED
        BY <2>1, <2>4, <4>1
    <3>4. CASE f[m + 1] < f[l]
      <4>1. IsLastLargest(f, Upto(m + 1), l)
        BY <2>1, <2>4, <3>1, <3>2, <3>4 DEF IsLastLargest
      <4> QED
        BY <2>1, <2>4, <3>1, <4>1
    <3> QED
      BY <3>2, <3>3, <3>4
  <2> QED
    BY <2>2, <2>3, <2>4
<1>3. n \in Q
  <2>1. n \in 0 .. n
    OBVIOUS
  <2> HIDE DEF Q
  <2> QED
    BY <1>1, <1>2, <2>1, FromZero
<1>4. Upto(n) = P
  OBVIOUS
<1> QED
  BY <1>3, <1>4

-----------------------------------------------------------------------------

(* Types, and where the loops stand. *)

Extent == [start : Nat, size : Nat]

\* The physical ones among the first disks.
PhysicalUpto(ds, n) == {m \in 1 .. n : ~ds[m].synthesized}

\* A bar is computed for a disk that has one, and phys_idx counts the physical
\* disks before this one.
Where ==
  /\ stage # "disk" => k =< Len(disks)
  /\ stage \in {"segments", "widths", "borrow", "slots"} => HasBar
  /\ phys_idx = Cardinality(PhysicalUpto(disks, k - 1))

TypeInv == TypeOK /\ Where

LEMMA PhysicalCount ==
  ASSUME NEW ds, NEW n \in Nat
  PROVE  /\ IsFiniteSet(PhysicalUpto(ds, n)) /\ Cardinality(PhysicalUpto(ds, n)) \in 0 .. n
         /\ Cardinality(PhysicalUpto(ds, n + 1)) =
              Cardinality(PhysicalUpto(ds, n)) + IF ds[n + 1].synthesized THEN 0 ELSE 1
<1>1. IsFiniteSet(1 .. n) /\ Cardinality(1 .. n) = n
  BY FS_Interval
<1>2. PhysicalUpto(ds, n) \in SUBSET (1 .. n)
  BY DEF PhysicalUpto
<1>3. /\ IsFiniteSet(PhysicalUpto(ds, n)) /\ Cardinality(PhysicalUpto(ds, n)) =< n
      /\ Cardinality(PhysicalUpto(ds, n)) \in Nat
  BY <1>1, <1>2, FS_Subset, FS_CardinalityType
<1>4. CASE ds[n + 1].synthesized
  <2>1. PhysicalUpto(ds, n + 1) = PhysicalUpto(ds, n)
    BY <1>4 DEF PhysicalUpto
  <2> QED
    BY <1>3, <1>4, <2>1
<1>5. CASE ~ds[n + 1].synthesized
  <2>1. /\ PhysicalUpto(ds, n + 1) = PhysicalUpto(ds, n) \cup {n + 1}
        /\ n + 1 \notin PhysicalUpto(ds, n)
    BY <1>5 DEF PhysicalUpto
  <2> QED
    BY <1>3, <1>5, <2>1, FS_AddElement
<1> QED
  BY <1>4, <1>5

\* The keys the partitions are sorted by.
StartKey == [n \in DOMAIN This.parts |-> This.parts[n].start]
At(r) == AtRank(StartKey, r)

\* The partitions in the order of the bar are those of the disk, once each.
LEMMA SortedParts ==
  ASSUME disks \in Seq(Disk), k \in 1 .. Len(disks)
  PROVE  /\ This \in Disk /\ This.parts \in Seq(Extent) /\ Len(This.parts) \in Nat
         /\ Sorted \in Seq(Extent) /\ Len(Sorted) = Len(This.parts)
         /\ DOMAIN Sorted = 1 .. Len(This.parts)
         /\ \A r \in 1 .. Len(This.parts) :
              At(r) \in 1 .. Len(This.parts) /\ Sorted[r] = This.parts[At(r)]
         /\ \A j \in 1 .. Len(This.parts) : \E r \in 1 .. Len(This.parts) : At(r) = j
         /\ \A q, r \in 1 .. Len(This.parts) : At(q) = At(r) => q = r
         /\ \A q, r \in 1 .. Len(This.parts) : q < r => Sorted[q].start =< Sorted[r].start
<1>1. This \in Disk
  BY DEF This
<1>2. This.parts \in Seq(Extent)
  BY <1>1 DEF Disk, Extent
<1> DEFINE ps == This.parts
           N == Len(ps)
           key == StartKey
<1> HIDE DEF ps
<1>3. N \in Nat /\ DOMAIN ps = 1 .. N /\ ps \in Seq(Extent)
  BY <1>2 DEF ps
<1>4. KeysOf(key, N)
  <2>0. \A n \in 1 .. N : ps[n] \in Extent
    BY <1>3
  <2>1. \A n \in 1 .. N : ps[n].start \in Int
    BY <2>0 DEF Extent
  <2>2. key = [n \in DOMAIN ps |-> ps[n].start]
    BY DEF StartKey, ps
  <2> HIDE DEF key
  <2> QED
    BY <1>3, <2>1, <2>2 DEF KeysOf
<1>5. Sorted = SortedBy(ps, key)
  BY DEF Sorted, StartKey, ps
<1> HIDE DEF key
<1>6. SortedBy(ps, key) \in Seq(Extent) /\ Len(SortedBy(ps, key)) = N
  BY <1>3, <1>4, SortedByType
<1>7. /\ \A j \in 1 .. N : Rank(key, j) \in 1 .. N
      /\ \A r \in 1 .. N : /\ AtRank(key, r) \in 1 .. N /\ Rank(key, AtRank(key, r)) = r
                           /\ SortedBy(ps, key)[r] = ps[AtRank(key, r)]
      /\ \A q, r \in 1 .. N : q < r => key[AtRank(key, q)] =< key[AtRank(key, r)]
  BY <1>3, <1>4, SortedByPermutes
<1>8. \A j \in 1 .. N : AtRank(key, Rank(key, j)) = j
  BY <1>3, <1>4, AtRankInverse
<1>9. \A r \in 1 .. N : At(r) = AtRank(key, r)
  BY DEF At, key
<1>10. \A n \in 1 .. N : key[n] = ps[n].start
  BY <1>3 DEF key, StartKey, ps
<1>11. \A r \in 1 .. N : At(r) \in 1 .. N /\ Sorted[r] = ps[At(r)]
  BY <1>5, <1>7, <1>9
<1>12. \A j \in 1 .. N : \E r \in 1 .. N : At(r) = j
  BY <1>7, <1>8, <1>9
<1>13. \A q, r \in 1 .. N : At(q) = At(r) => q = r
  BY <1>7, <1>9
<1>14. \A q, r \in 1 .. N : q < r => Sorted[q].start =< Sorted[r].start
  <2> SUFFICES ASSUME NEW q \in 1 .. N, NEW r \in 1 .. N, q < r
               PROVE  Sorted[q].start =< Sorted[r].start
    OBVIOUS
  <2>1. key[At(q)] =< key[At(r)]
    BY <1>7, <1>9
  <2>2. Sorted[q].start = key[At(q)] /\ Sorted[r].start = key[At(r)]
    BY <1>10, <1>11
  <2> QED
    BY <2>1, <2>2
<1>15. Sorted \in Seq(Extent) /\ Len(Sorted) = N /\ DOMAIN Sorted = 1 .. N
  BY <1>3, <1>5, <1>6
<1> QED
  BY <1>1, <1>3, <1>11, <1>12, <1>13, <1>14, <1>15 DEF ps

LEMMA LargestIs ==
  ASSUME disks \in Seq(Disk), k \in 1 .. Len(disks), This.parts # <<>>
  PROVE  Largest \in 1 .. Len(This.parts)
<1> DEFINE N == Len(This.parts)
           f == [n \in 1 .. N |-> Sorted[n].size]
<1>1. /\ N \in Nat /\ N # 0 /\ DOMAIN Sorted = 1 .. N /\ Sorted \in Seq(Extent)
  BY SortedParts
<1>2. \A n \in 1 .. N : f[n] \in Int /\ f[n] = Sorted[n].size
  <2> HIDE DEF N
  <2>1. \A n \in 1 .. N : Sorted[n] \in Extent
    BY <1>1
  <2>2. \A n \in 1 .. N : Sorted[n].size \in Int
    BY <2>1 DEF Extent
  <2> QED
    BY <2>2
<1> HIDE DEF N, f
<1>3. 1 \in 1 .. N
  BY <1>1
<1>4. \E m \in 1 .. N : IsLastLargest(f, 1 .. N, m)
  <2> DEFINE P == 1 .. N
  <2>1. P \subseteq 1 .. N /\ P # {} /\ \A m \in P : f[m] \in Int
    BY <1>2, <1>3
  <2> HIDE DEF P
  <2>2. \E m \in P : IsLastLargest(f, P, m)
    BY <1>1, <2>1, LastLargestExists
  <2> QED
    BY <2>2 DEF P
<1>5. \E n \in DOMAIN Sorted : \A m \in DOMAIN Sorted :
             Sorted[m].size < Sorted[n].size \/ (Sorted[m].size = Sorted[n].size /\ m =< n)
  BY <1>1, <1>2, <1>4, ZenonT(40) DEF IsLastLargest
<1>6. Largest \in DOMAIN Sorted
  BY <1>5 DEF Largest
<1> QED
  BY <1>1, <1>6 DEF N

\* The widest slice is one that can lend, and none is wider.
LEMMA WidestIs ==
  ASSUME widths \in Seq(Nat), Lenders # {}
  PROVE  /\ Widest \in DOMAIN widths /\ widths[Widest] > 1
         /\ \A m \in DOMAIN widths : widths[m] =< widths[Widest]
<1>1. Len(widths) \in Nat /\ Lenders \subseteq 1 .. Len(widths)
      /\ \A m \in Lenders : widths[m] \in Int
  BY DEF Lenders
<1>2. \E m \in Lenders : IsLastLargest(widths, Lenders, m)
  BY <1>1, LastLargestExists
<1>3. \E n \in Lenders : \A m \in Lenders :
            widths[m] < widths[n] \/ (widths[m] = widths[n] /\ m =< n)
  BY <1>2 DEF IsLastLargest
<1>4. /\ Widest \in Lenders
      /\ \A m \in Lenders : widths[m] < widths[Widest] \/ (widths[m] = widths[Widest] /\ m =< Widest)
  BY <1>3 DEF Widest
<1>5. \A m \in DOMAIN widths : widths[m] =< widths[Widest]
  BY <1>4, SMTT(30) DEF Lenders
<1> QED
  BY <1>4, <1>5 DEF Lenders

\* Sequences are functions on their first numbers.
LEMMA IsSequence ==
  ASSUME NEW S, NEW n \in Nat, NEW f, f = [m \in 1 .. n |-> f[m]], \A m \in 1 .. n : f[m] \in S
  PROVE  f \in Seq(S) /\ Len(f) = n /\ DOMAIN f = 1 .. n
<1>1. f \in [1 .. n -> S]
  OBVIOUS
<1> QED
  BY <1>1

LEMMA AppendIn ==
  ASSUME NEW S, NEW s \in Seq(S), NEW x \in S
  PROVE  Append(s, x) \in Seq(S)
  OBVIOUS

\* What lending a column does to the widths.
LEMMA LendIs ==
  ASSUME widths \in Seq(Nat), NEW from \in DOMAIN widths, NEW to, from # to, widths[from] > 1
  PROVE  /\ Lend(from, to) \in Seq(Nat) /\ Len(Lend(from, to)) = Len(widths)
         /\ DOMAIN Lend(from, to) = DOMAIN widths
         /\ \A n \in DOMAIN widths :
              Lend(from, to)[n] = IF n = from THEN widths[n] - 1
                                  ELSE IF n = to THEN widths[n] + 1 ELSE widths[n]
<1>1. Len(widths) \in Nat /\ DOMAIN widths = 1 .. Len(widths)
      /\ \A m \in 1 .. Len(widths) : widths[m] \in Nat
  OBVIOUS
<1> DEFINE t == Lend(from, to)
<1>2. /\ t = [m \in 1 .. Len(widths) |-> t[m]]
      /\ \A n \in 1 .. Len(widths) :
           t[n] = IF n = from THEN widths[n] - 1
                  ELSE IF n = to THEN widths[n] + 1 ELSE widths[n]
  BY <1>1 DEF Lend
<1> HIDE DEF t
<1>3. \A m \in 1 .. Len(widths) : t[m] \in Nat
  BY <1>1, <1>2, SMTT(30)
<1>4. t \in Seq(Nat) /\ Len(t) = Len(widths) /\ DOMAIN t = 1 .. Len(widths)
  BY <1>1, <1>2, <1>3, IsSequence
<1> QED
  BY <1>1, <1>2, <1>4 DEF t

Segment == [bytes : Nat, index : Nat]

LEMMA GapType ==
  ASSUME NEW bytes \in Int
  PROVE  Gap(bytes) \in Seq(Segment)
<1>1. CASE bytes > 0
  <2>1. Slice(bytes, Free) \in Segment
    BY <1>1 DEF Slice, Free, Segment
  <2>2. Gap(bytes) = <<Slice(bytes, Free)>>
    BY <1>1 DEF Gap
  <2> QED
    BY <2>1, <2>2
<1>2. CASE ~(bytes > 0)
  BY <1>2 DEF Gap
<1> QED
  BY <1>1, <1>2

LEMMA TypeInit == Init => TypeInv
<1> SUFFICES ASSUME Init PROVE TypeInv
  OBVIOUS
<1>1. disks \in Seq(Disk) /\ width \in Nat
  BY InputsAssumption DEF Init
<1>2. PhysicalUpto(disks, 0) = {}
  BY DEF PhysicalUpto
<1>3. Cardinality(PhysicalUpto(disks, 0)) = 0
  BY <1>2, FS_EmptySet
<1>4. TypeOK
  BY <1>1 DEF Init, TypeOK
<1>5. Where
  BY <1>3 DEF Init, Where
<1> QED
  BY <1>4, <1>5 DEF TypeInv

\* What the invariant says while a bar is computed.
LEMMA ThisBar ==
  ASSUME TypeInv, stage # "disk"
  PROVE  /\ disks \in Seq(Disk) /\ k \in 1 .. Len(disks)
         /\ This \in Disk /\ This.size \in Nat /\ This.parts \in Seq(Extent)
         /\ Len(This.parts) \in Nat
         /\ Sorted \in Seq(Extent) /\ DOMAIN Sorted = 1 .. Len(This.parts)
         /\ \A n \in 1 .. Len(This.parts) :
              /\ Sorted[n] \in Extent /\ Sorted[n].start \in Nat /\ Sorted[n].size \in Nat
              /\ This.parts[n] \in Extent
<1>1. disks \in Seq(Disk) /\ k \in 1 .. Len(disks)
  BY DEF TypeInv, TypeOK, Where
<1>2. /\ This \in Disk /\ This.parts \in Seq(Extent) /\ Len(This.parts) \in Nat
      /\ Sorted \in Seq(Extent) /\ DOMAIN Sorted = 1 .. Len(This.parts)
  BY <1>1, SortedParts
<1>3. This.size \in Nat
  BY <1>2 DEF Disk
<1>4. ASSUME NEW n \in 1 .. Len(This.parts)
      PROVE  /\ Sorted[n] \in Extent /\ Sorted[n].start \in Nat /\ Sorted[n].size \in Nat
             /\ This.parts[n] \in Extent
  <2>1. Sorted[n] \in Extent /\ This.parts[n] \in Extent
    BY <1>2
  <2> QED
    BY <2>1 DEF Extent
<1> QED
  BY <1>1, <1>2, <1>3, <1>4

LEMMA WeightsType ==
  ASSUME segs \in Seq([bytes : Nat, index : Nat])
  PROVE  /\ Len(segs) \in Nat /\ DOMAIN segs = 1 .. Len(segs)
         /\ Weights \in Seq(Nat) /\ Len(Weights) = Len(segs) /\ DOMAIN Weights = DOMAIN segs
         /\ \A n \in DOMAIN segs : Weights[n] = segs[n].bytes /\ Weights[n] \in Nat
         /\ Sum \in Nat
<1> DEFINE N == Len(segs)
<1>1. N \in Nat /\ DOMAIN segs = 1 .. N
  OBVIOUS
<1>2. \A n \in 1 .. N : segs[n] \in Segment
  <2>1. segs \in Seq(Segment)
    BY DEF Segment
  <2> QED
    BY <1>1, <2>1
<1>3. \A n \in 1 .. N : segs[n].bytes \in Nat
  BY <1>2 DEF Segment
<1>4. Weights = [n \in 1 .. N |-> segs[n].bytes]
  BY <1>1 DEF Weights
<1> HIDE DEF N
<1>5. Weights \in Seq(Nat) /\ Len(Weights) = N /\ DOMAIN Weights = 1 .. N
      /\ \A n \in 1 .. N : Weights[n] = segs[n].bytes /\ Weights[n] \in Nat
  BY <1>1, <1>3, <1>4
<1>6. Sum \in Nat
  BY <1>5, TotalType DEF Sum
<1> QED
  BY <1>1, <1>5, <1>6 DEF N

\* The shares and what was rounded away, when there is something to divide.
LEMMA ShareType ==
  ASSUME segs \in Seq([bytes : Nat, index : Nat]), width \in Nat, Sum > 0
  PROVE  /\ Share \in Seq(Nat) /\ Len(Share) = Len(segs)
         /\ Remainder \in Seq(Nat) /\ Len(Remainder) = Len(segs)
         /\ \A n \in DOMAIN segs :
              /\ Weights[n] * width \in Nat
              /\ Share[n] = (Weights[n] * width) \div Sum /\ Share[n] \in Nat
              /\ Remainder[n] = (Weights[n] * width) % Sum /\ Remainder[n] \in 0 .. Sum - 1
              /\ Weights[n] * width = Sum * Share[n] + Remainder[n]
<1> DEFINE N == Len(segs)
<1>1. /\ N \in Nat /\ DOMAIN segs = 1 .. N /\ Sum \in Nat \ {0}
      /\ \A n \in 1 .. N : Weights[n] \in Nat
  BY WeightsType
<1> HIDE DEF N
<1>2. \A x, y \in Nat : x * y \in Nat
  OBVIOUS
<1>3. \A n \in 1 .. N : Weights[n] * width \in Nat
  BY <1>1, <1>2
<1>4. ASSUME NEW n \in 1 .. N
      PROVE  /\ Share[n] = (Weights[n] * width) \div Sum /\ Share[n] \in Nat
             /\ Remainder[n] = (Weights[n] * width) % Sum /\ Remainder[n] \in 0 .. Sum - 1
             /\ Weights[n] * width = Sum * Share[n] + Remainder[n]
  <2> DEFINE a == Weights[n] * width
  <2>1. a \in Nat
    BY <1>3
  <2>2. Share[n] = a \div Sum /\ Remainder[n] = a % Sum
    BY <1>1 DEF Share, Remainder
  <2> HIDE DEF a
  <2>3. a \div Sum \in Nat /\ a % Sum \in 0 .. Sum - 1 /\ a = Sum * (a \div Sum) + (a % Sum)
    BY <1>1, <2>1, Division
  <2> QED
    BY <2>2, <2>3 DEF a
<1>5. Share = [n \in 1 .. N |-> Share[n]] /\ Remainder = [n \in 1 .. N |-> Remainder[n]]
  BY <1>1 DEF Share, Remainder
<1>6. \A n \in 1 .. N : Share[n] \in Nat /\ Remainder[n] \in Nat
  <2>1. \A r \in 0 .. Sum - 1 : r \in Nat
    OBVIOUS
  <2> QED
    BY <1>4, <2>1
<1>7. /\ Share \in Seq(Nat) /\ Len(Share) = N
      /\ Remainder \in Seq(Nat) /\ Len(Remainder) = N
  BY <1>1, <1>5, <1>6, IsSequence
<1> QED
  BY <1>1, <1>3, <1>4, <1>7 DEF N

LEMMA TypeNext == TypeInv /\ [Next]_vars => TypeInv'
<1> SUFFICES ASSUME TypeInv, [Next]_vars PROVE TypeInv'
  OBVIOUS
<1> USE DEF TypeInv, TypeOK, Where
<1>k. k - 1 \in Nat /\ k = (k - 1) + 1
  OBVIOUS
<1>a. accent \in 0 .. Palette - 1
  <2>1. phys_idx \in Nat /\ Palette \in Nat \ {0}
    BY PaletteAssumption
  <2> QED
    BY <2>1, Division DEF accent
<1>1. CASE ListPlain
  BY <1>1 DEF ListPlain, listing, bar
<1>2. CASE StartBar
  BY <1>2 DEF StartBar, listing, bar, HasBar, This
<1>3. CASE NextDisk
  <2>1. /\ k' = k + 1 /\ k =< Len(disks) /\ disks' = disks /\ width' = width /\ stage' = "disk"
        /\ phys_idx' = IF Counts(This) THEN phys_idx + 1 ELSE phys_idx
    BY <1>3 DEF NextDisk
  <2>2. /\ Cardinality(PhysicalUpto(disks, k - 1)) \in 0 .. k - 1
        /\ Cardinality(PhysicalUpto(disks, k)) =
              Cardinality(PhysicalUpto(disks, k - 1)) + IF disks[k].synthesized THEN 0 ELSE 1
    BY <1>k, PhysicalCount, Zenon
  <2>3. k' - 1 = k
    BY <2>1
  <2>4. phys_idx' = Cardinality(PhysicalUpto(disks', k' - 1))
    <3>1. disks[k].synthesized = This.synthesized
      BY DEF This
    <3> QED
      BY <2>1, <2>2, <2>3, <3>1 DEF Counts
  <2>5. phys_idx' \in 0 .. Len(disks)
    BY <2>1, <2>2 DEF Counts
  <2>6. /\ i' \in Nat \ {0} /\ cursor' \in Nat /\ segs' = <<>> /\ widths' = <<>>
        /\ next' \in Nat /\ slots' = <<>>
    BY <1>3 DEF NextDisk, NoBar
  <2> QED
    BY <2>1, <2>4, <2>5, <2>6
<1>4. CASE AddSegment
  <2> DEFINE p == Sorted[i]
             gap == Gap(p.start - cursor)
  <2>1. /\ stage = "segments" /\ i \in 1 .. Len(This.parts)
        /\ segs' = segs \o gap \o <<Slice(p.size, i)>> /\ cursor' = Covered(p)
        /\ i' = i + 1 /\ UNCHANGED <<listing, stage, widths, next, slots>>
    BY <1>4, ThisBar DEF AddSegment
  <2>2. p.start \in Nat /\ p.size \in Nat
    BY <2>1, ThisBar
  <2>3. gap \in Seq([bytes : Nat, index : Nat])
    <3>1. p.start - cursor \in Int
      BY <2>2, SMTT(30)
    <3> QED
      BY <3>1, GapType DEF Segment
  <2>4. <<Slice(p.size, i)>> \in Seq([bytes : Nat, index : Nat])
    <3>1. Slice(p.size, i) \in [bytes : Nat, index : Nat]
      BY <2>2 DEF Slice
    <3> QED
      BY <3>1
  <2>5. cursor' \in Nat
    BY <2>1, <2>2, SMTT(30) DEF Covered, Larger
  <2> HIDE DEF p, gap
  <2>6. segs' \in Seq([bytes : Nat, index : Nat])
    BY <2>1, <2>3, <2>4
  <2>7. HasBar' = HasBar
    BY <2>1 DEF HasBar, This, listing
  <2> QED
    BY <2>1, <2>5, <2>6, <2>7 DEF listing
<1>5. CASE EndSegments
  <2> DEFINE gap == Gap(This.size - cursor)
  <2>1. /\ stage = "segments" /\ segs' = segs \o gap /\ stage' = "widths"
        /\ UNCHANGED <<listing, i, cursor, widths, next, slots>>
    BY <1>5 DEF EndSegments
  <2>2. gap \in Seq([bytes : Nat, index : Nat])
    <3>1. This.size - cursor \in Int
      BY <2>1, ThisBar
    <3> QED
      BY <3>1, GapType DEF Segment
  <2> HIDE DEF gap
  <2>3. segs' \in Seq([bytes : Nat, index : Nat])
    BY <2>1, <2>2
  <2>4. HasBar' = HasBar
    BY <2>1 DEF HasBar, This, listing
  <2> QED
    BY <2>1, <2>3, <2>4 DEF listing
<1>6. CASE NoWidths
  <2>1. /\ stage = "widths" /\ widths' = [n \in DOMAIN segs |-> 0] /\ i' = 1 /\ stage' = "slots"
        /\ UNCHANGED <<listing, cursor, segs, next, slots>>
    BY <1>6 DEF NoWidths
  <2>2. widths' \in Seq(Nat)
    BY <2>1
  <2>3. HasBar' = HasBar
    BY <2>1 DEF HasBar, This, listing
  <2> QED
    BY <2>1, <2>2, <2>3 DEF listing
<1>7. CASE Allocate
  <2> DEFINE favoured == Favoured(width - Total(Share))
  <2>1. /\ stage = "widths" /\ Sum > 0 /\ i' = 1 /\ stage' = "borrow"
        /\ widths' = [n \in DOMAIN segs |-> Share[n] + IF n \in favoured THEN 1 ELSE 0]
        /\ UNCHANGED <<listing, cursor, segs, next, slots>>
    BY <1>7 DEF Allocate
  <2>2. \A n \in DOMAIN segs : Share[n] \in Nat
    BY <2>1, ShareType
  <2> HIDE DEF favoured
  <2>3. widths' \in Seq(Nat)
    <3>1. \A n \in DOMAIN segs : widths'[n] \in Nat
      BY <2>1, <2>2, SMTT(30)
    <3>2. Len(segs) \in Nat /\ DOMAIN segs = 1 .. Len(segs)
      OBVIOUS
    <3>3. widths' = [n \in 1 .. Len(segs) |-> widths'[n]]
      BY <2>1, <3>2
    <3> QED
      BY <3>1, <3>2, <3>3, IsSequence
  <2>4. HasBar' = HasBar
    BY <2>1 DEF HasBar, This, listing
  <2> QED
    BY <2>1, <2>3, <2>4 DEF listing
<1>8. CASE Borrow
  <2>1. /\ stage = "borrow" /\ i' = i + 1
        /\ widths' = IF Weights[i] > 0 /\ widths[i] = 0 /\ Lenders # {}
                       THEN Lend(Widest, i) ELSE widths
        /\ UNCHANGED <<listing, stage, cursor, segs, next, slots>>
    BY <1>8 DEF Borrow
  <2>2. widths' \in Seq(Nat)
    <3>1. CASE Weights[i] > 0 /\ widths[i] = 0 /\ Lenders # {}
      <4>1. Widest \in DOMAIN widths /\ widths[Widest] > 1 /\ Widest # i
        BY <3>1, WidestIs
      <4>2. Lend(Widest, i) \in Seq(Nat)
        BY <4>1, LendIs
      <4> QED
        BY <2>1, <3>1, <4>2
    <3> QED
      BY <2>1, <3>1
  <2>3. HasBar' = HasBar
    BY <2>1 DEF HasBar, This, listing
  <2> QED
    BY <2>1, <2>2, <2>3 DEF listing
<1>9. CASE EndBorrow
  <2>1. HasBar' = HasBar
    BY <1>9 DEF EndBorrow, HasBar, This, listing
  <2> QED
    BY <1>9, <2>1 DEF EndBorrow, listing
<1>10. CASE PickSlot
  <2> DEFINE c == AvoidAccent(next)
  <2>1. /\ stage = "slots" /\ i' = i + 1
        /\ UNCHANGED <<listing, stage, cursor, segs, widths>>
    BY <1>10 DEF PickSlot
  <2>2. \/ slots' = Append(slots, accent) /\ next' = next
        \/ slots' = Append(slots, c % Palette) /\ next' = c + 1
    BY <1>10 DEF PickSlot
  <2>3. c \in Nat
    BY DEF AvoidAccent
  <2> HIDE DEF c
  <2>4. c % Palette \in 0 .. Palette - 1
    BY <2>3, PaletteAssumption, Division
  <2>5. slots' \in Seq(0 .. Palette - 1) /\ next' \in Nat
    <3> DEFINE C == 0 .. Palette - 1
    <3>1. slots \in Seq(C) /\ accent \in C /\ c % Palette \in C
      BY <1>a, <2>4
    <3>2. next' \in Nat
      BY <2>2, <2>3
    <3> HIDE DEF C
    <3>3. Append(slots, accent) \in Seq(C) /\ Append(slots, c % Palette) \in Seq(C)
      BY <3>1, AppendIn
    <3>4. slots' \in Seq(C)
      BY <2>2, <3>3
    <3> QED
      BY <3>2, <3>4 DEF C
  <2>6. HasBar' = HasBar
    BY <2>1 DEF HasBar, This, listing
  <2> QED
    BY <2>1, <2>5, <2>6 DEF listing
<1>11. CASE EndBar
  BY <1>11 DEF EndBar, listing, bar
<1>12. CASE UNCHANGED vars
  <2>1. HasBar' = HasBar
    BY <1>12 DEF vars, HasBar, This, listing
  <2> QED
    BY <1>12, <2>1 DEF vars, listing, bar
<1> QED
  BY <1>1, <1>2, <1>3, <1>4, <1>5, <1>6, <1>7, <1>8, <1>9, <1>10, <1>11, <1>12 DEF Next

LEMMA TypesHold == Spec => []TypeInv
  BY TypeInit, TypeNext, PTL DEF Spec

\* The variables of the listing always have their types, whatever disks and
\* widths it is called with (lib.rs:281-333, bar.rs).
THEOREM ListingTypes == Spec => []TypeOK
  BY TypesHold, PTL DEF TypeInv

-----------------------------------------------------------------------------
(* The overview. *)

LEMMA FillIs ==
  ASSUME NEW size \in Nat, NEW largest \in Nat, NEW w \in Nat
  PROVE  /\ Fill(size, largest, w) \in 0 .. w
         /\ w > 0 => (Fill(size, largest, w) > 0 <=> size > 0)
         /\ size = largest /\ size > 0 => Fill(size, largest, w) = w
<1> DEFINE d == Larger(largest, 1)
           q == (size * w) \div d
<1>1. d \in Nat \ {0} /\ (largest > 0 => d = largest)
  BY DEF Larger
<1>2. size * w \in Nat
  OBVIOUS
<1>3. q \in Nat
  <2> HIDE DEF d
  <2> QED
    BY <1>1, <1>2, Division
<1>4. size = 0 => q = 0
  <2> SUFFICES ASSUME size = 0 PROVE q = 0
    OBVIOUS
  <2>1. size * w = 0
    OBVIOUS
  <2> HIDE DEF d
  <2>2. 0 = d * 0 + 0 /\ 0 \in 0 .. d - 1 /\ 0 \in Nat
    BY <1>1
  <2>3. 0 \div d = 0
    BY <1>1, <2>2, DivisionUnique
  <2> QED
    BY <2>1, <2>3
<1>5. size = largest /\ size > 0 => q = w
  <2> SUFFICES ASSUME size = largest, size > 0 PROVE q = w
    OBVIOUS
  <2>1. d = size
    BY <1>1
  <2> HIDE DEF d
  <2>2. size * w = d * w + 0 /\ 0 \in 0 .. d - 1
    BY <1>1, <1>2, <2>1
  <2> QED
    BY <1>1, <1>2, <2>2, DivisionUnique
<1>6. Fill(size, largest, w) = IF Shown(size, q) > w THEN w ELSE Shown(size, q)
  BY DEF Fill
<1> HIDE DEF d, q
<1> QED
  BY <1>3, <1>4, <1>5, <1>6 DEF Shown

LEMMA FillMonotone ==
  ASSUME NEW a \in Nat, NEW c \in Nat, a =< c, NEW largest \in Nat, NEW w \in Nat
  PROVE  Fill(a, largest, w) =< Fill(c, largest, w)
<1> DEFINE d == Larger(largest, 1)
           p == (a * w) \div d
           q == (c * w) \div d
<1>1. d \in Nat \ {0}
  BY DEF Larger
<1>2. a * w \in Nat /\ c * w \in Nat
  OBVIOUS
<1>3. a * w =< c * w
  <2>1. \A x, y, z \in Nat : (y - x) * z = y * z - x * z
    OBVIOUS
  <2>2. \A x, z \in Nat : x * z \in Nat
    OBVIOUS
  <2>3. (c - a) * w = c * w - a * w /\ c - a \in Nat
    BY <2>1
  <2>4. (c - a) * w \in Nat
    BY <2>2, <2>3
  <2> QED
    BY <1>2, <2>3, <2>4
<1>4. p =< q /\ p \in Nat /\ q \in Nat
  <2> HIDE DEF d
  <2>1. p \in Nat /\ q \in Nat
    BY <1>1, <1>2, Division
  <2>2. p =< q
    BY <1>1, <1>2, <1>3, DivisionMonotone
  <2> QED
    BY <2>1, <2>2
<1>5. /\ Fill(a, largest, w) = IF Shown(a, p) > w THEN w ELSE Shown(a, p)
      /\ Fill(c, largest, w) = IF Shown(c, q) > w THEN w ELSE Shown(c, q)
  BY DEF Fill
<1> HIDE DEF d, p, q
<1> QED
  BY <1>4, <1>5 DEF Shown

\* Which disks the overview shows.
LEMMA PhysicalIs ==
  ASSUME NEW ds \in Seq(Disk)
  PROVE  /\ Physical(ds) \in Seq(Disk) /\ Len(Physical(ds)) \in Nat
         /\ Len(Physical(ds)) = Cardinality(PhysicalUpto(ds, Len(ds)))
         /\ \A n \in DOMAIN Physical(ds) : Physical(ds)[n].size \in Nat
<1> DEFINE P == {n \in DOMAIN ds : ~ds[n].synthesized}
<1>1. P = PhysicalUpto(ds, Len(ds)) /\ P \subseteq DOMAIN ds
  BY DEF PhysicalUpto
<1>2. Physical(ds) = Picked(ds, P)
  BY DEF Physical
<1> HIDE DEF P
<1>3. Physical(ds) \in Seq(Disk) /\ Len(Physical(ds)) = Cardinality(P)
  BY <1>1, <1>2, PickedAre
<1>4. \A n \in DOMAIN Physical(ds) : Physical(ds)[n] \in Disk
  BY <1>3
<1>5. \A n \in DOMAIN Physical(ds) : Physical(ds)[n].size \in Nat
  BY <1>4 DEF Disk
<1> QED
  BY <1>1, <1>3, <1>5

LEMMA LargestSizeIs ==
  ASSUME NEW ds \in Seq(Disk), ds # <<>>
  PROVE  /\ \E n \in DOMAIN ds : LargestSize(ds) = ds[n].size
         /\ \A n \in DOMAIN ds : ds[n].size \in Nat /\ ds[n].size =< LargestSize(ds)
<1> DEFINE N == Len(ds)
           f == [n \in 1 .. N |-> ds[n].size]
<1>1. N \in Nat /\ N # 0 /\ DOMAIN ds = 1 .. N
  OBVIOUS
<1>2. \A n \in DOMAIN ds : ds[n].size \in Nat
  <2>1. \A n \in DOMAIN ds : ds[n] \in Disk
    OBVIOUS
  <2> QED
    BY <2>1 DEF Disk
<1> HIDE DEF N
<1>3. \A n \in 1 .. N : f[n] = ds[n].size /\ f[n] \in Int
  BY <1>1, <1>2
<1> HIDE DEF f
<1>4. \E m \in 1 .. N : IsLastLargest(f, 1 .. N, m)
  <2> DEFINE P == 1 .. N
  <2>0. 1 \in 1 .. N
    BY <1>1
  <2>1. P \subseteq 1 .. N /\ P # {} /\ \A m \in P : f[m] \in Int
    BY <1>3, <2>0
  <2> HIDE DEF P
  <2>2. \E m \in P : IsLastLargest(f, P, m)
    BY <1>1, <2>1, LastLargestExists
  <2> QED
    BY <2>2 DEF P
<1>5. \E s \in {ds[n].size : n \in DOMAIN ds} : \A n \in DOMAIN ds : ds[n].size =< s
  <2>1. PICK m \in 1 .. N : \A l \in 1 .. N : f[l] < f[m] \/ (f[l] = f[m] /\ l =< m)
    BY <1>4 DEF IsLastLargest
  <2>2. \A l \in DOMAIN ds : ds[l].size =< ds[m].size
    BY <1>1, <1>3, <2>1
  <2> QED
    BY <1>1, <2>2
<1>6. /\ LargestSize(ds) \in {ds[n].size : n \in DOMAIN ds}
      /\ \A n \in DOMAIN ds : ds[n].size =< LargestSize(ds)
  BY <1>5 DEF LargestSize
<1> QED
  BY <1>2, <1>6

LEMMA OverviewIsFair == TypeInv => OverviewFair
<1> SUFFICES ASSUME TypeInv PROVE OverviewFair
  OBVIOUS
<1> DEFINE physical == Physical(disks)
           lines == Overview(disks, width)
           largest == LargestSize(physical)
<1>1. disks \in Seq(Disk) /\ width \in Nat
  BY DEF TypeInv, TypeOK
<1>2. /\ physical \in Seq(Disk) /\ Len(physical) \in Nat
      /\ \A n \in DOMAIN physical : physical[n].size \in Nat
  BY <1>1, PhysicalIs
<1>3. lines = IF Len(physical) < 2 THEN <<>>
              ELSE [n \in DOMAIN physical |->
                      [fill |-> Fill(physical[n].size, largest, width),
                       slot |-> (n - 1) % Palette]]
  BY DEF Overview
<1> HIDE DEF physical
<1>4. SUFFICES ASSUME ~(Len(physical) < 2)
               PROVE  OverviewFair
  <2>1. CASE Len(physical) < 2
    <3>1. DOMAIN lines = {}
      BY <1>3, <2>1
    <3> HIDE DEF lines
    <3>2. \A n \in DOMAIN lines : FALSE
      BY <3>1
    <3> QED
      BY <3>2 DEF OverviewFair, lines, physical
  <2> QED
    BY <1>4, <2>1
<1>5. physical # <<>>
  BY <1>2, <1>4
<1>6. /\ \E n \in DOMAIN physical : largest = physical[n].size
      /\ \A n \in DOMAIN physical : physical[n].size =< largest
  BY <1>2, <1>5, LargestSizeIs
<1>7. largest \in Nat
  BY <1>2, <1>6
<1> HIDE DEF largest
<1>8. /\ DOMAIN lines = DOMAIN physical
      /\ \A n \in DOMAIN physical : lines[n].fill = Fill(physical[n].size, largest, width)
  BY <1>3, <1>4
<1> HIDE DEF lines
<1>9. ASSUME NEW n \in DOMAIN lines
      PROVE  /\ lines[n].fill =< width
             /\ width > 0 => (lines[n].fill > 0 <=> physical[n].size > 0)
             /\ \A m \in DOMAIN lines :
                  physical[m].size =< physical[n].size => lines[m].fill =< lines[n].fill
             /\ (physical[n].size > 0
                   /\ \A m \in DOMAIN lines : physical[m].size =< physical[n].size) =>
                  lines[n].fill = width
  <2> DEFINE size == physical[n].size
  <2>1. size \in Nat /\ lines[n].fill = Fill(size, largest, width)
    BY <1>2, <1>8
  <2> HIDE DEF size
  <2>2. /\ Fill(size, largest, width) \in 0 .. width
        /\ width > 0 => (Fill(size, largest, width) > 0 <=> size > 0)
        /\ size = largest /\ size > 0 => Fill(size, largest, width) = width
    BY <1>1, <1>7, <2>1, FillIs
  <2>3. ASSUME NEW m \in DOMAIN lines, physical[m].size =< size
        PROVE  lines[m].fill =< lines[n].fill
    <3>1. physical[m].size \in Nat /\ lines[m].fill = Fill(physical[m].size, largest, width)
      BY <1>2, <1>8
    <3> QED
      BY <1>1, <1>7, <2>1, <2>3, <3>1, FillMonotone
  <2>4. ASSUME size > 0, \A m \in DOMAIN lines : physical[m].size =< size
        PROVE  lines[n].fill = width
    <3>1. PICK m \in DOMAIN physical : largest = physical[m].size
      BY <1>6
    <3>2. size =< largest
      BY <1>6, <1>8 DEF size
    <3>3. largest =< size
      BY <1>8, <2>4, <3>1
    <3>4. size = largest
      BY <1>7, <2>1, <3>2, <3>3
    <3> QED
      BY <2>1, <2>2, <2>4, <3>4
  <2>5. lines[n].fill =< width /\ (width > 0 => (lines[n].fill > 0 <=> size > 0))
    BY <1>1, <2>1, <2>2
  <2> QED
    BY <2>3, <2>4, <2>5 DEF size
<1> QED
  BY <1>9 DEF OverviewFair, lines, physical

\* In the overview the largest disk fills its row, a disk with bytes is seen and
\* none is longer than a larger one, for any sizes and any width (bar.rs:227-266).
THEOREM OverviewIsFairAlways == Spec => []OverviewFair
  BY TypesHold, OverviewIsFair, PTL

-----------------------------------------------------------------------------
(* The colours. *)

\* What stays while one disk is drawn.
LEMMA SameDisk ==
  ASSUME UNCHANGED listing
  PROVE  /\ This' = This /\ Sorted' = Sorted /\ Largest' = Largest /\ accent' = accent
         /\ HasBar' = HasBar /\ disks' = disks /\ width' = width /\ k' = k
<1>1. disks' = disks /\ width' = width /\ k' = k /\ phys_idx' = phys_idx
  BY DEF listing
<1>2. This' = This
  BY <1>1 DEF This
<1>3. Sorted' = Sorted
  BY <1>2 DEF Sorted
<1>4. Largest' = Largest
  BY <1>3 DEF Largest
<1>5. accent' = accent /\ HasBar' = HasBar
  BY <1>1, <1>2 DEF accent, HasBar
<1> QED
  BY <1>1, <1>2, <1>3, <1>4, <1>5

\* How many partitions before this one take their colours in turn, and the
\* colour whose turn it is then, until the colours are used up.
Turn(n) == IF n > Largest THEN n - 2 ELSE n - 1
Colour(c) == IF c < accent THEN c ELSE c + 1

Coloured ==
  /\ \A n \in DOMAIN slots :
       /\ n = Largest => slots[n] = accent
       /\ n # Largest =>
            slots[n] # accent /\ (Turn(n) =< Palette - 2 => slots[n] = Colour(Turn(n)))
  /\ stage = "slots" /\ Turn(i) =< Palette - 1 =>
       next = IF Turn(i) =< accent THEN Turn(i) ELSE Turn(i) + 1

SlotsInv ==
  /\ stage \in {"disk", "segments", "widths", "borrow"} => slots = <<>> /\ next = 0
  /\ stage = "slots" => i =< Len(This.parts) + 1 /\ Len(slots) = i - 1
  /\ Drawn => Len(slots) = Len(This.parts)
  /\ stage = "slots" \/ Drawn => Coloured

LEMMA NotTheAccent ==
  ASSUME NEW x \in Nat, NEW a \in 0 .. Palette - 1, x % Palette = a
  PROVE  (x + 1) % Palette # a
<1> DEFINE q == x \div Palette
<1>1. Palette \in Nat \ {0} /\ Palette > 1
  BY PaletteAssumption
<1>2. q \in Nat /\ x = Palette * q + a
  BY <1>1, Division
<1> HIDE DEF q
<1>3. CASE a + 1 < Palette
  <2>1. x + 1 = Palette * q + (a + 1) /\ a + 1 \in 0 .. Palette - 1 /\ x + 1 \in Nat
    BY <1>1, <1>2, <1>3
  <2>2. (x + 1) % Palette = a + 1
    BY <1>1, <1>2, <2>1, DivisionUnique, ZenonT(40)
  <2> QED
    BY <2>2
<1>4. CASE a + 1 = Palette
  <2>1. \A y, z \in Nat : y * (z + 1) = y * z + y
    OBVIOUS
  <2>2. Palette * (q + 1) = Palette * q + Palette
    BY <1>1, <1>2, <2>1
  <2>3. x + 1 = Palette * (q + 1) + 0 /\ 0 \in 0 .. Palette - 1 /\ x + 1 \in Nat /\ q + 1 \in Nat
    BY <1>1, <1>2, <1>4, <2>2
  <2>4. (x + 1) % Palette = 0
    BY <1>1, <2>3, DivisionUnique
  <2> QED
    BY <1>1, <1>4, <2>4
<1> QED
  BY <1>1, <1>3, <1>4

LEMMA SmallModulus ==
  ASSUME NEW x \in 0 .. Palette - 1
  PROVE  x % Palette = x
<1>1. x = Palette * 0 + x /\ Palette \in Nat \ {0} /\ x \in Nat /\ 0 \in Nat
  BY PaletteAssumption
<1> QED
  BY <1>1, DivisionUnique

LEMMA SlotsInit == Init => SlotsInv
  BY DEF Init, SlotsInv, Drawn

LEMMA SlotsNext == TypeInv /\ TypeInv' /\ SlotsInv /\ [Next]_vars => SlotsInv'
<1> SUFFICES ASSUME TypeInv, TypeInv', SlotsInv, [Next]_vars PROVE SlotsInv'
  OBVIOUS
<1>0. /\ i \in Nat \ {0} /\ next \in Nat /\ slots \in Seq(0 .. Palette - 1)
      /\ Palette \in Nat \ {0, 1} /\ phys_idx \in Nat
  BY PaletteAssumption DEF TypeInv, TypeOK
<1>a. accent \in 0 .. Palette - 1
  <2>1. Palette \in Nat \ {0}
    BY <1>0
  <2> QED
    BY <1>0, <2>1, Division DEF accent
<1>t. ASSUME UNCHANGED listing
      PROVE  \A n : Turn(n)' = Turn(n) /\ Colour(n)' = Colour(n)
  BY <1>t, SameDisk DEF Turn, Colour
<1>1. CASE ListPlain
  <2>1. stage' = "drawn" /\ ~HasBar /\ UNCHANGED listing
    BY <1>1 DEF ListPlain, HasBar
  <2>2. ~HasBar'
    BY <2>1, SameDisk
  <2> QED
    BY <2>1, <2>2 DEF SlotsInv, Drawn
<1>2. CASE StartBar
  <2>1. stage = "disk" /\ stage' = "segments" /\ slots' = slots /\ next' = next
    BY <1>2 DEF StartBar, bar
  <2> QED
    BY <2>1 DEF SlotsInv, Drawn
<1>3. CASE NextDisk
  <2>1. stage' = "disk" /\ slots' = <<>> /\ next' = 0
    BY <1>3 DEF NextDisk, NoBar
  <2> QED
    BY <2>1 DEF SlotsInv, Drawn
<1>4. CASE AddSegment
  <2>1. stage = "segments" /\ stage' = "segments" /\ slots' = slots /\ next' = next
    BY <1>4 DEF AddSegment
  <2> QED
    BY <2>1 DEF SlotsInv, Drawn
<1>5. CASE EndSegments
  <2>1. stage = "segments" /\ stage' = "widths" /\ slots' = slots /\ next' = next
    BY <1>5 DEF EndSegments
  <2> QED
    BY <2>1 DEF SlotsInv, Drawn
<1>6. CASE Allocate
  <2>1. stage = "widths" /\ stage' = "borrow" /\ slots' = slots /\ next' = next
    BY <1>6 DEF Allocate
  <2> QED
    BY <2>1 DEF SlotsInv, Drawn
<1>7. CASE Borrow
  <2>1. stage = "borrow" /\ stage' = "borrow" /\ slots' = slots /\ next' = next
    BY <1>7 DEF Borrow
  <2> QED
    BY <2>1 DEF SlotsInv, Drawn
<1>8. ASSUME NoWidths \/ EndBorrow
      PROVE  SlotsInv'
  <2>1. /\ stage \in {"widths", "borrow"} /\ stage' = "slots" /\ i' = 1 /\ slots' = slots
        /\ next' = next /\ UNCHANGED listing
    BY <1>8 DEF NoWidths, EndBorrow
  <2>2. slots' = <<>> /\ next' = 0
    BY <2>1 DEF SlotsInv
  <2>3. Largest \in 1 .. Len(This.parts) /\ This.parts # <<>> /\ Len(This.parts) \in Nat
    <3>1. /\ disks \in Seq(Disk) /\ k \in 1 .. Len(disks) /\ This.parts # <<>>
          /\ Len(This.parts) \in Nat
      BY <2>1, ThisBar DEF TypeInv, Where, HasBar
    <3> QED
      BY <3>1, LargestIs
  <2>4. Turn(i)' = 0
    BY <2>1, <2>3, SameDisk DEF Turn
  <2>5. This' = This /\ accent' = accent
    BY <2>1, SameDisk
  <2>6. Coloured'
    <3>1. DOMAIN slots' = {}
      BY <2>2
    <3> QED
      BY <1>a, <2>2, <2>4, <2>5, <3>1 DEF Coloured
  <2> QED
    BY <2>1, <2>2, <2>3, <2>5, <2>6 DEF SlotsInv, Drawn
<1>9. CASE PickSlot
  <2> DEFINE L == Largest
             c == Turn(i)
             x == AvoidAccent(next)
             N == Len(This.parts)
  <2>1. /\ stage = "slots" /\ stage' = "slots" /\ i =< N /\ i' = i + 1 /\ UNCHANGED listing
    BY <1>9 DEF PickSlot
  <2>2. /\ i = L => slots' = Append(slots, accent) /\ next' = next
        /\ i # L => slots' = Append(slots, x % Palette) /\ next' = x + 1
    BY <1>9 DEF PickSlot
  <2>3. L \in 1 .. N /\ N \in Nat
    <3>1. /\ disks \in Seq(Disk) /\ k \in 1 .. Len(disks) /\ This.parts # <<>>
          /\ Len(This.parts) \in Nat
      BY <2>1, ThisBar DEF TypeInv, Where, HasBar
    <3> QED
      BY <3>1, LargestIs
  <2>4. Largest' = L /\ accent' = accent /\ Len(This.parts)' = N
        /\ \A n : Turn(n)' = Turn(n) /\ Colour(n)' = Colour(n)
    BY <1>t, <2>1, SameDisk
  <2>5. /\ Len(slots) = i - 1 /\ Coloured
    BY <2>1 DEF SlotsInv
  <2>6. c \in Int /\ Turn(i + 1) = IF i = L THEN c ELSE c + 1
    BY <1>0, <2>3 DEF Turn
  <2>7. c >= 0 \/ i = L
    BY <1>0, <2>3 DEF Turn
  <2>8. c >= 0
    BY <1>0, <2>3, <2>7 DEF Turn
  <2> HIDE DEF L, N
  <2>9. c =< Palette - 1 => next = IF c =< accent THEN c ELSE c + 1
    BY <2>1, <2>5 DEF Coloured
  <2>10. x \in Nat /\ x % Palette # accent
    <3>1. CASE next % Palette = accent
      <4>1. x = next + 1
        BY <3>1 DEF AvoidAccent
      <4>2. (next + 1) % Palette # accent
        BY <1>0, <1>a, <3>1, NotTheAccent
      <4> QED
        BY <1>0, <4>1, <4>2
    <3>2. CASE next % Palette # accent
      BY <1>0, <3>2 DEF AvoidAccent
    <3> QED
      BY <3>1, <3>2
  <2>11. c =< Palette - 2 => x % Palette = Colour(c) /\ x = Colour(c)
    <3> SUFFICES ASSUME c =< Palette - 2 PROVE x % Palette = Colour(c) /\ x = Colour(c)
      OBVIOUS
    <3>1. next = (IF c =< accent THEN c ELSE c + 1) /\ next \in 0 .. Palette - 1
      BY <1>0, <2>6, <2>8, <2>9
    <3>2. next % Palette = next
      BY <3>1, SmallModulus
    <3>3. next = accent <=> c = accent
      BY <1>a, <2>6, <3>1
    <3>4. x = Colour(c)
      BY <1>a, <2>6, <3>1, <3>2, <3>3 DEF AvoidAccent, Colour
    <3>5. Colour(c) \in 0 .. Palette - 1
      BY <1>0, <1>a, <2>6, <2>8 DEF Colour
    <3> QED
      BY <3>4, <3>5, SmallModulus
  <2> HIDE DEF c, x
  <2>12. next' = IF i = L THEN next ELSE x + 1
    BY <2>2
  <2>13. Turn(i + 1) =< Palette - 1 =>
           next' = IF Turn(i + 1) =< accent THEN Turn(i + 1) ELSE Turn(i + 1) + 1
    <3> DEFINE d == Turn(i + 1)
    <3>1. d = IF i = L THEN c ELSE c + 1
      BY <2>6
    <3> HIDE DEF d
    <3>2. CASE i = L
      BY <2>9, <2>12, <3>1, <3>2 DEF d
    <3>3. CASE i # L
      <4> SUFFICES ASSUME d =< Palette - 1 PROVE next' = IF d =< accent THEN d ELSE d + 1
        BY DEF d
      <4>1. c =< Palette - 2
        BY <1>0, <2>6, <3>1, <3>3
      <4>2. next' = Colour(c) + 1
        BY <2>11, <2>12, <3>3, <4>1
      <4> QED
        BY <1>a, <2>6, <3>1, <3>3, <4>2 DEF Colour
    <3> QED
      BY <3>2, <3>3
  <2>14. /\ Len(slots') = i /\ DOMAIN slots' = 1 .. i
         /\ \A n \in 1 .. i - 1 : slots'[n] = slots[n] /\ n \in DOMAIN slots
         /\ slots'[i] = IF i = L THEN accent ELSE x % Palette
    <3> DEFINE y == IF i = L THEN accent ELSE x % Palette
    <3>1. slots' = Append(slots, y)
      BY <2>2
    <3>2. Len(slots) = i - 1 /\ DOMAIN slots = 1 .. i - 1
      BY <1>0, <2>5
    <3> HIDE DEF y
    <3>3. /\ Len(slots') = i /\ DOMAIN slots' = 1 .. i
          /\ \A n \in 1 .. i - 1 : slots'[n] = slots[n] /\ n \in DOMAIN slots
          /\ slots'[i] = y
      BY <1>0, <3>1, <3>2
    <3> QED
      BY <3>3 DEF y
  <2>15. ASSUME NEW n \in DOMAIN slots'
         PROVE  /\ n = L => slots'[n] = accent
                /\ n # L =>
                     slots'[n] # accent /\ (Turn(n) =< Palette - 2 => slots'[n] = Colour(Turn(n)))
    <3>1. CASE n = i
      BY <2>10, <2>11, <2>14, <3>1 DEF c
    <3>2. CASE n # i
      <4>1. n \in 1 .. i - 1
        BY <1>0, <2>14, <3>2
      <4> QED
        BY <2>5, <2>14, <4>1 DEF Coloured, L
    <3> QED
      BY <3>1, <3>2
  <2>16. Coloured'
    <3>1. Turn(i)' = Turn(i + 1)
      BY <2>1, <2>4 DEF Turn, L
    <3> QED
      BY <2>4, <2>13, <2>15, <3>1 DEF Coloured
  <2>17. (Len(This.parts) + 1)' = N + 1
    BY <2>4
  <2> QED
    BY <1>0, <2>1, <2>3, <2>4, <2>14, <2>16 DEF SlotsInv, Drawn
<1>10. CASE EndBar
  <2>1. /\ stage = "slots" /\ i > Len(This.parts) /\ stage' = "drawn" /\ UNCHANGED listing
        /\ slots' = slots /\ next' = next /\ i' = i
    BY <1>10 DEF EndBar, bar
  <2>2. This' = This /\ Largest' = Largest /\ accent' = accent
        /\ \A n : Turn(n)' = Turn(n) /\ Colour(n)' = Colour(n)
    BY <1>t, <2>1, SameDisk
  <2>3. Len(This.parts) \in Nat
    BY <2>1, ThisBar
  <2>4. Len(slots) = Len(This.parts) /\ Coloured
    BY <1>0, <2>1, <2>3 DEF SlotsInv
  <2>5. Coloured'
    BY <2>1, <2>2, <2>4 DEF Coloured
  <2> QED
    BY <2>1, <2>2, <2>4, <2>5 DEF SlotsInv
<1>11. CASE UNCHANGED vars
  <2>1. UNCHANGED listing /\ stage' = stage /\ i' = i /\ slots' = slots /\ next' = next
    BY <1>11 DEF vars, bar
  <2>2. This' = This /\ Largest' = Largest /\ accent' = accent /\ HasBar' = HasBar
        /\ \A n : Turn(n)' = Turn(n) /\ Colour(n)' = Colour(n)
    BY <1>t, <2>1, SameDisk
  <2>3. Drawn' = Drawn /\ Turn(i)' = Turn(i)
    BY <2>1, <2>2 DEF Drawn
  <2>4. Coloured' = Coloured
    BY <2>1, <2>2, <2>3 DEF Coloured
  <2> QED
    BY <2>1, <2>2, <2>3, <2>4 DEF SlotsInv
<1> QED
  BY <1>1, <1>2, <1>3, <1>4, <1>5, <1>6, <1>7, <1>8, <1>9, <1>10, <1>11 DEF Next

LEMMA SlotsHold == Spec => [](TypeInv /\ SlotsInv)
<1>1. TypeInv /\ SlotsInv /\ [Next]_vars => (TypeInv /\ SlotsInv)'
  BY TypeNext, SlotsNext
<1> QED
  BY <1>1, TypeInit, SlotsInit, PTL DEF Spec

\* What a drawn bar's colours are.
LEMMA DrawnColours ==
  ASSUME TypeInv, SlotsInv, Drawn
  PROVE  /\ disks \in Seq(Disk) /\ k \in 1 .. Len(disks) /\ Len(This.parts) \in Nat
         /\ Largest \in 1 .. Len(This.parts) /\ DOMAIN slots = 1 .. Len(This.parts)
         /\ Len(slots) = Len(This.parts) /\ Coloured
<1>1. /\ disks \in Seq(Disk) /\ k \in 1 .. Len(disks) /\ Len(This.parts) \in Nat
      /\ This.parts # <<>>
  BY ThisBar DEF Drawn, HasBar
<1>2. Largest \in 1 .. Len(This.parts)
  BY <1>1, LargestIs
<1>3. Len(slots) = Len(This.parts) /\ slots \in Seq(0 .. Palette - 1) /\ Coloured
  BY DEF SlotsInv, TypeInv, TypeOK
<1> QED
  BY <1>1, <1>2, <1>3

LEMMA ColoursDiffer == TypeInv /\ SlotsInv => ColoursSpent
<1> SUFFICES ASSUME TypeInv, SlotsInv, Drawn, Len(slots) =< Palette,
                    NEW m \in DOMAIN slots, NEW n \in DOMAIN slots, slots[m] = slots[n]
             PROVE  m = n
  BY DEF ColoursSpent
<1> DEFINE N == Len(This.parts)
           L == Largest
<1>1. N \in Nat /\ L \in 1 .. N /\ DOMAIN slots = 1 .. N /\ N =< Palette
  BY DrawnColours
<1>2. accent \in Int /\ Palette \in Nat
  <2>1. phys_idx \in Nat /\ Palette \in Nat \ {0}
    BY PaletteAssumption DEF TypeInv, TypeOK
  <2>2. accent \in 0 .. Palette - 1
    BY <2>1, Division DEF accent
  <2> QED
    BY <2>1, <2>2
<1>3. \A x \in 1 .. N : x # L => Turn(x) \in Int /\ Turn(x) =< Palette - 2
  BY <1>1, <1>2 DEF Turn
<1>4. \A x \in 1 .. N : /\ x = L => slots[x] = accent
                        /\ x # L => slots[x] # accent /\ slots[x] = Colour(Turn(x))
  <2>1. Coloured
    BY DrawnColours
  <2>2. \A x \in 1 .. N :
          /\ x = L => slots[x] = accent
          /\ x # L => slots[x] # accent /\ (Turn(x) =< Palette - 2 => slots[x] = Colour(Turn(x)))
    BY <1>1, <2>1 DEF Coloured
  <2> HIDE DEF N, L
  <2> QED
    BY <1>3, <2>2
<1>5. \A x, y \in Int : Colour(x) = Colour(y) => x = y
  BY <1>2 DEF Colour
<1>6. \A x, y \in 1 .. N : x # L /\ y # L /\ Turn(x) = Turn(y) => x = y
  BY <1>1 DEF Turn
<1> HIDE DEF N, L
<1>7. m \in 1 .. N /\ n \in 1 .. N
  BY <1>1
<1>8. CASE m = L \/ n = L
  BY <1>4, <1>7, <1>8
<1>9. CASE m # L /\ n # L
  <2>1. Colour(Turn(m)) = Colour(Turn(n))
    BY <1>4, <1>7, <1>9
  <2>2. Turn(m) = Turn(n)
    BY <1>3, <1>5, <1>7, <1>9, <2>1
  <2> QED
    BY <1>6, <1>7, <1>9, <2>2
<1> QED
  BY <1>8, <1>9

LEMMA AccentAgrees == TypeInv /\ SlotsInv => AccentIsOverviews
<1> SUFFICES ASSUME TypeInv, SlotsInv, Drawn PROVE AccentIsOverviews
  BY DEF AccentIsOverviews
<1> DEFINE first == SubSeq(disks, 1, k)
           before == Len(Physical(first))
           physical == Physical(disks)
           lines == Overview(disks, width)
<1>1. /\ disks \in Seq(Disk) /\ k \in 1 .. Len(disks) /\ Len(This.parts) \in Nat
      /\ Largest \in 1 .. Len(This.parts) /\ DOMAIN slots = 1 .. Len(This.parts)
      /\ Coloured /\ ~This.synthesized
  BY DrawnColours DEF Drawn, HasBar
<1>2. \A n \in DOMAIN slots : n # Largest => slots[n] # slots[Largest]
  BY <1>1 DEF Coloured
<1>3. slots[Largest] = accent
  BY <1>1 DEF Coloured
<1>4. before = phys_idx + 1 /\ phys_idx \in Nat
  <2>1. first \in Seq(Disk) /\ Len(first) = k /\ \A n \in 1 .. k : first[n] = disks[n]
    BY <1>1
  <2>2. PhysicalUpto(first, k) = PhysicalUpto(disks, k)
    BY <2>1 DEF PhysicalUpto
  <2> HIDE DEF first
  <2>3. before = Cardinality(PhysicalUpto(disks, k))
    BY <2>1, <2>2, PhysicalIs
  <2>4. k - 1 \in Nat /\ k = (k - 1) + 1
    BY <1>1
  <2>5. /\ Cardinality(PhysicalUpto(disks, k - 1)) \in 0 .. k - 1
        /\ Cardinality(PhysicalUpto(disks, k)) =
              Cardinality(PhysicalUpto(disks, k - 1)) + IF disks[k].synthesized THEN 0 ELSE 1
    BY <2>4, PhysicalCount, Zenon
  <2>6. disks[k].synthesized = This.synthesized
    BY DEF This
  <2> HIDE DEF before
  <2> QED
    BY <1>1, <2>3, <2>4, <2>5, <2>6 DEF TypeInv, Where
<1>5. before =< Len(physical) /\ physical \in Seq(Disk)
  <2>1. Len(disks) \in Nat /\ k \in Nat
    BY <1>1
  <2>2. IsFiniteSet(PhysicalUpto(disks, Len(disks)))
    BY <2>1, PhysicalCount
  <2>3. PhysicalUpto(disks, k) \in SUBSET PhysicalUpto(disks, Len(disks))
    BY <1>1, <2>1 DEF PhysicalUpto
  <2>4. Cardinality(PhysicalUpto(disks, k)) =< Cardinality(PhysicalUpto(disks, Len(disks)))
    BY <2>2, <2>3, FS_Subset
  <2>5. Len(physical) = Cardinality(PhysicalUpto(disks, Len(disks))) /\ physical \in Seq(Disk)
    BY <1>1, PhysicalIs
  <2>6. first \in Seq(Disk) /\ Len(first) = k /\ \A n \in 1 .. k : first[n] = disks[n]
    BY <1>1
  <2>7. PhysicalUpto(first, k) = PhysicalUpto(disks, k)
    BY <2>6 DEF PhysicalUpto
  <2> HIDE DEF first, physical
  <2>8. before = Cardinality(PhysicalUpto(disks, k))
    BY <2>6, <2>7, PhysicalIs
  <2> QED
    BY <2>4, <2>5, <2>8
<1>6. lines # <<>> => lines[before].slot = accent
  <2> SUFFICES ASSUME lines # <<>> PROVE lines[before].slot = accent
    OBVIOUS
  <2> HIDE DEF physical, before
  <2>1. lines = [n \in DOMAIN physical |->
                   [fill |-> Fill(physical[n].size, LargestSize(physical), width),
                    slot |-> (n - 1) % Palette]]
    BY DEF Overview, physical
  <2>2. before \in DOMAIN physical
    BY <1>4, <1>5
  <2> HIDE DEF lines
  <2>3. lines[before].slot = (before - 1) % Palette
    BY <2>1, <2>2
  <2>4. before - 1 = phys_idx
    BY <1>4
  <2> QED
    BY <2>3, <2>4 DEF accent
<1> HIDE DEF lines, before
<1>7. /\ lines # <<>> => slots[Largest] = lines[before].slot
      /\ \A n \in DOMAIN slots : n # Largest => slots[n] # slots[Largest]
  BY <1>2, <1>3, <1>6
<1> QED
  BY <1>7 DEF AccentIsOverviews, lines, before

\* Partitions share a colour only when the colours are used up, however many
\* disks and partitions there are (bar.rs:200-221).
THEOREM ColoursSpentAlways == Spec => []ColoursSpent
  BY SlotsHold, ColoursDiffer, PTL

\* The largest partition, and no other, has its disk's colour in the overview
\* (lib.rs:297-329, bar.rs:200-202).
THEOREM AccentIsOverviewsAlways == Spec => []AccentIsOverviews
  BY SlotsHold, AccentAgrees, PTL

-----------------------------------------------------------------------------
(* The columns. *)

LEMMA FirstNumbers ==
  ASSUME NEW n \in Nat
  PROVE  IsFiniteSet(1 .. n) /\ Cardinality(1 .. n) = n
  BY FS_Interval

LEMMA SumPositive ==
  ASSUME NEW s \in Seq(Nat), NEW n \in 1 .. Len(s)
  PROVE  s[n] =< Total(s)
<1> DEFINE N == Len(s)
           M == {n}
           marks == Marks(N, M)
           u == [m \in 1 .. N |-> s[n] * marks[m]]
<1>1. N \in Nat /\ s[n] \in Nat /\ M \subseteq 1 .. N /\ s \in Seq(Int)
  BY DEF M
<1>2. marks \in Seq(Int) /\ Len(marks) = N /\ Total(marks) = Cardinality(M)
  BY <1>1, TotalMarks
<1>3. Cardinality(M) = 1
  BY FS_Singleton
<1>4. \A m \in 1 .. N : marks[m] = IF m = n THEN 1 ELSE 0
  BY DEF Marks
<1> HIDE DEF marks, M, N
<1>5. u \in Seq(Int) /\ Len(u) = N /\ \A m \in 1 .. N : u[m] = s[n] * marks[m]
  <2>1. \A m \in 1 .. N : u[m] \in Int /\ u[m] = s[n] * marks[m]
    BY <1>1, <1>4
  <2>2. u = [m \in 1 .. N |-> u[m]]
    OBVIOUS
  <2> HIDE DEF u
  <2> QED
    BY <1>1, <2>1, <2>2, IsSequence
<1> HIDE DEF u
<1>6. Total(u) = s[n] * Total(marks)
  <2>1. /\ marks \in Seq(Int) /\ u \in Seq(Int) /\ s[n] \in Int /\ Len(marks) = Len(u)
        /\ \A m \in 1 .. Len(u) : u[m] = s[n] * marks[m]
    BY <1>1, <1>2, <1>5
  <2> QED
    BY <2>1, TotalTimes, Zenon
<1>7. \A m \in 1 .. N : u[m] =< s[m]
  <2> SUFFICES ASSUME NEW m \in 1 .. N PROVE u[m] =< s[m]
    OBVIOUS
  <2>1. s[m] \in Nat
    BY DEF N
  <2>2. CASE m = n
    BY <1>1, <1>4, <1>5, <2>2
  <2>3. CASE m # n
    BY <1>1, <1>4, <1>5, <2>1, <2>3
  <2> QED
    BY <2>2, <2>3
<1>8. Total(u) =< Total(s)
  BY <1>1, <1>5, <1>7, TotalAtMost DEF N
<1> QED
  BY <1>1, <1>2, <1>3, <1>6, <1>8

\* A function on the first numbers, and a way to prove its sum.
LEMMA MarksAre ==
  ASSUME NEW n \in Nat, NEW M
  PROVE  \A m \in 1 .. n : Marks(n, M)[m] = IF m \in M THEN 1 ELSE 0
  BY DEF Marks

\* The columns that rounding down left over: as many slices are favoured, and
\* each of them lost something.
LEMMA FavouredIs ==
  ASSUME segs \in Seq(Segment), width \in Nat, Sum > 0
  PROVE  /\ width - Total(Share) \in Nat /\ Total(Share) \in Nat
         /\ Favoured(width - Total(Share)) \subseteq DOMAIN segs
         /\ Cardinality(Favoured(width - Total(Share))) = width - Total(Share)
         /\ \A n \in Favoured(width - Total(Share)) : Remainder[n] > 0
<1> DEFINE N == Len(segs)
           T == Total(Share)
           c == width - T
           R == Total(Remainder)
           Pos == {n \in 1 .. N : Remainder[n] > 0}
           p == Cardinality(Pos)
           marks == Marks(N, Pos)
<1>0. segs \in Seq([bytes : Nat, index : Nat])
  BY DEF Segment
<1>1. /\ N \in Nat /\ DOMAIN segs = 1 .. N /\ Sum \in Nat /\ Sum > 0
      /\ Weights \in Seq(Nat) /\ Len(Weights) = N /\ \A n \in 1 .. N : Weights[n] \in Nat
  BY <1>0, WeightsType
<1>2. /\ Share \in Seq(Nat) /\ Len(Share) = N /\ Remainder \in Seq(Nat) /\ Len(Remainder) = N
      /\ \A n \in 1 .. N :
           /\ Share[n] \in Nat /\ Remainder[n] \in 0 .. Sum - 1
           /\ Weights[n] * width = Sum * Share[n] + Remainder[n]
  BY <1>0, <1>1, ShareType
<1>3. T \in Nat /\ R \in Nat
  BY <1>2, TotalType
<1>s. Share \in Seq(Int) /\ Remainder \in Seq(Int) /\ Weights \in Seq(Int)
  BY <1>1, <1>2
<1>p. Pos \subseteq 1 .. N
  OBVIOUS
<1>q. p \in Nat /\ p =< N /\ IsFiniteSet(Pos)
  <2>1. IsFiniteSet(1 .. N) /\ Cardinality(1 .. N) = N
    BY <1>1, FirstNumbers
  <2>2. Pos \in SUBSET (1 .. N)
    OBVIOUS
  <2> HIDE DEF Pos, N
  <2> QED
    BY <2>1, <2>2, FS_Subset, FS_CardinalityType
<1>m. /\ marks \in Seq(Int) /\ Len(marks) = N /\ Total(marks) = p
      /\ \A m \in 1 .. N : marks[m] = IF m \in Pos THEN 1 ELSE 0
  <2>1. N \in Nat /\ Pos \subseteq 1 .. N
    BY <1>1
  <2> HIDE DEF Pos, N
  <2>2. /\ Marks(N, Pos) \in Seq(Int) /\ Len(Marks(N, Pos)) = N
        /\ Total(Marks(N, Pos)) = Cardinality(Pos)
    BY <2>1, TotalMarks, Zenon
  <2>3. \A m \in 1 .. N : Marks(N, Pos)[m] = IF m \in Pos THEN 1 ELSE 0
    BY <2>1, MarksAre, Zenon
  <2> QED
    BY <2>2, <2>3
<1> DEFINE key == [n \in DOMAIN segs |-> -Remainder[n]]
           order == SortedBy([n \in DOMAIN segs |-> n], key)
<1>k. /\ KeysOf(key, N) /\ \A n \in 1 .. N : key[n] = -Remainder[n]
  BY <1>1, <1>2 DEF KeysOf
<1>o. /\ DOMAIN order = 1 .. N /\ \A r \in 1 .. N : order[r] = AtRank(key, r) /\ order[r] \in 1 .. N
      /\ Favoured(c) = {order[n] : n \in {m \in DOMAIN order : m =< c}}
  <2>1. Favoured(c) = {order[n] : n \in {m \in DOMAIN order : m =< c}}
    BY DEF Favoured
  <2>2. \A r \in 1 .. N : AtRank(key, r) \in 1 .. N
    <3> HIDE DEF key, N
    <3> QED
      BY <1>1, <1>k, AtRankInverse
  <2> HIDE DEF key, N, c
  <2>3. order = [r \in 1 .. N |-> [n \in 1 .. N |-> n][AtRank(key, r)]]
    BY <1>1 DEF SortedBy
  <2> QED
    BY <2>1, <2>2, <2>3
<1> HIDE DEF key, order, N, T, R, Pos, p, marks
<1>4. width * Sum = Sum * T + R
  <2> DEFINE U == [n \in 1 .. N |-> width * Weights[n]]
             S == [n \in 1 .. N |-> Sum * Share[n]]
  <2>0. \A x, y \in Nat : x * y \in Int
    OBVIOUS
  <2>1. U \in Seq(Int) /\ Len(U) = N /\ \A n \in 1 .. N : U[n] = width * Weights[n]
    <3>1. \A n \in 1 .. N : U[n] \in Int /\ U[n] = width * Weights[n]
      BY <1>1, <2>0
    <3>2. U = [m \in 1 .. N |-> U[m]]
      OBVIOUS
    <3> HIDE DEF U
    <3> QED
      BY <1>1, <3>1, <3>2, IsSequence
  <2>2. S \in Seq(Int) /\ Len(S) = N /\ \A n \in 1 .. N : S[n] = Sum * Share[n]
    <3>1. \A n \in 1 .. N : S[n] \in Int /\ S[n] = Sum * Share[n]
      BY <1>1, <1>2, <2>0
    <3>2. S = [m \in 1 .. N |-> S[m]]
      OBVIOUS
    <3> HIDE DEF S
    <3> QED
      BY <1>1, <3>1, <3>2, IsSequence
  <2> HIDE DEF U, S
  <2>3. Total(U) = width * Total(Weights)
    BY <1>1, <1>s, <2>1, TotalTimes, SMTT(30)
  <2>4. Total(S) = Sum * T
    <3>1. /\ Share \in Seq(Int) /\ S \in Seq(Int) /\ Sum \in Int /\ Len(Share) = Len(S)
          /\ \A n \in 1 .. Len(S) : S[n] = Sum * Share[n]
      BY <1>1, <1>2, <1>s, <2>2
    <3>2. Total(S) = Sum * Total(Share)
      BY <3>1, TotalTimes, Zenon
    <3> QED
      BY <3>2 DEF T
  <2>5. \A n \in 1 .. N : U[n] = S[n] + Remainder[n]
    <3> SUFFICES ASSUME NEW n \in 1 .. N PROVE U[n] = S[n] + Remainder[n]
      OBVIOUS
    <3>1. \A x, y \in Nat : x * y = y * x
      OBVIOUS
    <3>2. width * Weights[n] = Weights[n] * width
      BY <1>1, <3>1
    <3> QED
      BY <1>2, <2>1, <2>2, <3>2
  <2>6. Total(U) = Total(S) + R
    <3>1. /\ S \in Seq(Int) /\ Remainder \in Seq(Int) /\ U \in Seq(Int)
          /\ Len(S) = Len(U) /\ Len(Remainder) = Len(U)
          /\ \A n \in 1 .. Len(U) : U[n] = S[n] + Remainder[n]
      BY <1>2, <1>s, <2>1, <2>2, <2>5
    <3>2. Total(U) = Total(S) + Total(Remainder)
      BY <3>1, TotalPlus, Zenon
    <3> QED
      BY <3>2 DEF R
  <2> QED
    BY <2>3, <2>4, <2>6 DEF Sum
<1>5. R =< (Sum - 1) * p
  <2> DEFINE V == [n \in 1 .. N |-> (Sum - 1) * marks[n]]
  <2>1. \A n \in 1 .. N : V[n] = IF n \in Pos THEN Sum - 1 ELSE 0
    BY <1>1, <1>m
  <2>2. V \in Seq(Int) /\ Len(V) = N
    <3>1. \A n \in 1 .. N : V[n] \in Int
      BY <1>1, <2>1
    <3>2. V = [m \in 1 .. N |-> V[m]]
      OBVIOUS
    <3> HIDE DEF V
    <3> QED
      BY <1>1, <3>1, <3>2, IsSequence
  <2>3. \A n \in 1 .. N : V[n] = (Sum - 1) * marks[n]
    OBVIOUS
  <2> HIDE DEF V
  <2>4. \A n \in 1 .. N : Remainder[n] =< V[n]
    <3> SUFFICES ASSUME NEW n \in 1 .. N PROVE Remainder[n] =< V[n]
      OBVIOUS
    <3>1. Remainder[n] \in 0 .. Sum - 1 /\ V[n] = IF n \in Pos THEN Sum - 1 ELSE 0
      BY <1>2, <2>1
    <3>2. Remainder[n] > 0 => n \in Pos
      BY DEF Pos
    <3> QED
      BY <1>1, <3>1, <3>2
  <2>5. R =< Total(V)
    BY <1>2, <1>s, <2>2, <2>4, TotalAtMost DEF R
  <2>6. Total(V) = (Sum - 1) * p
    <3>1. Sum - 1 \in Int
      BY <1>1
    <3> QED
      BY <1>m, <2>2, <2>3, <3>1, TotalTimes
  <2> QED
    BY <2>5, <2>6
<1>6. c \in 0 .. p
  <2>1. \A x, y, z, r \in Int : x * y = y * z + r => y * (x - z) = r
    <3>1. \A x, y, z \in Int : y * (x - z) = y * x - y * z
      OBVIOUS
    <3>2. \A x, y \in Int : y * x = x * y
      OBVIOUS
    <3>3. \A x, y, z, r \in Int : x = z + r => x - z = r
      OBVIOUS
    <3>4. \A x, y \in Int : x * y \in Int
      OBVIOUS
    <3> TAKE x, y, z, r \in Int
    <3>5. y * (x - z) = x * y - y * z
      BY <3>1, <3>2
    <3> HAVE x * y = y * z + r
    <3>6. x * y \in Int /\ y * z \in Int
      BY <3>4
    <3> DEFINE a == x * y
               b == y * z
    <3> HIDE DEF a, b
    <3>7. a \in Int /\ b \in Int /\ a = b + r /\ y * (x - z) = a - b
      BY <3>5, <3>6 DEF a, b
    <3> QED
      BY <3>7
  <2>2. Sum * c = R
    BY <1>1, <1>3, <1>4, <2>1
  <2>3. c \in Int
    BY <1>3
  <2> HIDE DEF c
  <2>4. \A x \in Int, y \in Nat : y > 0 /\ x < 0 => y * x < 0
    OBVIOUS
  <2>5. c >= 0
    BY <1>1, <1>3, <2>2, <2>3, <2>4
  <2>6. (Sum - 1) * p =< Sum * p
    <3>1. \A x, y \in Nat : (x - 1) * y = x * y - y
      OBVIOUS
    <3>2. \A x, y \in Nat : x * y \in Nat
      OBVIOUS
    <3>3. (Sum - 1) * p = Sum * p - p /\ Sum * p \in Nat
      BY <1>1, <1>q, <3>1, <3>2
    <3> QED
      BY <1>q, <3>3
  <2>7. \A x, y, z \in Nat : y > z /\ x > 0 => x * y > x * z
    <3>1. \A x, y \in Nat : y > 0 /\ x > 0 => x * y > 0
      OBVIOUS
    <3>2. \A x, y, z \in Nat : x * (y - z) = x * y - x * z
      OBVIOUS
    <3>3. \A x, y \in Nat : x * y \in Nat
      OBVIOUS
    <3> TAKE x, y, z \in Nat
    <3> HAVE y > z /\ x > 0
    <3>4. x * (y - z) > 0
      BY <3>1
    <3>5. x * y \in Nat /\ x * z \in Nat /\ x * (y - z) = x * y - x * z
      BY <3>2, <3>3
    <3> DEFINE a == x * y
               b == x * z
    <3>6. a \in Nat /\ b \in Nat /\ a - b > 0
      BY <3>4, <3>5
    <3> HIDE DEF a, b
    <3>7. a > b
      BY <3>6
    <3> QED
      BY <3>7 DEF a, b
  <2>8. c =< p
    <3> SUFFICES ASSUME c > p PROVE FALSE
      BY <1>q, <2>3
    <3>1. Sum * c > Sum * p /\ Sum * c \in Int /\ Sum * p \in Int /\ (Sum - 1) * p \in Int
      BY <1>1, <1>3, <1>q, <2>2, <2>3, <2>5, <2>7
    <3> DEFINE a == Sum * c
               b == Sum * p
               d == (Sum - 1) * p
    <3>2. a > b /\ a \in Int /\ b \in Int /\ d \in Int /\ a =< d /\ d =< b
      BY <1>5, <2>2, <2>6, <3>1
    <3> HIDE DEF a, b, d
    <3> QED
      BY <3>2
  <2> QED
    BY <1>q, <2>3, <2>5, <2>8
<1> HIDE DEF c
<1>7. Favoured(c) = {order[r] : r \in 1 .. c}
  <2>1. {m \in DOMAIN order : m =< c} = 1 .. c
    BY <1>1, <1>6, <1>q, <1>o
  <2> QED
    BY <1>o, <2>1, Zenon
<1>8. \A r \in 1 .. c : r \in 1 .. N /\ order[r] = AtRank(key, r) /\ order[r] \in 1 .. N
  BY <1>1, <1>6, <1>q, <1>o
<1>9. Cardinality(Favoured(c)) = c
  <2> DEFINE f == [r \in 1 .. c |-> order[r]]
             F == Favoured(c)
  <2>1. \A r \in 1 .. c : Rank(key, order[r]) = r
    BY <1>1, <1>8, <1>k, AtRankInverse, SMTT(30)
  <2>2. \A q, r \in 1 .. c : order[q] = order[r] => q = r
    BY <2>1
  <2>3. f \in Surjection(1 .. c, F)
    BY <1>7 DEF Surjection
  <2>4. f \in Injection(1 .. c, F)
    BY <1>7, <2>2 DEF Injection, IsInjective
  <2>5. IsFiniteSet(1 .. c) /\ Cardinality(1 .. c) = c
    <3>1. c \in Nat
      BY <1>6, <1>q
    <3> QED
      BY <3>1, FirstNumbers
  <2> HIDE DEF f, F
  <2>6. Cardinality(F) = Cardinality(1 .. c)
    BY <2>3, <2>4, <2>5, FS_Surjection
  <2> QED
    BY <2>5, <2>6 DEF F
<1>10. ASSUME NEW r \in 1 .. c PROVE Remainder[order[r]] > 0
  <2> DEFINE n == order[r]
             before == {j \in DOMAIN key : NoLater(key, j, n)}
  <2>1. n \in 1 .. N /\ Rank(key, n) = r
    BY <1>1, <1>8, <1>k, AtRankInverse, SMTT(30)
  <2> HIDE DEF n
  <2>2. SUFFICES ASSUME ~(Remainder[n] > 0) PROVE FALSE
    BY DEF n
  <2>3. Remainder[n] = 0 /\ n \notin Pos
    BY <1>1, <1>2, <2>1, <2>2 DEF Pos
  <2>4. Pos \cup {n} \subseteq before
    <3>1. \A j \in Pos : j \in 1 .. N /\ key[j] < key[n]
      BY <1>1, <1>2, <1>k, <2>1, <2>3 DEF Pos
    <3>2. DOMAIN key = 1 .. N
      BY <1>k DEF KeysOf
    <3> QED
      BY <2>1, <3>1, <3>2 DEF NoLater
  <2>5. IsFiniteSet(before)
    <3>1. DOMAIN key = 1 .. N
      BY <1>k DEF KeysOf
    <3>2. IsFiniteSet(1 .. N)
      BY <1>1, FS_Interval
    <3>3. before \in SUBSET (1 .. N)
      BY <3>1
    <3> QED
      BY <3>2, <3>3, FS_Subset
  <2>6. Cardinality(before) = r
    BY <2>1 DEF Rank
  <2>7. Cardinality(Pos \cup {n}) = p + 1
    BY <1>q, <2>3, FS_AddElement DEF p
  <2> HIDE DEF before
  <2>8. Pos \cup {n} \in SUBSET before
    BY <2>4
  <2>9. Cardinality(Pos \cup {n}) =< Cardinality(before)
    BY <2>5, <2>8, FS_Subset
  <2> QED
    BY <1>6, <1>q, <2>6, <2>7, <2>9
<1>11. \A n \in Favoured(c) : n \in 1 .. N /\ Remainder[n] > 0
  BY <1>7, <1>8, <1>10
<1>12. c \in Nat
  BY <1>6, <1>q
<1>13. c = width - Total(Share)
  BY DEF c, T
<1> QED
  BY <1>1, <1>3, <1>9, <1>11, <1>12, <1>13 DEF T

\* What the widths of a bar satisfy: they add up, a slice without bytes has no
\* column, no slice is more than a column narrower than a lighter one, and the
\* slices before e that have bytes are seen when there are columns enough.
Positive == {n \in DOMAIN segs : Weights[n] > 0}
Filled(w) == Len(w) = Len(segs) /\ Total(w) = IF Sum = 0 THEN 0 ELSE width
Light(w) == \A n \in DOMAIN segs : Weights[n] = 0 => w[n] = 0
Fair(w) == \A m, n \in DOMAIN segs : Weights[m] >= Weights[n] => w[m] + 1 >= w[n]
Seen(w, e) == width >= Cardinality(Positive) =>
                \A n \in DOMAIN segs : n < e /\ Weights[n] > 0 => w[n] > 0

BarInv ==
  /\ stage \in {"borrow", "slots"} \/ Drawn => Filled(widths) /\ Light(widths) /\ Fair(widths)
  /\ stage = "borrow" => Sum > 0 /\ i =< Len(segs) + 1 /\ Seen(widths, i)
  /\ stage = "slots" \/ Drawn => Seen(widths, Len(segs) + 1)

\* The widths before any is lent.
Allocated == [n \in DOMAIN segs |->
                Share[n] + IF n \in Favoured(width - Total(Share)) THEN 1 ELSE 0]

LEMMA AllocateIs ==
  ASSUME segs \in Seq(Segment), width \in Nat, Sum > 0
  PROVE  Filled(Allocated) /\ Light(Allocated) /\ Fair(Allocated)
<1> DEFINE N == Len(segs)
           T == Total(Share)
           F == Favoured(width - T)
           marks == Marks(N, F)
           w == Allocated
<1>0. segs \in Seq([bytes : Nat, index : Nat])
  BY DEF Segment
<1>1. N \in Nat /\ DOMAIN segs = 1 .. N /\ Sum \in Nat /\ \A n \in 1 .. N : Weights[n] \in Nat
  BY <1>0, WeightsType
<1>2. /\ Share \in Seq(Nat) /\ Len(Share) = N
      /\ \A n \in 1 .. N :
           /\ Share[n] \in Nat /\ Weights[n] * width \in Nat
           /\ Share[n] = (Weights[n] * width) \div Sum
           /\ Remainder[n] = (Weights[n] * width) % Sum
  BY <1>0, <1>1, ShareType
<1>3. /\ width - T \in Nat /\ T \in Nat /\ F \subseteq 1 .. N /\ Cardinality(F) = width - T
      /\ \A n \in F : Remainder[n] > 0
  BY <1>1, FavouredIs
<1>4. \A n \in 1 .. N : w[n] = Share[n] + IF n \in F THEN 1 ELSE 0
  BY <1>1 DEF Allocated
<1>5. w = [m \in 1 .. N |-> w[m]]
  BY <1>1 DEF Allocated
<1> HIDE DEF N, T, F, marks, w
<1>6. \A n \in 1 .. N : w[n] \in Nat
  BY <1>2, <1>4
<1>7. w \in Seq(Nat) /\ Len(w) = N
  BY <1>1, <1>5, <1>6, IsSequence
<1>8. /\ marks \in Seq(Int) /\ Len(marks) = N /\ Total(marks) = Cardinality(F)
      /\ \A n \in 1 .. N : marks[n] = IF n \in F THEN 1 ELSE 0
  <2>1. /\ Marks(N, F) \in Seq(Int) /\ Len(Marks(N, F)) = N /\ Total(Marks(N, F)) = Cardinality(F)
    BY <1>1, <1>3, TotalMarks, Zenon
  <2>2. \A n \in 1 .. N : Marks(N, F)[n] = IF n \in F THEN 1 ELSE 0
    BY <1>1, MarksAre, Zenon
  <2> QED
    BY <2>1, <2>2 DEF marks
<1>9. Total(w) = width
  <2>1. /\ Share \in Seq(Int) /\ marks \in Seq(Int) /\ w \in Seq(Int)
        /\ Len(Share) = Len(w) /\ Len(marks) = Len(w)
        /\ \A n \in 1 .. Len(w) : w[n] = Share[n] + marks[n]
    <3>1. \A n \in 1 .. N : w[n] = Share[n] + marks[n]
      BY <1>4, <1>8
    <3>2. \A s \in Seq(Nat) : s \in Seq(Int)
      OBVIOUS
    <3>3. Share \in Seq(Int) /\ w \in Seq(Int)
      BY <1>2, <1>7, <3>2
    <3> QED
      BY <1>2, <1>7, <1>8, <3>1, <3>3
  <2>2. Total(w) = Total(Share) + Total(marks)
    BY <2>1, TotalPlus, Zenon
  <2>3. Total(Share) = T
    BY DEF T
  <2> QED
    BY <1>3, <1>8, <2>2, <2>3
<1>10. Filled(w)
  BY <1>1, <1>7, <1>9 DEF Filled, N
<1>11. Light(w)
  <2> SUFFICES ASSUME NEW n \in 1 .. N, Weights[n] = 0 PROVE w[n] = 0
    BY <1>1 DEF Light
  <2>1. Weights[n] * width = 0
    BY <2>1
  <2>2. Sum \in Nat \ {0} /\ 0 = Sum * 0 + 0 /\ 0 \in 0 .. Sum - 1
    BY <1>1
  <2>3. 0 \div Sum = 0 /\ 0 % Sum = 0
    BY <2>2, DivisionUnique
  <2>4. Share[n] = 0 /\ Remainder[n] = 0
    BY <1>2, <2>1, <2>3
  <2>5. n \notin F
    BY <1>3, <2>4
  <2> QED
    BY <1>4, <2>4, <2>5
<1>12. Fair(w)
  <2> SUFFICES ASSUME NEW m \in 1 .. N, NEW n \in 1 .. N, Weights[m] >= Weights[n]
               PROVE  w[m] + 1 >= w[n]
    BY <1>1 DEF Fair
  <2> DEFINE a == Weights[n] * width
             b == Weights[m] * width
  <2>1. a \in Nat /\ b \in Nat /\ Share[n] = a \div Sum /\ Share[m] = b \div Sum
    BY <1>2
  <2>2. a =< b
    <3>1. \A x, y, z \in Nat : (y - x) * z = y * z - x * z
      OBVIOUS
    <3>2. \A x, z \in Nat : x * z \in Nat
      OBVIOUS
    <3>3. (Weights[m] - Weights[n]) * width = b - a /\ Weights[m] - Weights[n] \in Nat
      BY <1>1, <3>1
    <3>4. (Weights[m] - Weights[n]) * width \in Nat
      BY <3>2, <3>3
    <3>5. b - a \in Nat
      BY <3>3, <3>4
    <3> HIDE DEF a, b
    <3> QED
      BY <2>1, <3>5
  <2> HIDE DEF a, b
  <2>3. a \div Sum =< b \div Sum
    <3>1. Sum \in Nat \ {0}
      BY <1>1
    <3> QED
      BY <2>1, <2>2, <3>1, DivisionMonotone
  <2>4. Share[n] =< Share[m] /\ Share[n] \in Nat /\ Share[m] \in Nat
    BY <1>2, <2>1, <2>3
  <2> QED
    BY <1>4, <2>4
<1> QED
  BY <1>10, <1>11, <1>12 DEF w

\* Lending moves a column and makes nothing unfair.
LEMMA LendKeeps ==
  ASSUME segs \in Seq(Segment), width \in Nat, widths \in Seq(Nat),
         Filled(widths), Light(widths), Fair(widths), Lenders # {},
         NEW to \in DOMAIN segs, Weights[to] > 0, widths[to] = 0
  PROVE  /\ Filled(Lend(Widest, to)) /\ Light(Lend(Widest, to)) /\ Fair(Lend(Widest, to))
         /\ Lend(Widest, to) \in Seq(Nat) /\ Lend(Widest, to)[to] > 0
         /\ \A n \in DOMAIN segs : widths[n] > 0 => Lend(Widest, to)[n] > 0
<1> DEFINE N == Len(segs)
           v == Widest
           w == Lend(v, to)
<1>0. segs \in Seq([bytes : Nat, index : Nat])
  BY DEF Segment
<1>1. N \in Nat /\ DOMAIN segs = 1 .. N /\ \A n \in 1 .. N : Weights[n] \in Nat
  BY <1>0, WeightsType
<1>2. Len(widths) = N /\ DOMAIN widths = 1 .. N /\ \A n \in 1 .. N : widths[n] \in Nat
  BY <1>1 DEF Filled
<1>3. v \in 1 .. N /\ widths[v] > 1 /\ \A n \in 1 .. N : widths[n] =< widths[v]
  BY <1>2, WidestIs
<1>4. v # to /\ to \in 1 .. N
  BY <1>1, <1>3
<1> HIDE DEF v
<1>5. /\ w \in Seq(Nat) /\ Len(w) = N
      /\ \A n \in 1 .. N : w[n] = IF n = v THEN widths[n] - 1
                                  ELSE IF n = to THEN widths[n] + 1 ELSE widths[n]
  <2>1. widths \in Seq(Nat) /\ v \in DOMAIN widths /\ v # to /\ widths[v] > 1
    BY <1>2, <1>3, <1>4
  <2> HIDE DEF w, N
  <2>2. /\ w \in Seq(Nat) /\ Len(w) = Len(widths)
        /\ \A n \in DOMAIN widths :
             w[n] = IF n = v THEN widths[n] - 1
                    ELSE IF n = to THEN widths[n] + 1 ELSE widths[n]
    BY <2>1, LendIs, SMTT(30) DEF w
  <2> QED
    BY <1>2, <2>2
<1> HIDE DEF w, N
<1>6. Total(w) = Total(widths)
  <2> DEFINE a == Marks(N, {v})
             b == Marks(N, {to})
             u == [n \in 1 .. N |-> w[n] + a[n]]
  <2>1. /\ a \in Seq(Int) /\ Len(a) = N /\ Total(a) = 1
        /\ \A n \in 1 .. N : a[n] = IF n = v THEN 1 ELSE 0
    <3>1. {v} \subseteq 1 .. N /\ Cardinality({v}) = 1
      BY <1>3, FS_Singleton
    <3>2. a \in Seq(Int) /\ Len(a) = N /\ Total(a) = Cardinality({v})
      BY <1>1, <3>1, TotalMarks, Zenon
    <3>3. \A n \in 1 .. N : a[n] = IF n \in {v} THEN 1 ELSE 0
      BY <1>1, MarksAre, Zenon
    <3> HIDE DEF a
    <3> QED
      BY <3>1, <3>2, <3>3
  <2>2. /\ b \in Seq(Int) /\ Len(b) = N /\ Total(b) = 1
        /\ \A n \in 1 .. N : b[n] = IF n = to THEN 1 ELSE 0
    <3>1. {to} \subseteq 1 .. N /\ Cardinality({to}) = 1
      BY <1>4, FS_Singleton
    <3>2. b \in Seq(Int) /\ Len(b) = N /\ Total(b) = Cardinality({to})
      BY <1>1, <3>1, TotalMarks, Zenon
    <3>3. \A n \in 1 .. N : b[n] = IF n \in {to} THEN 1 ELSE 0
      BY <1>1, MarksAre, Zenon
    <3> HIDE DEF b
    <3> QED
      BY <3>1, <3>2, <3>3
  <2> HIDE DEF a, b
  <2>3. \A n \in 1 .. N : w[n] \in Nat
    BY <1>5
  <2>4. u \in Seq(Int) /\ Len(u) = N /\ \A n \in 1 .. N : u[n] = w[n] + a[n]
    <3>1. \A n \in 1 .. N : u[n] \in Int /\ u[n] = w[n] + a[n]
      BY <2>1, <2>3
    <3>2. u = [m \in 1 .. N |-> u[m]]
      OBVIOUS
    <3> HIDE DEF u
    <3> QED
      BY <1>1, <3>1, <3>2, IsSequence
  <2> HIDE DEF u
  <2>5. Total(u) = Total(w) + Total(a)
    <3>1. /\ w \in Seq(Int) /\ a \in Seq(Int) /\ u \in Seq(Int) /\ Len(w) = Len(u)
          /\ Len(a) = Len(u) /\ \A n \in 1 .. Len(u) : u[n] = w[n] + a[n]
      BY <1>5, <2>1, <2>4
    <3> QED
      BY <3>1, TotalPlus, Zenon
  <2>6. Total(u) = Total(widths) + Total(b)
    <3>1. \A n \in 1 .. N : u[n] = widths[n] + b[n]
      <4> SUFFICES ASSUME NEW n \in 1 .. N PROVE u[n] = widths[n] + b[n]
        OBVIOUS
      <4>1. /\ w[n] = IF n = v THEN widths[n] - 1
                      ELSE IF n = to THEN widths[n] + 1 ELSE widths[n]
            /\ a[n] = (IF n = v THEN 1 ELSE 0) /\ b[n] = (IF n = to THEN 1 ELSE 0)
            /\ u[n] = w[n] + a[n] /\ widths[n] \in Nat
        BY <1>2, <1>5, <2>1, <2>2, <2>4
      <4> QED
        BY <1>4, <4>1
    <3>2. /\ widths \in Seq(Int) /\ b \in Seq(Int) /\ u \in Seq(Int) /\ Len(widths) = Len(u)
          /\ Len(b) = Len(u) /\ \A n \in 1 .. Len(u) : u[n] = widths[n] + b[n]
      BY <1>2, <2>2, <2>4, <3>1
    <3> QED
      BY <3>2, TotalPlus, Zenon
  <2>7. Total(w) \in Nat /\ Total(widths) \in Nat
    BY <1>5, TotalType
  <2> QED
    BY <2>1, <2>2, <2>5, <2>6, <2>7
<1>7. Filled(w)
  BY <1>5, <1>6 DEF Filled, N
<1>8. Light(w)
  <2> SUFFICES ASSUME NEW n \in 1 .. N, Weights[n] = 0 PROVE w[n] = 0
    BY <1>1 DEF Light
  <2>1. widths[n] = 0
    BY <1>1 DEF Light
  <2>2. n # v /\ n # to
    BY <1>3, <2>1
  <2> QED
    BY <1>5, <2>1, <2>2
<1>9. Fair(w)
  <2> SUFFICES ASSUME NEW m \in 1 .. N, NEW n \in 1 .. N, Weights[m] >= Weights[n]
               PROVE  w[m] + 1 >= w[n]
    BY <1>1 DEF Fair
  <2>1. widths[m] + 1 >= widths[n]
    BY <1>1 DEF Fair
  <2>2. /\ widths[m] \in Nat /\ widths[n] \in Nat /\ widths[v] \in Nat
        /\ widths[m] =< widths[v] /\ widths[n] =< widths[v]
    BY <1>2, <1>3
  <2>3. /\ w[m] = IF m = v THEN widths[m] - 1 ELSE IF m = to THEN widths[m] + 1 ELSE widths[m]
        /\ w[n] = IF n = v THEN widths[n] - 1 ELSE IF n = to THEN widths[n] + 1 ELSE widths[n]
    BY <1>5
  <2>4. CASE n = to
    BY <1>3, <1>4, <2>2, <2>3, <2>4
  <2>5. CASE n # to /\ m = v
    BY <1>3, <1>4, <2>1, <2>2, <2>3, <2>5
  <2>6. CASE n # to /\ m # v
    BY <2>1, <2>2, <2>3, <2>6, SMTT(30)
  <2> QED
    BY <2>4, <2>5, <2>6
<1>10. \A n \in 1 .. N : widths[n] > 0 => w[n] > 0
  <2> SUFFICES ASSUME NEW n \in 1 .. N, widths[n] > 0 PROVE w[n] > 0
    OBVIOUS
  <2>1. /\ w[n] = IF n = v THEN widths[n] - 1 ELSE IF n = to THEN widths[n] + 1 ELSE widths[n]
        /\ widths[n] \in Nat
    BY <1>2, <1>5
  <2>2. n = v => widths[n] > 1
    BY <1>3
  <2> QED
    BY <2>1, <2>2
<1>11. w[to] > 0
  BY <1>4, <1>5
<1> QED
  BY <1>1, <1>5, <1>7, <1>8, <1>9, <1>10, <1>11 DEF w, v

\* When there are columns enough, a slice that needs one finds a lender.
LEMMA LenderExists ==
  ASSUME segs \in Seq(Segment), width \in Nat, widths \in Seq(Nat), Sum > 0,
         Filled(widths), Light(widths), width >= Cardinality(Positive),
         NEW to \in DOMAIN segs, Weights[to] > 0, widths[to] = 0
  PROVE  Lenders # {}
<1> DEFINE N == Len(segs)
           M == Positive \ {to}
           marks == Marks(N, M)
<1>0. segs \in Seq([bytes : Nat, index : Nat])
  BY DEF Segment
<1>1. N \in Nat /\ DOMAIN segs = 1 .. N /\ \A n \in 1 .. N : Weights[n] \in Nat
  BY <1>0, WeightsType
<1>2. Len(widths) = N /\ DOMAIN widths = 1 .. N /\ \A n \in 1 .. N : widths[n] \in Nat
  BY <1>1 DEF Filled
<1>3. Total(widths) = width
  BY DEF Filled
<1> HIDE DEF N
<1>4. SUFFICES ASSUME Lenders = {} PROVE FALSE
  OBVIOUS
<1>5. Positive \subseteq 1 .. N /\ M \subseteq 1 .. N
  BY <1>1 DEF Positive
<1>6. IsFiniteSet(Positive)
  <2>1. IsFiniteSet(1 .. N)
    BY <1>1, FirstNumbers
  <2>2. Positive \in SUBSET (1 .. N)
    BY <1>5
  <2> QED
    BY <2>1, <2>2, FS_Subset
<1>7. Cardinality(M) = Cardinality(Positive) - 1 /\ Cardinality(Positive) \in Nat
  <2>1. to \in Positive
    BY DEF Positive
  <2> QED
    BY <1>6, <2>1, FS_RemoveElement, FS_CardinalityType
<1> HIDE DEF M
<1>8. /\ marks \in Seq(Int) /\ Len(marks) = N /\ Total(marks) = Cardinality(M)
      /\ \A n \in 1 .. N : marks[n] = IF n \in M THEN 1 ELSE 0
  <2>1. marks \in Seq(Int) /\ Len(marks) = N /\ Total(marks) = Cardinality(M)
    BY <1>1, <1>5, TotalMarks, Zenon
  <2>2. \A n \in 1 .. N : marks[n] = IF n \in M THEN 1 ELSE 0
    BY <1>1, MarksAre, SMTT(30)
  <2> QED
    BY <2>1, <2>2
<1> HIDE DEF marks
<1>9. \A n \in 1 .. N : widths[n] =< marks[n]
  <2> SUFFICES ASSUME NEW n \in 1 .. N PROVE widths[n] =< marks[n]
    OBVIOUS
  <2>1. widths[n] \in Nat /\ widths[n] =< 1
    BY <1>2, <1>4 DEF Lenders
  <2>2. CASE n \in M
    BY <1>8, <2>1, <2>2
  <2>3. CASE n \notin M
    <3>1. n = to \/ Weights[n] = 0
      BY <1>1, <2>3 DEF M, Positive
    <3>2. widths[n] = 0
      BY <1>1, <3>1 DEF Light
    <3> QED
      BY <1>8, <2>3, <3>2
  <2> QED
    BY <2>2, <2>3
<1>10. Total(widths) =< Total(marks)
  <2>1. /\ widths \in Seq(Int) /\ marks \in Seq(Int) /\ Len(widths) = Len(marks)
        /\ \A n \in 1 .. Len(marks) : widths[n] =< marks[n]
    BY <1>2, <1>8, <1>9
  <2> QED
    BY <2>1, TotalAtMost, Zenon
<1> QED
  BY <1>3, <1>7, <1>8, <1>10

LEMMA BarInit == Init => BarInv
  BY DEF Init, BarInv, Drawn

\* What the bar's properties are about while its slices stay.
LEMMA SameSlices ==
  ASSUME UNCHANGED <<listing, segs>>
  PROVE  /\ DOMAIN segs' = DOMAIN segs /\ Weights' = Weights /\ Sum' = Sum /\ width' = width
         /\ Positive' = Positive /\ HasBar' = HasBar /\ Len(segs)' = Len(segs)
         /\ \A w, e : /\ Filled(w)' = Filled(w) /\ Light(w)' = Light(w)
                      /\ Fair(w)' = Fair(w) /\ Seen(w, e)' = Seen(w, e)
<1>1. segs' = segs /\ width' = width /\ HasBar' = HasBar
  BY SameDisk
<1>2. Weights' = Weights /\ DOMAIN segs' = DOMAIN segs
  BY <1>1 DEF Weights
<1>3. Sum' = Sum
  BY <1>2 DEF Sum
<1>4. Positive' = Positive
  BY <1>1, <1>2 DEF Positive
<1>5. \A w, e : /\ Filled(w)' = Filled(w) /\ Light(w)' = Light(w)
                /\ Fair(w)' = Fair(w) /\ Seen(w, e)' = Seen(w, e)
  BY <1>1, <1>2, <1>3, <1>4 DEF Filled, Light, Fair, Seen
<1> QED
  BY <1>1, <1>2, <1>3, <1>4, <1>5

\* The bar without columns.
LEMMA NoneIs ==
  ASSUME segs \in Seq(Segment), width \in Nat, width = 0 \/ Sum = 0, NEW w,
         w = [n \in DOMAIN segs |-> 0]
  PROVE  Filled(w) /\ Light(w) /\ Fair(w) /\ \A e : Seen(w, e)
<1> DEFINE N == Len(segs)
<1>0. segs \in Seq([bytes : Nat, index : Nat])
  BY DEF Segment
<1>1. /\ N \in Nat /\ DOMAIN segs = 1 .. N /\ Sum \in Nat
      /\ Weights \in Seq(Nat) /\ Len(Weights) = N
      /\ \A n \in 1 .. N : Weights[n] \in Nat
  BY <1>0, WeightsType
<1>2. \A n \in 1 .. N : w[n] = 0
  BY <1>1
<1>3. w \in Seq(Int) /\ Len(w) = N
  BY <1>1
<1> HIDE DEF N
<1>4. Total(w) = 0
  <2>1. \A n \in 1 .. Len(w) : w[n] = 0 * w[n]
    BY <1>2, <1>3
  <2>2. /\ w \in Seq(Int) /\ 0 \in Int /\ Len(w) = Len(w)
    BY <1>3
  <2>3. Total(w) = 0 * Total(w)
    BY <2>1, <2>2, TotalTimes, Zenon
  <2>4. Total(w) \in Int
    <3>1. w \in Seq(Nat)
      BY <1>1, <1>2, <1>3
    <3> QED
      BY <3>1, TotalType
  <2> QED
    BY <2>3, <2>4
<1>5. Filled(w)
  BY <1>3, <1>4 DEF Filled, N
<1>6. Light(w) /\ Fair(w)
  BY <1>1, <1>2 DEF Light, Fair
<1>7. ASSUME NEW e PROVE Seen(w, e)
  <2> SUFFICES ASSUME width >= Cardinality(Positive), NEW n \in 1 .. N, Weights[n] > 0
               PROVE  FALSE
    BY <1>1 DEF Seen
  <2>1. CASE Sum = 0
    <3>1. Weights[n] =< Total(Weights)
      BY <1>1, SumPositive
    <3> QED
      BY <1>1, <2>1, <3>1 DEF Sum
  <2>2. CASE width = 0
    <3>1. n \in Positive
      BY <1>1 DEF Positive
    <3>2. IsFiniteSet(Positive)
      <4>1. IsFiniteSet(1 .. N) /\ Positive \in SUBSET (1 .. N)
        BY <1>1, FirstNumbers DEF Positive
      <4> QED
        BY <4>1, FS_Subset
    <3>3. Cardinality(Positive) \in Nat /\ Cardinality(Positive) # 0
      BY <3>1, <3>2, FS_EmptySet, FS_CardinalityType
    <3> QED
      BY <2>2, <3>3
  <2> QED
    BY <2>1, <2>2
<1> QED
  BY <1>5, <1>6, <1>7

LEMMA BarNext == TypeInv /\ TypeInv' /\ BarInv /\ [Next]_vars => BarInv'
<1> SUFFICES ASSUME TypeInv, TypeInv', BarInv, [Next]_vars PROVE BarInv'
  OBVIOUS
<1>0. /\ i \in Nat \ {0} /\ width \in Nat /\ segs \in Seq(Segment) /\ widths \in Seq(Nat)
      /\ Len(segs) \in Nat /\ DOMAIN segs = 1 .. Len(segs) /\ Sum \in Nat
      /\ \A n \in DOMAIN segs : Weights[n] \in Nat
  <2>1. segs \in Seq([bytes : Nat, index : Nat])
    BY DEF TypeInv, TypeOK
  <2> QED
    BY <2>1, WeightsType DEF TypeInv, TypeOK, Segment
<1>1. CASE ListPlain
  <2>1. stage' = "drawn" /\ ~HasBar /\ UNCHANGED listing
    BY <1>1 DEF ListPlain, HasBar
  <2>2. ~HasBar'
    BY <2>1, SameDisk
  <2> QED
    BY <2>1, <2>2 DEF BarInv, Drawn
<1>2. ASSUME StartBar \/ AddSegment \/ EndSegments \/ NextDisk
      PROVE  BarInv'
  <2>1. stage' \in {"disk", "segments", "widths"}
    BY <1>2 DEF StartBar, AddSegment, EndSegments, NextDisk
  <2> QED
    BY <2>1 DEF BarInv, Drawn
<1>3. CASE NoWidths
  <2>2. widths' = [n \in DOMAIN segs |-> 0] /\ stage' = "slots" /\ UNCHANGED <<listing, segs>>
        /\ (width = 0 \/ Sum = 0)
    BY <1>3 DEF NoWidths
  <2>3. /\ Filled(widths') /\ Light(widths') /\ Fair(widths')
        /\ \A e : Seen(widths', e)
    BY <1>0, <2>2, NoneIs
  <2>4. Filled(widths)' /\ Light(widths)' /\ Fair(widths)' /\ Seen(widths, Len(segs) + 1)'
    <3>1. /\ DOMAIN segs' = DOMAIN segs /\ Weights' = Weights /\ Sum' = Sum /\ width' = width
          /\ Positive' = Positive /\ Len(segs') = Len(segs)
      BY <2>2, SameSlices
    <3> QED
      BY <2>3, <3>1 DEF Filled, Light, Fair, Seen
  <2> QED
    BY <2>2, <2>4 DEF BarInv
<1>4. CASE Allocate
  <2>1. /\ widths' = Allocated /\ stage' = "borrow" /\ i' = 1 /\ UNCHANGED <<listing, segs>>
        /\ Sum > 0
    BY <1>4 DEF Allocate, Allocated
  <2>2. Filled(widths') /\ Light(widths') /\ Fair(widths')
    BY <1>0, <2>1, AllocateIs
  <2>3. /\ DOMAIN segs' = DOMAIN segs /\ Weights' = Weights /\ Sum' = Sum /\ width' = width
        /\ Positive' = Positive /\ Len(segs') = Len(segs)
    BY <2>1, SameSlices
  <2>4. Filled(widths)' /\ Light(widths)' /\ Fair(widths)'
    BY <2>2, <2>3 DEF Filled, Light, Fair
  <2>5. Seen(widths, i)'
    <3>1. \A n \in DOMAIN segs' : ~(n < i')
      BY <1>0, <2>1, <2>3
    <3> QED
      BY <3>1 DEF Seen
  <2>6. i' =< Len(segs') + 1
    BY <1>0, <2>1, <2>3
  <2> QED
    BY <2>1, <2>3, <2>4, <2>5, <2>6 DEF BarInv, Drawn
<1>5. CASE Borrow
  <2>1. /\ stage = "borrow" /\ stage' = "borrow" /\ i =< Len(segs) /\ i' = i + 1
        /\ UNCHANGED <<listing, segs>>
        /\ widths' = IF Weights[i] > 0 /\ widths[i] = 0 /\ Lenders # {}
                       THEN Lend(Widest, i) ELSE widths
    BY <1>5 DEF Borrow
  <2>2. Filled(widths) /\ Light(widths) /\ Fair(widths) /\ Sum > 0 /\ Seen(widths, i)
    BY <2>1 DEF BarInv
  <2>3. i \in DOMAIN segs
    BY <1>0, <2>1
  <2>4. Filled(widths') /\ Light(widths') /\ Fair(widths') /\ Seen(widths', i + 1)
    <3>1. CASE Weights[i] > 0 /\ widths[i] = 0 /\ Lenders # {}
      <4>1. widths' = Lend(Widest, i)
        BY <2>1, <3>1
      <4>2. /\ Filled(widths') /\ Light(widths') /\ Fair(widths') /\ widths'[i] > 0
            /\ \A n \in DOMAIN segs : widths[n] > 0 => widths'[n] > 0
        BY <1>0, <2>2, <2>3, <3>1, <4>1, LendKeeps
      <4>3. Seen(widths', i + 1)
        <5>1. \A n \in DOMAIN segs : n < i + 1 => n < i \/ n = i
          BY <1>0
        <5> QED
          BY <2>2, <4>2, <5>1 DEF Seen
      <4> QED
        BY <4>2, <4>3
    <3>2. CASE ~(Weights[i] > 0 /\ widths[i] = 0 /\ Lenders # {})
      <4>1. widths' = widths
        BY <2>1, <3>2
      <4>2. Seen(widths, i + 1)
        <5> SUFFICES ASSUME width >= Cardinality(Positive), NEW n \in DOMAIN segs, n < i + 1,
                            Weights[n] > 0
                     PROVE  widths[n] > 0
          BY DEF Seen
        <5>1. CASE n < i
          BY <2>2, <5>1 DEF Seen
        <5>2. CASE n = i
          <6>1. widths[i] \in Nat
            BY <1>0, <2>2, <2>3 DEF Filled
          <6>2. widths[i] # 0
            BY <1>0, <2>2, <2>3, <3>2, <5>2, LenderExists
          <6> QED
            BY <5>2, <6>1, <6>2
        <5> QED
          BY <1>0, <5>1, <5>2
      <4> QED
        BY <2>2, <4>1, <4>2
    <3> QED
      BY <3>1, <3>2
  <2>5. /\ DOMAIN segs' = DOMAIN segs /\ Weights' = Weights /\ Sum' = Sum /\ width' = width
        /\ Positive' = Positive /\ Len(segs') = Len(segs)
    BY <2>1, SameSlices
  <2>6. Filled(widths)' /\ Light(widths)' /\ Fair(widths)' /\ Seen(widths, i)'
    BY <2>1, <2>4, <2>5 DEF Filled, Light, Fair, Seen
  <2>7. i' =< Len(segs') + 1 /\ Sum' > 0
    BY <1>0, <2>1, <2>2, <2>5
  <2> QED
    BY <2>1, <2>6, <2>7 DEF BarInv, Drawn
<1>6. CASE EndBorrow
  <2>1. /\ stage = "borrow" /\ stage' = "slots" /\ i > Len(segs) /\ widths' = widths
        /\ UNCHANGED <<listing, segs>>
    BY <1>6 DEF EndBorrow
  <2>2. /\ Filled(widths) /\ Light(widths) /\ Fair(widths) /\ Seen(widths, i)
        /\ i = Len(segs) + 1
    BY <1>0, <2>1 DEF BarInv
  <2>3. /\ DOMAIN segs' = DOMAIN segs /\ Weights' = Weights /\ Sum' = Sum /\ width' = width
        /\ Positive' = Positive /\ Len(segs') = Len(segs)
    BY <2>1, SameSlices
  <2>4. /\ Filled(widths)' /\ Light(widths)' /\ Fair(widths)'
        /\ Seen(widths, Len(segs) + 1)'
    BY <2>1, <2>2, <2>3 DEF Filled, Light, Fair, Seen
  <2> QED
    BY <2>1, <2>4 DEF BarInv
<1>7. ASSUME PickSlot \/ EndBar
      PROVE  BarInv'
  <2>1. /\ stage = "slots" /\ stage' \in {"slots", "drawn"} /\ widths' = widths
        /\ UNCHANGED <<listing, segs>>
    BY <1>7 DEF PickSlot, EndBar, bar
  <2>2. Filled(widths) /\ Light(widths) /\ Fair(widths) /\ Seen(widths, Len(segs) + 1)
    BY <2>1 DEF BarInv
  <2>3. /\ DOMAIN segs' = DOMAIN segs /\ Weights' = Weights /\ Sum' = Sum /\ width' = width
        /\ Positive' = Positive /\ Len(segs') = Len(segs)
    BY <2>1, SameSlices
  <2>4. /\ Filled(widths)' /\ Light(widths)' /\ Fair(widths)'
        /\ Seen(widths, Len(segs) + 1)'
    BY <2>1, <2>2, <2>3 DEF Filled, Light, Fair, Seen
  <2> QED
    BY <2>1, <2>4 DEF BarInv
<1>8. CASE UNCHANGED vars
  <2>1. UNCHANGED <<listing, segs>> /\ stage' = stage /\ widths' = widths /\ i' = i
    BY <1>8 DEF vars, bar
  <2>2. /\ DOMAIN segs' = DOMAIN segs /\ Weights' = Weights /\ Sum' = Sum /\ width' = width
        /\ Positive' = Positive /\ Len(segs') = Len(segs) /\ HasBar' = HasBar
    BY <2>1, SameSlices
  <2>3. /\ Filled(widths)' = Filled(widths) /\ Light(widths)' = Light(widths)
        /\ Fair(widths)' = Fair(widths) /\ Seen(widths, i)' = Seen(widths, i)
        /\ Seen(widths, Len(segs) + 1)' = Seen(widths, Len(segs) + 1) /\ Drawn' = Drawn
    BY <2>1, <2>2 DEF Filled, Light, Fair, Seen, Drawn
  <2> QED
    BY <2>1, <2>2, <2>3 DEF BarInv
<1> QED
  BY <1>1, <1>2, <1>3, <1>4, <1>5, <1>6, <1>7, <1>8 DEF Next

LEMMA BarsHold == Spec => [](TypeInv /\ BarInv)
<1>1. TypeInv /\ BarInv /\ [Next]_vars => (TypeInv /\ BarInv)'
  BY TypeNext, BarNext
<1> QED
  BY <1>1, TypeInit, BarInit, PTL DEF Spec

\* A bar is exactly as wide as asked for, however its slices round and whatever
\* is lent (bar.rs:94-140).
THEOREM BarsFilled == Spec => []BarFilled
<1>1. TypeInv /\ BarInv => BarFilled
  BY DEF BarInv, BarFilled, Filled
<1> QED
  BY <1>1, BarsHold, PTL

\* Every slice with bytes is seen when there are columns enough, and none
\* without (bar.rs:96-97, 128-137).
THEOREM EverySliceSeenAlways == Spec => []EverySliceSeen
<1>1. TypeInv /\ BarInv => EverySliceSeen
  <2> SUFFICES ASSUME TypeInv, BarInv, Drawn
               PROVE  /\ \A n \in DOMAIN segs : Weights[n] = 0 => widths[n] = 0
                      /\ width >= Cardinality(Positive) =>
                           \A n \in DOMAIN segs : Weights[n] > 0 => widths[n] > 0
    BY DEF EverySliceSeen, Positive
  <2>1. Light(widths) /\ Seen(widths, Len(segs) + 1)
    BY DEF BarInv
  <2>2. Len(segs) \in Nat /\ DOMAIN segs = 1 .. Len(segs)
    BY DEF TypeInv, TypeOK
  <2>3. \A n \in DOMAIN segs : n < Len(segs) + 1
    BY <2>2
  <2> QED
    BY <2>1, <2>3 DEF Light, Seen
<1> QED
  BY <1>1, BarsHold, PTL

\* Lending never draws a slice more than a column narrower than a lighter one
\* (bar.rs:128-137).
THEOREM LendingFairAlways == Spec => []LendingFair
<1>1. TypeInv /\ BarInv => LendingFair
  BY DEF BarInv, LendingFair, Fair
<1> QED
  BY <1>1, BarsHold, PTL

-----------------------------------------------------------------------------
(* The slices. *)

BytesOf(s) == [n \in DOMAIN s |-> s[n].bytes]
FreeOf(s) == [n \in DOMAIN s |-> IF s[n].index = Free THEN s[n].bytes ELSE 0]

\* Each partition's slice begins at the partition's offset.
Tiled(s) == \A n \in DOMAIN s :
              s[n].index # Free /\ s[n].bytes > 0 =>
                Sorted[s[n].index].start = Total(SubSeq(BytesOf(s), 1, n - 1))

LEMMA SlicesType ==
  ASSUME NEW s \in Seq(Segment)
  PROVE  /\ Len(s) \in Nat /\ DOMAIN s = 1 .. Len(s)
         /\ \A n \in DOMAIN s : s[n].bytes \in Nat /\ s[n].index \in Nat
         /\ BytesOf(s) \in Seq(Nat) /\ Len(BytesOf(s)) = Len(s)
         /\ FreeOf(s) \in Seq(Nat) /\ Len(FreeOf(s)) = Len(s)
         /\ \A n \in DOMAIN s : BytesOf(s)[n] = s[n].bytes
                                /\ FreeOf(s)[n] = IF s[n].index = Free THEN s[n].bytes ELSE 0
<1> DEFINE N == Len(s)
           a == BytesOf(s)
           f == FreeOf(s)
<1>1. N \in Nat /\ DOMAIN s = 1 .. N /\ \A n \in 1 .. N : s[n] \in Segment
  OBVIOUS
<1>2. \A n \in 1 .. N : s[n].bytes \in Nat /\ s[n].index \in Nat
  BY <1>1 DEF Segment
<1>3. /\ a = [n \in 1 .. N |-> a[n]] /\ f = [n \in 1 .. N |-> f[n]]
      /\ \A n \in 1 .. N : a[n] = s[n].bytes
                           /\ f[n] = IF s[n].index = Free THEN s[n].bytes ELSE 0
  BY <1>1 DEF BytesOf, FreeOf
<1> HIDE DEF N, a, f
<1>4. \A n \in 1 .. N : a[n] \in Nat /\ f[n] \in Nat
  BY <1>2, <1>3
<1>5. a \in Seq(Nat) /\ Len(a) = N /\ f \in Seq(Nat) /\ Len(f) = N
  BY <1>1, <1>3, <1>4, IsSequence
<1> QED
  BY <1>1, <1>2, <1>3, <1>5 DEF N, a, f

\* A slice more.
LEMMA SliceAdded ==
  ASSUME NEW s \in Seq(Segment), NEW x \in Segment
  PROVE  /\ Append(s, x) \in Seq(Segment)
         /\ Total(FreeOf(Append(s, x))) = Total(FreeOf(s)) + IF x.index = Free THEN x.bytes ELSE 0
         /\ Total(BytesOf(Append(s, x))) = Total(BytesOf(s)) + x.bytes
         /\ Tiled(s) /\ (x.index # Free /\ x.bytes > 0 =>
                           Sorted[x.index].start = Total(BytesOf(s))) => Tiled(Append(s, x))
<1> DEFINE t == Append(s, x)
           N == Len(s)
           y == IF x.index = Free THEN x.bytes ELSE 0
<1>1. x.bytes \in Nat /\ x.index \in Nat /\ y \in Nat
  BY DEF Segment
<1>2. /\ N \in Nat /\ DOMAIN s = 1 .. N /\ BytesOf(s) \in Seq(Nat) /\ FreeOf(s) \in Seq(Nat)
      /\ Len(BytesOf(s)) = N /\ Len(FreeOf(s)) = N
      /\ \A n \in 1 .. N : /\ BytesOf(s)[n] = s[n].bytes
                           /\ FreeOf(s)[n] = IF s[n].index = Free THEN s[n].bytes ELSE 0
  BY SlicesType
<1>3. /\ t \in Seq(Segment) /\ Len(t) = N + 1 /\ DOMAIN t = 1 .. N + 1
      /\ t[N + 1] = x /\ \A n \in 1 .. N : t[n] = s[n]
  OBVIOUS
<1> HIDE DEF t, N, y
<1>4. /\ BytesOf(t) \in Seq(Nat) /\ FreeOf(t) \in Seq(Nat)
      /\ Len(BytesOf(t)) = N + 1 /\ Len(FreeOf(t)) = N + 1
      /\ \A n \in 1 .. N + 1 : /\ BytesOf(t)[n] = t[n].bytes
                               /\ FreeOf(t)[n] = IF t[n].index = Free THEN t[n].bytes ELSE 0
  BY <1>3, SlicesType
<1>5. BytesOf(t) = Append(BytesOf(s), x.bytes)
  <2> DEFINE a == BytesOf(t)
             b == Append(BytesOf(s), x.bytes)
  <2>1. /\ b \in Seq(Nat) /\ Len(b) = N + 1 /\ b[N + 1] = x.bytes
        /\ \A n \in 1 .. N : b[n] = BytesOf(s)[n]
    BY <1>1, <1>2
  <2>2. a \in Seq(Nat) /\ Len(a) = N + 1 /\ a[N + 1] = x.bytes
        /\ \A n \in 1 .. N : a[n] = BytesOf(s)[n]
    <3>1. N + 1 \in 1 .. N + 1 /\ \A n \in 1 .. N : n \in 1 .. N + 1
      BY <1>2
    <3>2. a[N + 1] = x.bytes
      BY <1>3, <1>4, <3>1
    <3>3. \A n \in 1 .. N : a[n] = BytesOf(s)[n]
      BY <1>2, <1>3, <1>4, <3>1
    <3> QED
      BY <1>4, <3>2, <3>3
  <2> HIDE DEF a, b
  <2>3. \A n \in 1 .. N + 1 : a[n] = b[n]
    BY <1>2, <2>1, <2>2
  <2>4. a = b
    BY <1>2, <2>1, <2>2, <2>3
  <2> QED
    BY <2>4 DEF a, b
<1>6. FreeOf(t) = Append(FreeOf(s), y)
  <2> DEFINE a == FreeOf(t)
             b == Append(FreeOf(s), y)
  <2>1. /\ b \in Seq(Nat) /\ Len(b) = N + 1 /\ b[N + 1] = y
        /\ \A n \in 1 .. N : b[n] = FreeOf(s)[n]
    BY <1>1, <1>2
  <2>2. a \in Seq(Nat) /\ Len(a) = N + 1 /\ a[N + 1] = y
        /\ \A n \in 1 .. N : a[n] = FreeOf(s)[n]
    <3>1. N + 1 \in 1 .. N + 1 /\ \A n \in 1 .. N : n \in 1 .. N + 1
      BY <1>2
    <3>2. a[N + 1] = y
      BY <1>3, <1>4, <3>1 DEF y
    <3>3. \A n \in 1 .. N : a[n] = FreeOf(s)[n]
      BY <1>2, <1>3, <1>4, <3>1
    <3> QED
      BY <1>4, <3>2, <3>3
  <2> HIDE DEF a, b
  <2>3. \A n \in 1 .. N + 1 : a[n] = b[n]
    BY <1>2, <2>1, <2>2
  <2>4. a = b
    BY <1>2, <2>1, <2>2, <2>3
  <2> QED
    BY <2>4 DEF a, b
<1>7. Total(BytesOf(t)) = Total(BytesOf(s)) + x.bytes
  <2>1. BytesOf(s) \in Seq(Int) /\ x.bytes \in Int
    BY <1>1, <1>2
  <2> QED
    BY <1>5, <2>1, TotalAppend
<1>8. Total(FreeOf(t)) = Total(FreeOf(s)) + y
  <2>1. FreeOf(s) \in Seq(Int) /\ y \in Int
    BY <1>1, <1>2
  <2> QED
    BY <1>6, <2>1, TotalAppend
<1>9. ASSUME Tiled(s), x.index # Free /\ x.bytes > 0 => Sorted[x.index].start = Total(BytesOf(s))
      PROVE  Tiled(t)
  <2> DEFINE a == BytesOf(s)
  <2>1. a \in Seq(Nat) /\ Len(a) = N
    BY <1>2
  <2> SUFFICES ASSUME NEW n \in 1 .. N + 1, t[n].index # Free, t[n].bytes > 0
               PROVE  Sorted[t[n].index].start = Total(SubSeq(BytesOf(t), 1, n - 1))
    BY <1>3 DEF Tiled
  <2>2. SubSeq(Append(a, x.bytes), 1, n - 1) = SubSeq(a, 1, n - 1)
    <3> HIDE DEF a
    <3> DEFINE u == SubSeq(Append(a, x.bytes), 1, n - 1)
               v == SubSeq(a, 1, n - 1)
    <3>1. n - 1 \in 0 .. N /\ Append(a, x.bytes) \in Seq(Nat) /\ Len(Append(a, x.bytes)) = N + 1
          /\ \A m \in 1 .. N : Append(a, x.bytes)[m] = a[m]
      BY <1>1, <1>2, <2>1
    <3>2. u \in Seq(Nat) /\ Len(u) = n - 1 /\ \A m \in 1 .. n - 1 : u[m] = a[m]
      BY <1>2, <3>1, SMTT(30)
    <3>3. v \in Seq(Nat) /\ Len(v) = n - 1 /\ \A m \in 1 .. n - 1 : v[m] = a[m]
      BY <1>2, <2>1, <3>1
    <3> HIDE DEF u, v
    <3>4. u = v
      BY <3>2, <3>3, SMTT(30)
    <3> QED
      BY <3>4 DEF u, v
  <2>3. CASE n = N + 1
    <3>1. SubSeq(a, 1, n - 1) = a
      <4> HIDE DEF a
      <4> QED
        BY <1>2, <2>1, <2>3
    <3> QED
      BY <1>3, <1>5, <1>9, <2>2, <2>3, <3>1
  <2>4. CASE n # N + 1
    <3>1. n \in 1 .. N /\ t[n] = s[n]
      BY <1>2, <1>3, <2>4
    <3>2. Sorted[s[n].index].start = Total(SubSeq(a, 1, n - 1))
      BY <1>2, <1>9, <3>1 DEF Tiled
    <3> QED
      BY <1>5, <2>2, <3>1, <3>2
  <2> QED
    BY <2>3, <2>4
<1> QED
  BY <1>3, <1>7, <1>8, <1>9 DEF t, y

LEMMA GapAdded ==
  ASSUME NEW s \in Seq(Segment), NEW gap \in Int
  PROVE  /\ s \o Gap(gap) \in Seq(Segment)
         /\ Total(FreeOf(s \o Gap(gap))) = Total(FreeOf(s)) + IF gap > 0 THEN gap ELSE 0
         /\ Total(BytesOf(s \o Gap(gap))) = Total(BytesOf(s)) + IF gap > 0 THEN gap ELSE 0
         /\ Tiled(s) => Tiled(s \o Gap(gap))
<1>0. Total(FreeOf(s)) \in Nat /\ Total(BytesOf(s)) \in Nat
  BY SlicesType, TotalType
<1>1. CASE gap > 0
  <2> DEFINE x == Slice(gap, Free)
  <2>1. x \in Segment /\ x.index = Free /\ x.bytes = gap
    BY <1>1 DEF Slice, Free, Segment
  <2>2. Gap(gap) = <<x>>
    BY <1>1 DEF Gap
  <2> HIDE DEF x
  <2>3. s \o Gap(gap) = Append(s, x)
    BY <2>1, <2>2
  <2> QED
    BY <1>1, <2>1, <2>3, SliceAdded
<1>2. CASE ~(gap > 0)
  <2>1. s \o Gap(gap) = s
    BY <1>2 DEF Gap
  <2> QED
    BY <1>0, <1>2, <2>1
<1> QED
  BY <1>1, <1>2

\* The bytes below c that the partitions before the e-th do not cover.
EndsAt(p) == p.start + p.size
Unc(e, c) == {b \in 0 .. c - 1 : \A j \in 1 .. e - 1 : b \notin Bytes(Sorted[j])}
AllFree == {b \in 0 .. BarEnd - 1 : \A p \in Parts : b \notin Bytes(p)}

\* The cursor is at the end of what the partitions so far cover, and what they
\* leave free below it is before the start of the next one.
Covering ==
  /\ i =< Len(This.parts) + 1
  /\ \A j \in 1 .. i - 1 : EndsAt(Sorted[j]) =< cursor
  /\ cursor = 0 \/ \E j \in 1 .. i - 1 : cursor = EndsAt(Sorted[j])
  /\ \A b \in Unc(i, cursor) : i > 1 /\ b < Sorted[i - 1].start
  /\ Total(FreeOf(segs)) = Cardinality(Unc(i, cursor))
  /\ ~Overlap => Total(BytesOf(segs)) = cursor /\ Tiled(segs)

Tallied ==
  /\ Total(FreeOf(segs)) = Cardinality(AllFree)
  /\ ~Overlap => Tiled(segs)

SlicesInv ==
  /\ stage = "disk" => segs = <<>> /\ i = 1 /\ cursor = 0
  /\ stage = "segments" => Covering
  /\ stage \in {"widths", "borrow", "slots"} \/ Drawn => Tallied

LEMMA BytesBetween ==
  ASSUME NEW a \in Int, NEW b \in Int
  PROVE  /\ IsFiniteSet(a .. b - 1)
         /\ Cardinality(a .. b - 1) = IF b - a > 0 THEN b - a ELSE 0
<1> DEFINE z == b - 1
<1>1. z \in Int
  OBVIOUS
<1>2. IsFiniteSet(a .. z) /\ Cardinality(a .. z) = IF a > z THEN 0 ELSE z - a + 1
  <2> HIDE DEF z
  <2> QED
    BY <1>1, FS_Interval
<1>3. (IF a > z THEN 0 ELSE z - a + 1) = IF b - a > 0 THEN b - a ELSE 0
  OBVIOUS
<1> QED
  BY <1>2, <1>3

\* What one partition adds to what is covered.
LEMMA StepCovers ==
  ASSUME TypeInv, stage = "segments", Covering, i =< Len(This.parts),
         NEW p, p = Sorted[i], NEW c, c = Larger(cursor, EndsAt(p))
  PROVE  /\ c \in Nat /\ \A j \in 1 .. i : EndsAt(Sorted[j]) =< c
         /\ c = 0 \/ \E j \in 1 .. i : c = EndsAt(Sorted[j])
         /\ \A b \in Unc(i + 1, c) : b < p.start
         /\ Cardinality(Unc(i + 1, c)) =
              Cardinality(Unc(i, cursor)) + IF p.start - cursor > 0 THEN p.start - cursor ELSE 0
<1> DEFINE N == Len(This.parts)
           U == Unc(i, cursor)
           V == cursor .. p.start - 1
<1>1. /\ i \in Nat \ {0} /\ cursor \in Nat /\ i \in 1 .. N /\ N \in Nat
      /\ disks \in Seq(Disk) /\ k \in 1 .. Len(disks)
  BY ThisBar DEF TypeInv, TypeOK
<1>2. \A n \in 1 .. N : Sorted[n].start \in Nat /\ Sorted[n].size \in Nat
  BY ThisBar
<1>3. \A q, r \in 1 .. N : q < r => Sorted[q].start =< Sorted[r].start
  BY <1>1, SortedParts
<1>4. /\ \A j \in 1 .. i - 1 : EndsAt(Sorted[j]) =< cursor
      /\ cursor = 0 \/ \E j \in 1 .. i - 1 : cursor = EndsAt(Sorted[j])
      /\ \A b \in Unc(i, cursor) : i > 1 /\ b < Sorted[i - 1].start
  BY DEF Covering
<1> HIDE DEF N
<1>5. p.start \in Nat /\ p.size \in Nat /\ EndsAt(p) = p.start + p.size
  BY <1>1, <1>2 DEF EndsAt
<1>6. c \in Nat /\ c >= cursor /\ c >= EndsAt(p) /\ (c = cursor \/ c = EndsAt(p))
  BY <1>1, <1>5 DEF Larger
<1>7. \A j \in 1 .. i : j = i \/ j \in 1 .. i - 1
  BY <1>1
<1>8. \A j \in 1 .. i : EndsAt(Sorted[j]) =< c
  <2> SUFFICES ASSUME NEW j \in 1 .. i PROVE EndsAt(Sorted[j]) =< c
    OBVIOUS
  <2>1. j \in 1 .. N
    BY <1>1
  <2>2. EndsAt(Sorted[j]) \in Nat
    BY <1>2, <2>1 DEF EndsAt
  <2> QED
    BY <1>1, <1>4, <1>6, <1>7, <2>2
<1>9. c = 0 \/ \E j \in 1 .. i : c = EndsAt(Sorted[j])
  <2>1. i \in 1 .. i /\ \A j \in 1 .. i - 1 : j \in 1 .. i
    BY <1>1
  <2> QED
    BY <1>4, <1>6, <2>1
<1>10. \A b \in U : b \in Nat /\ b < cursor /\ b < p.start
  <2> SUFFICES ASSUME NEW b \in U PROVE b \in Nat /\ b < cursor /\ b < p.start
    OBVIOUS
  <2>1. b \in Nat /\ b < cursor
    BY <1>1 DEF Unc
  <2>2. i > 1 /\ b < Sorted[i - 1].start
    BY <1>4
  <2>3. i - 1 \in 1 .. N /\ i - 1 < i
    BY <1>1, <2>2
  <2>4. Sorted[i - 1].start =< p.start /\ Sorted[i - 1].start \in Nat
    BY <1>1, <1>2, <1>3, <2>3
  <2> QED
    BY <1>5, <2>1, <2>2, <2>4
<1>11. \A x : x \in Bytes(p) <=> x \in p.start .. p.start + p.size - 1
  BY DEF Bytes
<1>12. \A j \in 1 .. i - 1, x \in Int : x >= cursor => x \notin Bytes(Sorted[j])
  <2> SUFFICES ASSUME NEW j \in 1 .. i - 1, NEW x \in Int, x >= cursor, x \in Bytes(Sorted[j])
               PROVE  FALSE
    OBVIOUS
  <2>1. j \in 1 .. N
    BY <1>1
  <2>2. Sorted[j].start \in Nat /\ Sorted[j].size \in Nat /\ Sorted[j].start + Sorted[j].size =< cursor
    BY <1>2, <1>4, <2>1 DEF EndsAt
  <2>3. x =< Sorted[j].start + Sorted[j].size - 1
    BY <2>2 DEF Bytes
  <2> QED
    BY <1>1, <2>2, <2>3, SMTT(30)
<1>13. Unc(i + 1, c) = U \cup V
  <2>0. /\ \A b : b \in Unc(i + 1, c) <=>
                    b \in 0 .. c - 1 /\ \A j \in 1 .. i : b \notin Bytes(Sorted[j])
        /\ \A b : b \in U <=>
                    b \in 0 .. cursor - 1 /\ \A j \in 1 .. i - 1 : b \notin Bytes(Sorted[j])
    <3>1. (i + 1) - 1 = i
      BY <1>1
    <3> QED
      BY <3>1 DEF Unc
  <2> HIDE DEF U
  <2>1. ASSUME NEW b \in U PROVE b \in Unc(i + 1, c)
    <3>1. b \in 0 .. c - 1
      BY <1>1, <1>6, <1>10
    <3>2. b \notin Bytes(p)
      BY <1>5, <1>10, <1>11
    <3>3. \A j \in 1 .. i : b \notin Bytes(Sorted[j])
      BY <1>7, <2>0, <3>2
    <3> QED
      BY <2>0, <3>1, <3>3
  <2>2. ASSUME NEW b \in V PROVE b \in Unc(i + 1, c)
    <3>1. b \in Int /\ b >= cursor /\ b < p.start
      BY <1>1, <1>5
    <3>2. b \in 0 .. c - 1
      BY <1>1, <1>5, <1>6, <3>1
    <3>3. b \notin Bytes(p)
      BY <1>5, <1>11, <3>1
    <3>4. \A j \in 1 .. i : b \notin Bytes(Sorted[j])
      BY <1>7, <1>12, <3>1, <3>3
    <3> QED
      BY <2>0, <3>2, <3>4
  <2>3. ASSUME NEW b \in Unc(i + 1, c), b \notin V PROVE b \in U
    <3>1. b \in 0 .. c - 1 /\ \A j \in 1 .. i : b \notin Bytes(Sorted[j])
      BY <2>0
    <3>2. i \in 1 .. i /\ \A j \in 1 .. i - 1 : j \in 1 .. i
      BY <1>1
    <3>3. b \notin p.start .. p.start + p.size - 1
      BY <1>11, <3>1, <3>2
    <3>4. b < cursor
      BY <1>1, <1>5, <1>6, <2>3, <3>1, <3>3, SMTT(30)
    <3>5. b \in 0 .. cursor - 1
      BY <1>1, <3>1, <3>4
    <3> QED
      BY <2>0, <3>1, <3>2, <3>5
  <2> QED
    BY <2>1, <2>2, <2>3
<1>14. \A b \in Unc(i + 1, c) : b < p.start
  BY <1>1, <1>5, <1>10, <1>13
<1>15. Cardinality(U \cup V) =
         Cardinality(U) + IF p.start - cursor > 0 THEN p.start - cursor ELSE 0
  <2>1. IsFiniteSet(U) /\ Cardinality(U) \in Nat
    <3>1. IsFiniteSet(0 .. cursor - 1)
      BY <1>1, FS_Interval
    <3>2. U \in SUBSET (0 .. cursor - 1)
      BY DEF Unc
    <3> QED
      BY <3>1, <3>2, FS_Subset, FS_CardinalityType
  <2>2. IsFiniteSet(V) /\ Cardinality(V) = IF p.start - cursor > 0 THEN p.start - cursor ELSE 0
    <3>1. cursor \in Int /\ p.start \in Int
      BY <1>1, <1>5
    <3> QED
      BY <3>1, BytesBetween, Zenon
  <2>3. U \cap V = {}
    <3>1. \A b \in V : b >= cursor
      OBVIOUS
    <3> HIDE DEF U, V
    <3> QED
      BY <1>1, <1>10, <3>1
  <2> HIDE DEF U, V
  <2>4. Cardinality(U \cup V) = Cardinality(U) + Cardinality(V) - Cardinality(U \cap V)
    BY <2>1, <2>2, FS_Union
  <2>5. Cardinality(U \cap V) = 0 /\ Cardinality(V) \in Nat
    BY <2>2, <2>3, FS_EmptySet, FS_CardinalityType
  <2>6. Cardinality(U \cup V) = Cardinality(U) + Cardinality(V)
    BY <2>1, <2>4, <2>5
  <2> QED
    BY <2>2, <2>6
<1> QED
  BY <1>6, <1>8, <1>9, <1>13, <1>14, <1>15

\* Without overlaps a partition with bytes starts where the slices have got to.
LEMMA NextStartsLater ==
  ASSUME TypeInv, stage = "segments", Covering, i =< Len(This.parts), ~Overlap,
         Sorted[i].size > 0
  PROVE  Sorted[i].start >= cursor
<1> DEFINE N == Len(This.parts)
           p == Sorted[i]
<1>1. /\ i \in Nat \ {0} /\ cursor \in Nat /\ i \in 1 .. N /\ N \in Nat
      /\ disks \in Seq(Disk) /\ k \in 1 .. Len(disks) /\ DOMAIN This.parts = 1 .. N
  BY ThisBar DEF TypeInv, TypeOK
<1>2. \A n \in 1 .. N : Sorted[n].start \in Nat /\ Sorted[n].size \in Nat
  BY ThisBar
<1>3. /\ \A r \in 1 .. N : At(r) \in 1 .. N /\ Sorted[r] = This.parts[At(r)]
      /\ \A q, r \in 1 .. N : At(q) = At(r) => q = r
      /\ \A q, r \in 1 .. N : q < r => Sorted[q].start =< Sorted[r].start
  BY <1>1, SortedParts
<1> HIDE DEF N, p
<1>4. \A q, r \in 1 .. N : q # r => Bytes(Sorted[q]) \cap Bytes(Sorted[r]) = {}
  BY <1>1, <1>3 DEF Overlap
<1>5. p.start \in Nat /\ p.size \in Nat /\ p.size > 0
  BY <1>1, <1>2 DEF p
<1>6. SUFFICES ASSUME p.start < cursor PROVE FALSE
  BY <1>1, <1>5 DEF p
<1>7. PICK j \in 1 .. i - 1 : cursor = EndsAt(Sorted[j])
  BY <1>1, <1>5, <1>6 DEF Covering
<1>8. j \in 1 .. N /\ j < i /\ j # i
  BY <1>1
<1>9. /\ Sorted[j].start =< p.start /\ Sorted[j].start \in Nat /\ Sorted[j].size \in Nat
      /\ Sorted[j].start + Sorted[j].size = cursor
  BY <1>1, <1>2, <1>3, <1>7, <1>8 DEF EndsAt, p
<1>10. p.start \in Bytes(Sorted[j]) /\ p.start \in Bytes(Sorted[i])
  <2>1. p.start =< p.start + p.size - 1 /\ p.start =< Sorted[j].start + Sorted[j].size - 1
    BY <1>1, <1>5, <1>6, <1>9, SMTT(30)
  <2>2. p.start \in Sorted[j].start .. Sorted[j].start + Sorted[j].size - 1
        /\ p.start \in p.start .. p.start + p.size - 1
    BY <1>5, <1>9, <2>1
  <2> QED
    BY <2>2 DEF Bytes, p
<1> QED
  BY <1>1, <1>4, <1>8, <1>10

\* The last slice is what is left of the disk, if anything is.
LEMMA EndCovers ==
  ASSUME TypeInv, stage = "segments", Covering, i > Len(This.parts)
  PROVE  Cardinality(AllFree) =
           Cardinality(Unc(i, cursor)) + IF This.size - cursor > 0 THEN This.size - cursor ELSE 0
<1> DEFINE N == Len(This.parts)
           U == Unc(i, cursor)
           V == cursor .. This.size - 1
<1>1. /\ i \in Nat \ {0} /\ cursor \in Nat /\ i = N + 1 /\ N \in Nat /\ This.size \in Nat
      /\ disks \in Seq(Disk) /\ k \in 1 .. Len(disks) /\ DOMAIN This.parts = 1 .. N
  BY ThisBar DEF TypeInv, TypeOK, Covering
<1>2. \A n \in 1 .. N : Sorted[n].start \in Nat /\ Sorted[n].size \in Nat
  BY ThisBar
<1>3. /\ \A r \in 1 .. N : At(r) \in 1 .. N /\ Sorted[r] = This.parts[At(r)]
      /\ \A j \in 1 .. N : \E r \in 1 .. N : At(r) = j
  BY <1>1, SortedParts
<1>4. /\ \A r \in 1 .. N : Sorted[r] \in Parts
      /\ \A p \in Parts : \E r \in 1 .. N : p = Sorted[r]
  <2> HIDE DEF N
  <2>1. \A p : p \in Parts <=> \E n \in 1 .. N : p = This.parts[n]
    BY <1>1 DEF Parts
  <2>2. ASSUME NEW r \in 1 .. N PROVE Sorted[r] \in Parts
    BY <1>3, <2>1
  <2>3. ASSUME NEW p \in Parts PROVE \E r \in 1 .. N : p = Sorted[r]
    <3>1. PICK n \in 1 .. N : p = This.parts[n]
      BY <2>1
    <3>2. PICK r \in 1 .. N : At(r) = n
      BY <1>3
    <3> QED
      BY <1>3, <3>1, <3>2
  <2> QED
    BY <2>2, <2>3
<1> HIDE DEF N
<1>5. /\ \A j \in 1 .. N : EndsAt(Sorted[j]) =< cursor
      /\ cursor = 0 \/ \E j \in 1 .. N : cursor = EndsAt(Sorted[j])
  <2>1. i - 1 = N
    BY <1>1
  <2> QED
    BY <2>1 DEF Covering
<1>6. BarEnd = Larger(cursor, This.size)
  <2> DEFINE ends == {This.size} \cup {p.start + p.size : p \in Parts}
             m == Larger(cursor, This.size)
  <2>1. /\ \A j \in 1 .. N : Sorted[j].start + Sorted[j].size \in ends
        /\ \A x \in ends : x = This.size \/ \E j \in 1 .. N : x = EndsAt(Sorted[j])
        /\ This.size \in ends
    BY <1>4 DEF EndsAt
  <2>2. \A x \in ends : x \in Nat
    <3> HIDE DEF ends
    <3>1. \A j \in 1 .. N : EndsAt(Sorted[j]) \in Nat
      BY <1>2 DEF EndsAt
    <3> QED
      BY <1>1, <2>1, <3>1
  <2>3. m \in ends
    BY <1>1, <1>5, <2>1 DEF Larger, EndsAt
  <2>4. \A x \in ends : x =< m
    <3> SUFFICES ASSUME NEW x \in ends PROVE x =< m
      OBVIOUS
    <3> HIDE DEF ends
    <3>1. x \in Nat /\ (x = This.size \/ x =< cursor)
      BY <1>5, <2>1, <2>2
    <3> QED
      BY <1>1, <3>1 DEF Larger
  <2>5. BarEnd = CHOOSE e \in ends : \A x \in ends : x =< e
    BY DEF BarEnd
  <2> HIDE DEF ends, m
  <2>6. \A e \in ends : (\A x \in ends : x =< e) => e = m
    BY <2>2, <2>3, <2>4
  <2>7. BarEnd = m
    BY <2>3, <2>4, <2>5, <2>6
  <2> QED
    BY <2>7 DEF m
<1>m. BarEnd \in Nat /\ BarEnd >= cursor /\ BarEnd >= This.size /\ BarEnd \in {cursor, This.size}
  BY <1>1, <1>6 DEF Larger
<1>7. AllFree = U \cup V
  <2>0. /\ \A b : b \in AllFree <=>
                    b \in 0 .. BarEnd - 1 /\ \A j \in 1 .. N : b \notin Bytes(Sorted[j])
        /\ \A b : b \in U <=>
                    b \in 0 .. cursor - 1 /\ \A j \in 1 .. N : b \notin Bytes(Sorted[j])
    <3>1. i - 1 = N
      BY <1>1
    <3>2. \A b : (\A p \in Parts : b \notin Bytes(p)) <=> \A j \in 1 .. N : b \notin Bytes(Sorted[j])
      BY <1>4
    <3> QED
      BY <3>1, <3>2 DEF Unc, AllFree
  <2> HIDE DEF U
  <2>1. ASSUME NEW b \in U PROVE b \in AllFree
    <3>1. b \in 0 .. BarEnd - 1
      BY <1>1, <1>m, <2>0
    <3> QED
      BY <2>0, <3>1
  <2>2. ASSUME NEW b \in V PROVE b \in AllFree
    <3>1. b \in 0 .. BarEnd - 1 /\ b >= cursor
      BY <1>1, <1>m
    <3>2. ASSUME NEW j \in 1 .. N PROVE b \notin Bytes(Sorted[j])
      <4>1. /\ Sorted[j].start \in Nat /\ Sorted[j].size \in Nat
            /\ Sorted[j].start + Sorted[j].size =< cursor
        BY <1>2, <1>5 DEF EndsAt
      <4> QED
        BY <1>1, <3>1, <4>1, SMTT(30) DEF Bytes
    <3> QED
      BY <2>0, <3>1, <3>2
  <2>3. ASSUME NEW b \in AllFree, b \notin V PROVE b \in U
    <3>1. b \in 0 .. BarEnd - 1 /\ \A j \in 1 .. N : b \notin Bytes(Sorted[j])
      BY <2>0
    <3>2. b \in 0 .. cursor - 1
      BY <1>1, <1>m, <2>3, <3>1
    <3> QED
      BY <2>0, <3>1, <3>2
  <2> QED
    BY <2>1, <2>2, <2>3
<1>8. IsFiniteSet(U) /\ Cardinality(U) \in Nat
  <2>1. IsFiniteSet(0 .. cursor - 1)
    BY <1>1, FS_Interval
  <2>2. U \in SUBSET (0 .. cursor - 1)
    BY DEF Unc
  <2> QED
    BY <2>1, <2>2, FS_Subset, FS_CardinalityType
<1>9. IsFiniteSet(V) /\ Cardinality(V) = IF This.size - cursor > 0 THEN This.size - cursor ELSE 0
  <2>1. cursor \in Int /\ This.size \in Int
    BY <1>1
  <2> QED
    BY <2>1, BytesBetween, Zenon
<1>10. U \cap V = {}
  <2>1. \A b \in U : b \in Int /\ b < cursor
    BY <1>1 DEF Unc
  <2>2. \A b \in V : b >= cursor
    OBVIOUS
  <2> HIDE DEF U, V
  <2> QED
    BY <1>1, <2>1, <2>2
<1> HIDE DEF U, V
<1>11. Cardinality(U \cup V) = Cardinality(U) + Cardinality(V) - Cardinality(U \cap V)
  BY <1>8, <1>9, FS_Union
<1>12. Cardinality(U \cap V) = 0 /\ Cardinality(V) \in Nat
  BY <1>9, <1>10, FS_EmptySet, FS_CardinalityType
<1>13. Cardinality(U \cup V) = Cardinality(U) + Cardinality(V)
  BY <1>8, <1>11, <1>12
<1> QED
  BY <1>7, <1>9, <1>13 DEF U

LEMMA SlicesInit == Init => SlicesInv
  BY DEF Init, SlicesInv, Drawn

LEMMA SlicesNext == TypeInv /\ TypeInv' /\ SlicesInv /\ [Next]_vars => SlicesInv'
<1> SUFFICES ASSUME TypeInv, TypeInv', SlicesInv, [Next]_vars PROVE SlicesInv'
  OBVIOUS
<1>0. /\ i \in Nat \ {0} /\ cursor \in Nat /\ segs \in Seq(Segment)
      /\ disks \in Seq(Disk)
  BY DEF TypeInv, TypeOK, Segment
<1>f. ASSUME UNCHANGED listing
      PROVE  /\ This' = This /\ Sorted' = Sorted /\ HasBar' = HasBar /\ Parts' = Parts
             /\ Overlap' = Overlap /\ AllFree' = AllFree
             /\ (\A e, c : Unc(e, c)' = Unc(e, c)) /\ (\A s : Tiled(s)' = Tiled(s))
  <2>1. This' = This /\ Sorted' = Sorted /\ HasBar' = HasBar
    BY <1>f, SameDisk
  <2>2. Parts' = Parts /\ Overlap' = Overlap
    BY <2>1 DEF Parts, Overlap
  <2>3. AllFree' = AllFree
    BY <2>1, <2>2 DEF AllFree, BarEnd
  <2>4. (\A e, c : Unc(e, c)' = Unc(e, c)) /\ (\A s : Tiled(s)' = Tiled(s))
    BY <2>1 DEF Unc, Tiled
  <2> QED
    BY <2>1, <2>2, <2>3, <2>4
<1>1. CASE ListPlain
  <2>1. stage' = "drawn" /\ ~HasBar /\ UNCHANGED listing
    BY <1>1 DEF ListPlain, HasBar
  <2>2. ~HasBar'
    BY <1>f, <2>1
  <2> QED
    BY <2>1, <2>2 DEF SlicesInv, Drawn
<1>2. CASE StartBar
  <2>1. /\ stage = "disk" /\ stage' = "segments" /\ segs' = segs /\ i' = i /\ cursor' = cursor
        /\ UNCHANGED listing /\ k =< Len(disks)
    BY <1>2 DEF StartBar, bar
  <2>2. segs = <<>> /\ i = 1 /\ cursor = 0
    BY <2>1 DEF SlicesInv
  <2>3. Len(This.parts) \in Nat
    <3>1. k \in 1 .. Len(disks)
      BY <2>1 DEF TypeInv, TypeOK
    <3> QED
      BY <1>0, <3>1, SortedParts
  <2>4. Unc(1, 0) = {} /\ Cardinality(Unc(1, 0)) = 0
    <3>1. Unc(1, 0) = {}
      BY DEF Unc
    <3> QED
      BY <3>1, FS_EmptySet
  <2>5. /\ Total(FreeOf(<<>>)) = 0 /\ Total(BytesOf(<<>>)) = 0 /\ Tiled(<<>>)
    <3>1. FreeOf(<<>>) = <<>> /\ BytesOf(<<>>) = <<>>
      BY DEF FreeOf, BytesOf
    <3>2. Tiled(<<>>)
      BY DEF Tiled
    <3> QED
      BY <3>1, <3>2, TotalEmpty
  <2>6. Covering
    BY <2>2, <2>3, <2>4, <2>5 DEF Covering
  <2>7. Covering'
    BY <1>f, <2>1, <2>6 DEF Covering
  <2> QED
    BY <2>1, <2>7 DEF SlicesInv, Drawn
<1>3. CASE NextDisk
  <2>1. stage' = "disk" /\ segs' = <<>> /\ i' = 1 /\ cursor' = 0
    BY <1>3 DEF NextDisk, NoBar
  <2> QED
    BY <2>1 DEF SlicesInv, Drawn
<1>4. CASE AddSegment
  <2> DEFINE p == Sorted[i]
             gap == p.start - cursor
             x == Slice(p.size, i)
             s == segs \o Gap(gap)
             N == Len(This.parts)
             c == Larger(cursor, EndsAt(p))
             more == IF gap > 0 THEN gap ELSE 0
  <2>1. /\ stage = "segments" /\ stage' = "segments" /\ i =< N /\ i' = i + 1
        /\ UNCHANGED listing /\ segs' = s \o <<x>> /\ cursor' = c
    BY <1>4 DEF AddSegment, Covered, EndsAt
  <2>2. Covering
    BY <2>1 DEF SlicesInv
  <2>3. N \in Nat /\ i \in 1 .. N /\ p.start \in Nat /\ p.size \in Nat
    BY <1>0, <2>1, ThisBar
  <2>4. /\ c \in Nat /\ (\A j \in 1 .. i : EndsAt(Sorted[j]) =< c)
        /\ (c = 0 \/ \E j \in 1 .. i : c = EndsAt(Sorted[j]))
        /\ (\A b \in Unc(i + 1, c) : b < p.start)
        /\ Cardinality(Unc(i + 1, c)) = Cardinality(Unc(i, cursor)) + more
    BY <2>1, <2>2, StepCovers
  <2>5. gap \in Int /\ x \in Segment /\ x.index = i /\ x.bytes = p.size /\ i # Free
    BY <1>0, <2>3 DEF Slice, Segment, Free
  <2>5a. ~Overlap /\ p.size > 0 => p.start >= cursor
    BY <2>1, <2>2, NextStartsLater
  <2>5b. c = IF cursor > p.start + p.size THEN cursor ELSE p.start + p.size
    BY DEF Larger, EndsAt
  <2>5c. more = IF p.start - cursor > 0 THEN p.start - cursor ELSE 0
    OBVIOUS
  <2>5d. Sorted[x.index] = p
    BY <2>5
  <2> HIDE DEF p, gap, x, N, c, more
  <2>6. /\ s \in Seq(Segment)
        /\ Total(FreeOf(s)) = Total(FreeOf(segs)) + more
        /\ Total(BytesOf(s)) = Total(BytesOf(segs)) + more
        /\ Tiled(segs) => Tiled(s)
    BY <1>0, <2>5, GapAdded DEF more
  <2> HIDE DEF s
  <2>7. segs' = Append(s, x)
    BY <2>1, <2>5, <2>6
  <2>8. /\ segs' \in Seq(Segment)
        /\ Total(FreeOf(segs')) = Total(FreeOf(s)) + IF x.index = Free THEN x.bytes ELSE 0
        /\ Total(BytesOf(segs')) = Total(BytesOf(s)) + x.bytes
        /\ Tiled(s) /\ (x.index # Free /\ x.bytes > 0 =>
                          Sorted[x.index].start = Total(BytesOf(s))) => Tiled(segs')
    BY <2>5, <2>6, <2>7, SliceAdded
  <2>9. Total(FreeOf(segs)) \in Nat /\ Total(BytesOf(segs)) \in Nat /\ more \in Nat
    <3>1. more \in Nat
      BY <1>0, <2>3, <2>5c
    <3> QED
      BY <1>0, <3>1, SlicesType, TotalType
  <2>10. Total(FreeOf(segs')) = Cardinality(Unc(i + 1, c))
    <3>1. Total(FreeOf(segs)) = Cardinality(Unc(i, cursor))
      BY <2>2 DEF Covering
    <3> QED
      BY <2>4, <2>5, <2>6, <2>8, <2>9, <3>1
  <2>11. ASSUME ~Overlap PROVE Total(BytesOf(segs')) = c /\ Tiled(segs')
    <3>1. Total(BytesOf(segs)) = cursor /\ Tiled(segs)
      BY <2>2, <2>11 DEF Covering
    <3>2. Total(BytesOf(s)) = cursor + more /\ Tiled(s)
      BY <2>6, <3>1
    <3>3. p.size > 0 => p.start >= cursor
      BY <2>5a, <2>11
    <3>4. cursor + more + p.size = c
      BY <1>0, <2>3, <2>5b, <2>5c, <3>3
    <3>5. p.size > 0 => p.start = cursor + more
      BY <1>0, <2>3, <2>5c, <3>3
    <3>6. Tiled(segs')
      BY <2>5, <2>5d, <2>8, <3>2, <3>5
    <3> QED
      BY <2>5, <2>8, <3>2, <3>4, <3>6
  <2>12. /\ i' =< N + 1
         /\ \A j \in 1 .. i' - 1 : EndsAt(Sorted[j]) =< cursor'
         /\ cursor' = 0 \/ \E j \in 1 .. i' - 1 : cursor' = EndsAt(Sorted[j])
         /\ \A b \in Unc(i', cursor') : i' > 1 /\ b < Sorted[i' - 1].start
    <3>1. i' - 1 = i /\ i' > 1 /\ i' =< N + 1
      BY <1>0, <2>1, <2>3
    <3>2. Unc(i', cursor') = Unc(i + 1, c) /\ cursor' = c /\ Sorted[i' - 1] = p
      BY <2>1, <3>1 DEF p
    <3> QED
      BY <2>4, <3>1, <3>2
  <2>13. Unc(i, cursor)' = Unc(i', cursor') /\ Tiled(segs)' = Tiled(segs')
    BY <1>f, <2>1 DEF Unc, Tiled
  <2>14. Unc(i', cursor') = Unc(i + 1, c)
    BY <2>1
  <2>15. Covering'
    <3>1. /\ Total(FreeOf(segs)') = Cardinality(Unc(i, cursor)')
          /\ FreeOf(segs)' = FreeOf(segs') /\ BytesOf(segs)' = BytesOf(segs')
      BY <2>10, <2>13, <2>14 DEF FreeOf, BytesOf
    <3>2. Overlap' = Overlap /\ Sorted' = Sorted /\ This' = This
      BY <1>f, <2>1
    <3>3. ~Overlap => Total(BytesOf(segs')) = cursor' /\ Tiled(segs)'
      BY <2>1, <2>11, <2>13
    <3> QED
      BY <2>12, <2>13, <3>1, <3>2, <3>3 DEF Covering, N, EndsAt
  <2> QED
    BY <2>1, <2>15 DEF SlicesInv, Drawn
<1>5. CASE EndSegments
  <2> DEFINE gap == This.size - cursor
             s == segs \o Gap(gap)
             more == IF gap > 0 THEN gap ELSE 0
  <2>1. /\ stage = "segments" /\ stage' = "widths" /\ i > Len(This.parts) /\ segs' = s
        /\ UNCHANGED listing
    BY <1>5 DEF EndSegments
  <2>2. Covering
    BY <2>1 DEF SlicesInv
  <2>3. gap \in Int
    BY <1>0, <2>1, ThisBar
  <2>4. Cardinality(AllFree) = Cardinality(Unc(i, cursor)) + more
    BY <2>1, <2>2, EndCovers
  <2> HIDE DEF gap, more
  <2>5. /\ Total(FreeOf(s)) = Total(FreeOf(segs)) + more
        /\ Tiled(segs) => Tiled(s)
    BY <1>0, <2>3, GapAdded DEF more
  <2> HIDE DEF s
  <2>6. Total(FreeOf(s)) = Cardinality(AllFree) /\ (~Overlap => Tiled(s))
    BY <2>2, <2>4, <2>5 DEF Covering
  <2>7. /\ AllFree' = AllFree /\ Overlap' = Overlap /\ Sorted' = Sorted
    BY <1>f, <2>1
  <2>8. Tiled(segs)' = Tiled(segs') /\ FreeOf(segs)' = FreeOf(segs')
    BY <2>7 DEF Tiled, FreeOf, BytesOf
  <2>9. Tallied'
    BY <2>1, <2>6, <2>7, <2>8 DEF Tallied
  <2> QED
    BY <2>1, <2>9 DEF SlicesInv, Drawn
<1>6. ASSUME NoWidths \/ Allocate \/ Borrow \/ EndBorrow \/ PickSlot \/ EndBar
      PROVE  SlicesInv'
  <2>1. /\ stage \in {"widths", "borrow", "slots"} /\ stage' \in {"borrow", "slots", "drawn"}
        /\ segs' = segs /\ UNCHANGED listing
    BY <1>6 DEF NoWidths, Allocate, Borrow, EndBorrow, PickSlot, EndBar, bar
  <2>2. Tallied
    BY <2>1 DEF SlicesInv
  <2>3. /\ AllFree' = AllFree /\ Overlap' = Overlap /\ Sorted' = Sorted
    BY <1>f, <2>1
  <2>4. Tiled(segs)' = Tiled(segs) /\ FreeOf(segs)' = FreeOf(segs)
    BY <2>1, <2>3 DEF Tiled, FreeOf, BytesOf
  <2>5. Tallied'
    BY <2>2, <2>3, <2>4 DEF Tallied
  <2> QED
    BY <2>1, <2>5 DEF SlicesInv, Drawn
<1>7. CASE UNCHANGED vars
  <2>1. stage' = stage /\ segs' = segs /\ i' = i /\ cursor' = cursor /\ UNCHANGED listing
    BY <1>7 DEF vars, bar
  <2>2. /\ AllFree' = AllFree /\ Overlap' = Overlap /\ Sorted' = Sorted
        /\ This' = This /\ HasBar' = HasBar
    BY <1>f, <2>1
  <2>3. /\ Tiled(segs)' = Tiled(segs) /\ FreeOf(segs)' = FreeOf(segs)
        /\ BytesOf(segs)' = BytesOf(segs) /\ Unc(i, cursor)' = Unc(i, cursor)
    BY <2>1, <2>2 DEF Tiled, FreeOf, BytesOf, Unc
  <2>4. Covering' = Covering /\ Tallied' = Tallied /\ Drawn' = Drawn
    BY <2>1, <2>2, <2>3 DEF Covering, Tallied, Drawn, EndsAt
  <2> QED
    BY <2>1, <2>4 DEF SlicesInv
<1> QED
  BY <1>1, <1>2, <1>3, <1>4, <1>5, <1>6, <1>7 DEF Next

LEMMA SlicesHold == Spec => [](TypeInv /\ SlicesInv)
<1>1. TypeInv /\ SlicesInv /\ [Next]_vars => (TypeInv /\ SlicesInv)'
  BY TypeNext, SlicesNext
<1> QED
  BY <1>1, TypeInit, SlicesInit, PTL DEF Spec

\* What is drawn as free is what no partition covers up to the end of the disk
\* or, when a partition ends beyond it, of that partition; and slices tile the
\* bar as long as no partitions overlap (bar.rs:59-92).
THEOREM GapsAreFreeAlways == Spec => []GapsAreFree
<1>1. TypeInv /\ SlicesInv => GapsAreFree
  <2> SUFFICES ASSUME TypeInv, SlicesInv, Drawn
               PROVE  /\ FreeBytes = Cardinality({b \in 0 .. BarEnd - 1 :
                                                    \A p \in Parts : b \notin Bytes(p)})
                      /\ ~Overlap =>
                           \A n \in DOMAIN segs :
                             segs[n].index # Free /\ segs[n].bytes > 0 =>
                               Sorted[segs[n].index].start =
                                 Total(SubSeq([m \in DOMAIN segs |-> segs[m].bytes], 1, n - 1))
    BY DEF GapsAreFree
  <2>1. Tallied
    BY DEF SlicesInv
  <2> QED
    BY <2>1 DEF Tallied, FreeBytes, FreeOf, AllFree, Tiled, BytesOf
<1> QED
  BY <1>1, SlicesHold, PTL

-----------------------------------------------------------------------------
(* The sizes. *)

LEMMA Times ==
  ASSUME NEW x \in Nat, NEW y \in Nat, NEW z \in Nat
  PROVE  /\ x * y \in Nat /\ x * y = y * x /\ x * (y + 1) = x * y + x
         /\ y =< z => x * y =< x * z
<1>1. x * y \in Nat /\ x * z \in Nat /\ x * y = y * x
  OBVIOUS
<1>2. x * (y + 1) = x * y + x
  OBVIOUS
<1>3. ASSUME y =< z PROVE x * y =< x * z
  <2>1. \A u, v \in Nat : u * v \in Nat
    OBVIOUS
  <2>2. z - y \in Nat
    BY <1>3
  <2>3. x * (z - y) \in Nat
    BY <2>1, <2>2
  <2>4. x * (z - y) = x * z - x * y
    OBVIOUS
  <2> DEFINE a == x * y
             b == x * z
  <2>5. a \in Nat /\ b \in Nat /\ b - a \in Nat
    BY <1>1, <2>3, <2>4
  <2> HIDE DEF a, b
  <2>6. a =< b
    BY <2>5
  <2> QED
    BY <2>6 DEF a, b
<1> QED
  BY <1>1, <1>2, <1>3

PowersTo(f, m) == f = [u \in 0 .. m |-> IF u = 0 THEN 1 ELSE Kilo * f[u - 1]]

LEMMA PowersExist == \E f : PowersTo(f, Units - 1)
<1> DEFINE P == {m \in 0 .. Units - 1 : \E f : PowersTo(f, m)}
<1>1. Units - 1 \in Nat
  BY UnitAssumption
<1>2. 0 \in P
  <2> DEFINE g == [u \in 0 .. 0 |-> 1]
  <2>1. \A u \in 0 .. 0 : u = 0
    OBVIOUS
  <2>2. PowersTo(g, 0)
    BY <2>1 DEF PowersTo
  <2> HIDE DEF g
  <2> QED
    BY <1>1, <2>2
<1>3. ASSUME NEW m \in 0 .. (Units - 1) - 1, m \in P
      PROVE  m + 1 \in P
  <2>1. PICK f : PowersTo(f, m)
    BY <1>3
  <2> DEFINE g == [u \in 0 .. m + 1 |-> IF u = m + 1 THEN Kilo * f[m] ELSE f[u]]
  <2>0. m \in Nat
    OBVIOUS
  <2>2. ASSUME NEW u \in 0 .. m + 1
        PROVE  g[u] = IF u = 0 THEN 1 ELSE Kilo * g[u - 1]
    <3>1. CASE u = m + 1
      <4>1. u # 0 /\ u - 1 = m /\ m \in 0 .. m + 1 /\ m # m + 1
        BY <2>0, <3>1
      <4>2. g[m] = f[m] /\ g[u] = Kilo * f[m]
        BY <3>1, <4>1
      <4> HIDE DEF g
      <4> QED
        BY <4>1, <4>2
    <3>2. CASE u # m + 1
      <4>1. u \in 0 .. m
        BY <2>0, <3>2
      <4>2. f[u] = IF u = 0 THEN 1 ELSE Kilo * f[u - 1]
        BY <2>1, <4>1, Zenon DEF PowersTo
      <4>3. g[u] = f[u] /\ (u # 0 => g[u - 1] = f[u - 1])
        BY <2>0, <3>2, <4>1
      <4> HIDE DEF g
      <4> QED
        BY <4>2, <4>3
    <3> QED
      BY <3>1, <3>2
  <2>3. PowersTo(g, m + 1)
    BY <2>2 DEF PowersTo
  <2>4. m + 1 \in 0 .. Units - 1
    BY <1>1
  <2> HIDE DEF g
  <2> QED
    BY <2>3, <2>4
<1>4. Units - 1 \in P
  <2>1. Units - 1 \in 0 .. Units - 1
    BY <1>1
  <2> DEFINE n == Units - 1
  <2>2. n \in Nat /\ 0 \in P /\ n \in 0 .. n /\ \A m \in 0 .. n - 1 : m \in P => m + 1 \in P
    BY <1>1, <1>2, <1>3, <2>1
  <2> HIDE DEF P, n
  <2>3. \A m \in 0 .. n : m \in P
    BY <2>2, FromZero
  <2> QED
    BY <2>2, <2>3 DEF n
<1> QED
  BY <1>4

\* Each unit is Kilo of the one before.
LEMMA PowerIs ==
  /\ Units - 1 \in Nat /\ Kilo \in Nat /\ Kilo > 1
  /\ Power[0] = 1 /\ \A u \in 1 .. Units - 1 : Power[u] = Kilo * Power[u - 1]
  /\ \A u \in 0 .. Units - 1 : Power[u] \in Nat \ {0}
<1>0. Units - 1 \in Nat /\ Kilo \in Nat /\ Kilo > 1
  BY UnitAssumption
<1>1. PowersTo(Power, Units - 1)
  BY PowersExist DEF PowersTo, Power
<1> DEFINE n == Units - 1
           R(u) == Kilo * Power[u - 1]
<1>2. \A u \in 0 .. n : Power[u] = IF u = 0 THEN 1 ELSE R(u)
  BY <1>1, Zenon DEF PowersTo
<1>3. Power[0] = 1 /\ \A u \in 1 .. n : Power[u] = R(u)
  <2> HIDE DEF R
  <2> QED
    BY <1>0, <1>2
<1> DEFINE P == {u \in 0 .. n : Power[u] \in Nat \ {0}}
<1>4. 0 \in P
  BY <1>0, <1>3
<1>5. ASSUME NEW u \in 0 .. n - 1, u \in P
      PROVE  u + 1 \in P
  <2>1. u + 1 \in 1 .. n /\ u + 1 \in 0 .. n /\ (u + 1) - 1 = u
    BY <1>0
  <2>2. Power[u + 1] = Kilo * Power[u] /\ Power[u] \in Nat \ {0}
    BY <1>3, <1>5, <2>1
  <2>3. \A x, y \in Nat \ {0} : x * y \in Nat \ {0}
    <3>1. \A x, y \in Nat : x > 0 /\ y > 0 => x * y > 0
      OBVIOUS
    <3>2. \A x, y \in Nat : x * y \in Nat
      OBVIOUS
    <3> QED
      BY <3>1, <3>2
  <2>4. Power[u + 1] \in Nat \ {0}
    BY <1>0, <2>2, <2>3
  <2> QED
    BY <2>1, <2>4
<1>6. \A u \in 0 .. n : u \in P
  <2>1. n \in Nat /\ 0 \in P /\ \A m \in 0 .. n - 1 : m \in P => m + 1 \in P
    BY <1>0, <1>4, <1>5
  <2> HIDE DEF P, n
  <2> QED
    BY <2>1, FromZero
<1> QED
  BY <1>0, <1>3, <1>6

\* A later unit is at least Kilo of an earlier one.
LEMMA PowerGrows ==
  ASSUME NEW u \in 0 .. Units - 1, NEW v \in 0 .. Units - 1, u < v
  PROVE  Kilo * Power[u] =< Power[v]
<1> DEFINE n == Units - 1
           Q == {w \in 0 .. n : w > u => Kilo * Power[u] =< Power[w]}
<1>1. n \in Nat /\ Kilo \in Nat /\ Kilo > 1 /\ Power[u] \in Nat /\ \A w \in 0 .. n : Power[w] \in Nat
  BY PowerIs
<1>2. 0 \in Q
  BY <1>1
<1>3. ASSUME NEW w \in 0 .. n - 1, w \in Q
      PROVE  w + 1 \in Q
  <2>1. w + 1 \in 0 .. n /\ w + 1 \in 1 .. n /\ (w + 1) - 1 = w /\ w \in 0 .. n
    BY <1>1
  <2>2. Power[w + 1] = Kilo * Power[w] /\ Power[w] \in Nat
    BY <1>1, <2>1, PowerIs
  <2>3. CASE w + 1 > u
    <3>1. w = u \/ w > u
      BY <2>3
    <3>2. CASE w = u
      <4>1. Kilo * Power[u] =< Power[w + 1]
        <5>1. Power[w + 1] \in Nat /\ Kilo * Power[u] = Power[w + 1]
          BY <1>1, <2>1, <2>2, <3>2
        <5> QED
          BY <5>1
      <4> QED
        BY <2>1, <4>1
    <3>3. CASE w > u
      <4>1. Kilo * Power[u] =< Power[w]
        BY <1>3, <3>3
      <4>2. Power[w] =< Kilo * Power[w]
        <5>1. Power[w] * 1 =< Power[w] * Kilo /\ Power[w] * Kilo = Kilo * Power[w]
          BY <1>1, <2>2, Times
        <5> QED
          BY <2>2, <5>1
      <4>3. Kilo * Power[u] \in Nat /\ Kilo * Power[w] \in Nat
        BY <1>1, <2>2, Times
      <4> DEFINE a == Kilo * Power[u]
                 b == Kilo * Power[w]
      <4> HIDE DEF a, b
      <4>4. a =< b
        BY <2>2, <4>1, <4>2, <4>3 DEF a, b
      <4>5. Kilo * Power[u] =< Power[w + 1]
        BY <2>2, <4>4 DEF a, b
      <4> QED
        BY <2>1, <4>5
    <3> QED
      BY <3>1, <3>2, <3>3
  <2> QED
    BY <2>1, <2>3
<1>4. v \in Q
  <2>1. n \in Nat /\ 0 \in Q /\ v \in 0 .. n /\ \A m \in 0 .. n - 1 : m \in Q => m + 1 \in Q
    BY <1>1, <1>2, <1>3
  <2> HIDE DEF Q, n
  <2>2. \A m \in 0 .. n : m \in Q
    BY <2>1, FromZero
  <2> QED
    BY <2>1, <2>2
<1> QED
  BY <1>4

\* The loop stops at the largest unit that is reached.
LEMMA UnitIs ==
  ASSUME NEW a \in Nat
  PROVE  /\ UnitOf(a) \in 0 .. Units - 1 /\ Power[UnitOf(a)] \in Nat \ {0}
         /\ UnitOf(a) = 0 \/ a >= Power[UnitOf(a)]
         /\ \A v \in UnitOf(a) + 1 .. Units - 1 : a < Power[v]
         /\ a < Kilo => UnitOf(a) = 0
<1> DEFINE P == {n \in 1 .. Units : n = 1 \/ Reaches(a, n - 1)}
           f == [n \in 1 .. Units |-> 0]
<1>0. Units \in Nat \ {0} /\ Units - 1 \in Nat /\ \A u \in 0 .. Units - 1 : Power[u] \in Nat \ {0}
  BY UnitAssumption, PowerIs
<1>1. PICK m \in P : IsLastLargest(f, P, m)
  <2>1. P \subseteq 1 .. Units /\ P # {} /\ \A n \in P : f[n] \in Int /\ Units \in Nat
    <3>1. 1 \in P
      BY <1>0
    <3> QED
      BY <1>0, <3>1
  <2> HIDE DEF P, f
  <2> QED
    BY <1>0, <2>1, LastLargestExists
<1>2. \A n \in P : n =< m
  BY <1>1 DEF IsLastLargest
<1>3. /\ m - 1 \in 0 .. Units - 1 /\ (m - 1 = 0 \/ Reaches(a, m - 1))
      /\ \A v \in (m - 1) + 1 .. Units - 1 : ~Reaches(a, v)
  <2>1. m \in 1 .. Units /\ (m = 1 \/ Reaches(a, m - 1))
    BY <1>1
  <2>2. ASSUME NEW v \in (m - 1) + 1 .. Units - 1, Reaches(a, v) PROVE FALSE
    <3>1. v + 1 \in 1 .. Units /\ (v + 1) - 1 = v /\ v + 1 > m
      BY <1>0, <2>1
    <3>2. v + 1 \in P
      BY <2>2, <3>1
    <3> QED
      BY <1>2, <2>1, <3>1, <3>2
  <2> QED
    BY <1>0, <2>1, <2>2
<1>4. /\ UnitOf(a) \in 0 .. Units - 1
      /\ UnitOf(a) = 0 \/ Reaches(a, UnitOf(a))
      /\ \A v \in UnitOf(a) + 1 .. Units - 1 : ~Reaches(a, v)
  <2> DEFINE Ok(u) == /\ u = 0 \/ Reaches(a, u)
                      /\ \A v \in u + 1 .. Units - 1 : ~Reaches(a, v)
  <2>1. m - 1 \in 0 .. Units - 1 /\ Ok(m - 1)
    BY <1>3
  <2>2. UnitOf(a) = CHOOSE u \in 0 .. Units - 1 : Ok(u)
    BY DEF UnitOf
  <2> HIDE DEF Ok
  <2>3. UnitOf(a) \in 0 .. Units - 1 /\ Ok(UnitOf(a))
    BY <2>1, <2>2
  <2> QED
    BY <2>3 DEF Ok
<1> DEFINE u == UnitOf(a)
<1> HIDE DEF u
<1>5. u \in 0 .. Units - 1 /\ (u = 0 \/ Reaches(a, u)) /\ \A v \in u + 1 .. Units - 1 : ~Reaches(a, v)
  BY <1>4 DEF u
<1>6. \A v \in u + 1 .. Units - 1 : a < Power[v]
  BY <1>0, <1>5 DEF Reaches
<1>7. a < Kilo => u = 0
  <2> SUFFICES ASSUME a < Kilo, u # 0 PROVE FALSE
    OBVIOUS
  <2>1. a >= Power[u]
    BY <1>5 DEF Reaches
  <2>2. 0 \in 0 .. Units - 1 /\ 0 < u
    BY <1>0, <1>5
  <2>3. Kilo * Power[0] =< Power[u]
    BY <1>5, <2>2, PowerGrows
  <2>4. Power[0] = 1 /\ Kilo \in Nat
    BY PowerIs
  <2>5. Kilo * 1 = Kilo
    BY <2>4
  <2> QED
    BY <1>0, <1>5, <2>1, <2>3, <2>4, <2>5
<1>8. u = 0 \/ a >= Power[u]
  BY <1>5 DEF Reaches
<1> QED
  BY <1>0, <1>5, <1>6, <1>7, <1>8 DEF u

\* Tenths of the unit, rounded down or up.
Reads(a, t, pw) ==
  \/ t = (10 * a) \div pw /\ 2 * ((10 * a) % pw) =< pw
  \/ t = (10 * a) \div pw + 1 /\ 2 * ((10 * a) % pw) >= pw

LEMMA SizeIs ==
  ASSUME NEW a \in Nat, NEW s \in human_size(a)
  PROVE  s.unit = UnitOf(a) /\ Reads(a, s.tenths, Power[UnitOf(a)])
<1> DEFINE u == UnitOf(a)
           pw == Power[u]
           d == (10 * a) \div pw
           l == (10 * a) % pw
<1>0. u \in 0 .. Units - 1 /\ pw \in Nat \ {0} /\ (a < Kilo => u = 0)
  BY UnitIs
<1>1. CASE a < Kilo
  <2>1. s = [tenths |-> 10 * a, unit |-> 0]
    BY <1>1 DEF human_size
  <2>2. pw = 1 /\ u = 0
    BY <1>0, <1>1, PowerIs
  <2>3. 10 * a \in Nat /\ 1 \in Nat \ {0} /\ 0 \in 0 .. 1 - 1 /\ 10 * a = 1 * (10 * a) + 0
    OBVIOUS
  <2>4. (10 * a) \div 1 = 10 * a /\ (10 * a) % 1 = 0
    BY <2>3, DivisionUnique
  <2>5. d = 10 * a /\ l = 0
    BY <2>2, <2>4
  <2> HIDE DEF d, l, pw, u
  <2>6. s.unit = u /\ s.tenths = d /\ 2 * l =< pw
    BY <2>1, <2>2, <2>5
  <2> QED
    BY <2>6 DEF Reads, d, l, pw, u
<1>2. CASE ~(a < Kilo)
  <2>1. s \in {[tenths |-> d + up, unit |-> u] :
                 up \in (IF 2 * l =< pw THEN {0} ELSE {}) \cup (IF 2 * l >= pw THEN {1} ELSE {})}
    BY <1>2 DEF human_size
  <2>2. d \in Nat /\ l \in Nat
    <3>1. 10 * a \in Nat
      OBVIOUS
    <3>2. d \in Nat /\ l \in 0 .. pw - 1
      BY <1>0, <3>1, Division
    <3> HIDE DEF d, l, pw
    <3> QED
      BY <1>0, <3>2
  <2> HIDE DEF d, l, pw, u
  <2>3. s.unit = u /\ ((s.tenths = d /\ 2 * l =< pw) \/ (s.tenths = d + 1 /\ 2 * l >= pw))
    BY <2>1, <2>2
  <2> QED
    BY <2>3 DEF Reads, d, l, pw, u
<1> QED
  BY <1>1, <1>2

\* What is read is at most a tenth of a unit from the size, and never one below it.
LEMMA ReadsNear ==
  ASSUME NEW a \in Nat, NEW pw \in Nat \ {0}, NEW t, Reads(a, t, pw)
  PROVE  /\ t \in Nat
         /\ \A m \in Nat : m * pw =< a => 10 * m =< t
         /\ \A m \in Nat : a < m * pw => t < 10 * m \/ (t = 10 * m /\ pw * t > 10 * a)
<1> DEFINE d == (10 * a) \div pw
           l == (10 * a) % pw
<1>0. 10 * a \in Nat
  OBVIOUS
<1>1. d \in Nat /\ l \in 0 .. pw - 1 /\ 10 * a = pw * d + l
  BY <1>0, Division
<1>2. t = d \/ t = d + 1
  BY DEF Reads
<1>3. ASSUME NEW m \in Nat, m * pw =< a PROVE 10 * m =< t
  <2>1. 10 * (m * pw) =< 10 * a
    <3>1. m * pw \in Nat
      BY Times
    <3> QED
      BY <1>3, <3>1, Times
  <2>2. 10 * m \in Nat /\ 10 * (m * pw) \in Nat /\ 0 \in 0 .. pw - 1 /\ 10 * (m * pw) = pw * (10 * m) + 0
    OBVIOUS
  <2>3. (10 * (m * pw)) \div pw = 10 * m
    BY <2>2, DivisionUnique
  <2>4. (10 * (m * pw)) \div pw =< (10 * a) \div pw
    BY <1>0, <2>1, <2>2, DivisionMonotone
  <2>5. 10 * m =< d
    BY <2>3, <2>4
  <2> HIDE DEF d, l
  <2> QED
    BY <1>1, <1>2, <2>2, <2>5
<1>4. ASSUME NEW m \in Nat, a < m * pw PROVE t < 10 * m \/ (t = 10 * m /\ pw * t > 10 * a)
  <2> HIDE DEF d, l
  <2>1. 10 * a < pw * (10 * m)
    <3>1. m * pw \in Nat /\ pw * (10 * m) = 10 * (m * pw)
      OBVIOUS
    <3> QED
      BY <1>4, <3>1
  <2>2. d < 10 * m
    <3>1. SUFFICES ASSUME 10 * m =< d PROVE FALSE
      BY <1>1
    <3>2. pw * (10 * m) =< pw * d
      <4>1. 10 * m \in Nat
        OBVIOUS
      <4> QED
        BY <1>1, <3>1, <4>1, Times
    <3>3. pw * (10 * m) \in Nat /\ pw * d \in Nat
      BY <1>1
    <3> QED
      BY <1>0, <1>1, <2>1, <3>2, <3>3
  <2>3. CASE t = d
    BY <2>2, <2>3
  <2>4. CASE t = d + 1
    <3>1. pw * t = pw * d + pw /\ pw * d \in Nat
      BY <1>1, <2>4, Times
    <3>2. pw * t > 10 * a
      BY <1>1, <3>1
    <3> QED
      BY <1>1, <2>2, <2>4, <3>2
  <2> QED
    BY <1>2, <2>3, <2>4
<1> QED
  <2> HIDE DEF d, l
  <2> QED
    BY <1>1, <1>2, <1>3, <1>4

\* In one unit the larger number does not read as less.
LEMMA ReadsMonotone ==
  ASSUME NEW a \in Nat, NEW b \in Nat, a < b, NEW pw \in Nat \ {0},
         NEW s, Reads(a, s, pw), NEW t, Reads(b, t, pw)
  PROVE  s =< t
<1> DEFINE d == (10 * a) \div pw
           l == (10 * a) % pw
           e == (10 * b) \div pw
           m == (10 * b) % pw
<1>0. 10 * a \in Nat /\ 10 * b \in Nat /\ 10 * a =< 10 * b
  OBVIOUS
<1>1. d \in Nat /\ l \in 0 .. pw - 1 /\ 10 * a = pw * d + l
  BY <1>0, Division
<1>2. e \in Nat /\ m \in 0 .. pw - 1 /\ 10 * b = pw * e + m
  BY <1>0, Division
<1>3. d =< e
  BY <1>0, DivisionMonotone
<1>4. /\ (s = d /\ 2 * l =< pw) \/ (s = d + 1 /\ 2 * l >= pw)
      /\ (t = e /\ 2 * m =< pw) \/ (t = e + 1 /\ 2 * m >= pw)
  BY DEF Reads
<1> HIDE DEF d, l, e, m
<1>5. CASE d < e
  BY <1>1, <1>2, <1>4, <1>5
<1>6. CASE d = e
  <2>1. pw * d \in Nat /\ pw * d = pw * e
    BY <1>1, <1>6
  <2>2. l < m
    BY <1>1, <1>2, <2>1
  <2> QED
    BY <1>1, <1>2, <1>4, <1>6, <2>2
<1> QED
  BY <1>1, <1>2, <1>3, <1>5, <1>6

\* One size, in its own unit.
LEMMA OneSize ==
  ASSUME NEW a \in Nat, NEW s \in human_size(a)
  PROVE  /\ s.tenths \in Nat /\ s.unit = UnitOf(a)
         /\ s.unit > 0 => s.tenths >= 10
         /\ s.unit < Units - 1 => /\ s.tenths =< 10 * Kilo
                                  /\ s.tenths < 10 * Kilo \/ Power[s.unit] * s.tenths > 10 * a
<1> DEFINE u == UnitOf(a)
           pw == Power[u]
<1>1. s.unit = u /\ Reads(a, s.tenths, pw)
  BY SizeIs
<1>2. u \in 0 .. Units - 1 /\ pw \in Nat \ {0} /\ (u = 0 \/ a >= pw)
      /\ \A v \in u + 1 .. Units - 1 : a < Power[v]
  BY UnitIs
<1> HIDE DEF u, pw
<1>3. /\ s.tenths \in Nat
      /\ \A m \in Nat : m * pw =< a => 10 * m =< s.tenths
      /\ \A m \in Nat : a < m * pw => s.tenths < 10 * m \/ (s.tenths = 10 * m /\ pw * s.tenths > 10 * a)
  BY <1>1, <1>2, ReadsNear
<1>4. ASSUME u > 0 PROVE s.tenths >= 10
  <2>1. 1 * pw =< a /\ 1 \in Nat
    BY <1>2, <1>4
  <2>2. 10 * 1 =< s.tenths
    BY <1>3, <2>1
  <2> QED
    BY <1>3, <2>2
<1>5. ASSUME u < Units - 1
      PROVE  s.tenths =< 10 * Kilo /\ (s.tenths < 10 * Kilo \/ pw * s.tenths > 10 * a)
  <2>1. u + 1 \in u + 1 .. Units - 1 /\ u + 1 \in 1 .. Units - 1 /\ (u + 1) - 1 = u
    BY <1>2, <1>5, PowerIs
  <2>2. Power[u + 1] = Kilo * pw /\ Kilo \in Nat
    BY <2>1, PowerIs DEF pw
  <2>3. a < Kilo * pw
    BY <1>2, <2>1, <2>2
  <2>4. s.tenths < 10 * Kilo \/ (s.tenths = 10 * Kilo /\ pw * s.tenths > 10 * a)
    BY <1>3, <2>2, <2>3
  <2>5. 10 * Kilo \in Nat
    BY <2>2
  <2> QED
    BY <1>3, <2>4, <2>5
<1>6. Power[s.unit] = pw /\ s.unit = UnitOf(a)
  BY <1>1 DEF pw, u
<1> QED
  BY <1>1, <1>3, <1>4, <1>5, <1>6

LEMMA TwoSizes ==
  ASSUME NEW a \in Nat, NEW b \in Nat, a < b, NEW s \in human_size(a), NEW t \in human_size(b)
  PROVE  Power[s.unit] * s.tenths =< Power[t.unit] * t.tenths
<1> DEFINE u == UnitOf(a)
           v == UnitOf(b)
           pw == Power[u]
           n == Power[v]
<1>1. s.unit = u /\ s.tenths \in Nat /\ t.unit = v /\ t.tenths \in Nat
  BY OneSize
<1>2. u \in 0 .. Units - 1 /\ pw \in Nat \ {0} /\ (u = 0 \/ a >= pw)
  BY UnitIs
<1>3. v \in 0 .. Units - 1 /\ n \in Nat \ {0} /\ \A w \in v + 1 .. Units - 1 : b < Power[w]
  BY UnitIs
<1>4. CASE u = v
  <2>1. s.tenths =< t.tenths
    <3>1. Reads(a, s.tenths, pw) /\ Reads(b, t.tenths, n) /\ pw = n
      BY <1>4, SizeIs
    <3>2. Reads(b, t.tenths, pw)
      BY <3>1
    <3> HIDE DEF pw, n, u, v
    <3> QED
      BY <1>2, <3>1, <3>2, ReadsMonotone
  <2> HIDE DEF pw, n, u, v
  <2>2. pw * s.tenths =< pw * t.tenths /\ pw = n
    BY <1>1, <1>2, <1>4, <2>1, Times DEF pw, n
  <2> QED
    BY <1>1, <2>2 DEF pw, n
<1>5. CASE u < v
  <2> HIDE DEF u, v
  <2>1. s.unit < Units - 1 /\ t.unit > 0
    BY <1>1, <1>2, <1>3, <1>5, PowerIs
  <2>2. s.tenths =< 10 * Kilo /\ 10 =< t.tenths
    BY <1>1, <2>1, OneSize
  <2>3. Kilo * pw =< n /\ Kilo \in Nat
    BY <1>2, <1>3, <1>5, PowerGrows, PowerIs
  <2> HIDE DEF pw, n
  <2>4. pw * s.tenths =< pw * (10 * Kilo)
    <3>1. 10 * Kilo \in Nat
      BY <2>3
    <3> QED
      BY <1>1, <1>2, <2>2, <3>1, Times
  <2>5. pw * (10 * Kilo) = 10 * (Kilo * pw)
    BY <1>2, <2>3
  <2>6. 10 * (Kilo * pw) =< 10 * n
    <3>1. Kilo * pw \in Nat
      BY <1>2, <2>3
    <3> QED
      BY <1>3, <2>3, <3>1, Times
  <2>7. n * 10 =< n * t.tenths /\ n * 10 = 10 * n
    BY <1>1, <1>3, <2>2, Times
  <2>8. /\ pw * s.tenths \in Nat /\ pw * (10 * Kilo) \in Nat /\ 10 * (Kilo * pw) \in Nat
        /\ 10 * n \in Nat /\ n * t.tenths \in Nat
    BY <1>1, <1>2, <1>3, <2>3
  <2> DEFINE p == pw * s.tenths
             q == pw * (10 * Kilo)
             r == 10 * (Kilo * pw)
             x == n * t.tenths
  <2>9. p \in Nat /\ q \in Nat /\ r \in Nat /\ x \in Nat
    BY <2>8
  <2>10. p =< q /\ q = r /\ r =< 10 * n /\ 10 * n =< x
    BY <2>4, <2>5, <2>6, <2>7
  <2> HIDE DEF p, q, r, x
  <2>11. p =< x
    BY <1>3, <2>9, <2>10
  <2> QED
    BY <1>1, <2>11 DEF p, x, pw, n
<1>6. CASE u > v
  <2> HIDE DEF pw, n, u, v
  <2>1. u \in v + 1 .. Units - 1 /\ u # 0
    BY <1>2, <1>3, <1>6
  <2>2. b < pw /\ a >= pw
    BY <1>2, <1>3, <2>1 DEF pw
  <2> QED
    BY <1>2, <2>2
<1> QED
  <2> HIDE DEF pw, n, u, v
  <2> QED
    BY <1>2, <1>3, <1>4, <1>5, <1>6

\* A larger disk or partition never reads as less than a smaller one, and every
\* number is cut down to its largest unit (lib.rs:197-213).
THEOREM SizesLegibleAlways == Spec => []SizesLegible
<1>1. TypeInv => SizesLegible
  <2> SUFFICES ASSUME TypeInv, stage = "drawn" PROVE SizesLegible
    BY DEF SizesLegible
  <2> DEFINE sizes == {disks[n].size : n \in DOMAIN disks} \cup {p.size : p \in Parts}
  <2>1. ASSUME NEW a \in sizes PROVE a \in Nat
    <3>1. CASE a \in {disks[n].size : n \in DOMAIN disks}
      <4>1. PICK n \in DOMAIN disks : a = disks[n].size
        BY <3>1
      <4>2. disks[n] \in Disk
        BY DEF TypeInv, TypeOK
      <4> QED
        BY <4>1, <4>2 DEF Disk
    <3>2. CASE a \in {p.size : p \in Parts}
      <4>1. PICK n \in DOMAIN This.parts : a = This.parts[n].size
        BY <3>2 DEF Parts
      <4>2. This.parts[n] \in Extent
        BY ThisBar
      <4> QED
        BY <4>1, <4>2 DEF Extent
    <3> QED
      BY <2>1, <3>1, <3>2
  <2> HIDE DEF sizes
  <2>2. ASSUME NEW a \in sizes, NEW s \in human_size(a)
        PROVE  /\ s.unit > 0 => s.tenths >= 10
               /\ s.unit < Units - 1 => s.tenths < 10 * Kilo \/ s.tenths * Power[s.unit] > 10 * a
    <3>1. a \in Nat
      BY <2>1, <2>2
    <3>2. UnitOf(a) \in 0 .. Units - 1 /\ Power[UnitOf(a)] \in Nat
      BY <3>1, UnitIs
    <3>3. s.tenths \in Nat /\ s.unit = UnitOf(a)
      BY <2>2, <3>1, OneSize
    <3>4. Power[s.unit] * s.tenths = s.tenths * Power[s.unit]
      BY <3>2, <3>3, Times
    <3> QED
      BY <2>2, <3>1, <3>4, OneSize
  <2>3. ASSUME NEW a \in sizes, NEW s \in human_size(a), NEW b \in sizes, NEW t \in human_size(b), a < b
        PROVE  s.tenths * Power[s.unit] =< t.tenths * Power[t.unit]
    <3>1. a \in Nat /\ b \in Nat
      BY <2>1, <2>3
    <3>2. Power[UnitOf(a)] \in Nat /\ Power[UnitOf(b)] \in Nat
      BY <3>1, UnitIs
    <3>3. /\ s.tenths \in Nat /\ s.unit = UnitOf(a)
          /\ t.tenths \in Nat /\ t.unit = UnitOf(b)
      BY <2>3, <3>1, OneSize
    <3>4. /\ Power[s.unit] * s.tenths = s.tenths * Power[s.unit]
          /\ Power[t.unit] * t.tenths = t.tenths * Power[t.unit]
      BY <3>2, <3>3, Times
    <3> QED
      BY <2>3, <3>1, <3>4, TwoSizes
  <2> QED
    BY <2>2, <2>3 DEF SizesLegible, sizes
<1> QED
  BY <1>1, TypesHold, PTL
=============================================================================
