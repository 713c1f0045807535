-------------------------- MODULE AcquisitionProofs --------------------------
(***************************************************************************)
(* What a list says of mounts, and what triage and an acquisition can rely *)
(* on, for any disks, paths and kernel steps.                              *)
(*                                                                         *)
(* First, the text of a mount point: read back it is the path, for paths   *)
(* of any length.  The two recursions, over the path and over the text,    *)
(* are followed position by position.  Then the mounts of a list: until    *)
(* the next call, a partition that is not remounted has the mount point    *)
(* that was read of the first line of its own.  Last, the disk that was    *)
(* chosen: it is one of the list, its findings are those of its record,    *)
(* and the handle is on the medium that had its name.                      *)
(***************************************************************************)
EXTENDS Acquisition, LinuxWalkProofs

-----------------------------------------------------------------------------
(* The text of a mount point. *)

\* What a character is written as.
Esc(s, i) == IF s[i] \in Escaped THEN Octal(s[i]) ELSE <<s[i]>>

\* The recursions of seq_path and of decode_octal.
Writes(s, e) ==
  e = [i \in 1 .. Len(s) + 1 |-> IF i > Len(s) THEN <<>> ELSE Esc(s, i) \o e[i + 1]]
Decodes(t, d) ==
  d = [i \in 1 .. Len(t) + 1 |->
         IF i > Len(t) THEN <<>>
         ELSE IF IsEscape(t, i) THEN <<Byte(t, i)>> \o d[i + 4]
         ELSE <<t[i]>> \o d[i + 1]]

LEMMA WritesExists ==
  ASSUME NEW s \in Seq(Int)
  PROVE  \E e : Writes(s, e)
<1> DEFINE n == Len(s)
           Sat(f, k) == f = [i \in k .. n + 1 |-> IF i > n THEN <<>> ELSE Esc(s, i) \o f[i + 1]]
           P == {k \in 1 .. n + 1 : \E f : Sat(f, k)}
<1>1. n \in Nat
  OBVIOUS
<1>2. ASSUME NEW k \in 1 .. n + 1, \A j \in k + 1 .. n + 1 : j \in P
      PROVE  k \in P
  <2>1. CASE k = n + 1
    <3> DEFINE g == [i \in k .. n + 1 |-> <<>>]
    <3>1. \A i \in k .. n + 1 : i > n
      BY <1>1, <2>1
    <3>2. Sat(g, k)
      BY <3>1
    <3> QED
      BY <3>2
  <2>2. CASE k # n + 1
    <3>1. k + 1 \in k + 1 .. n + 1
      BY <1>1, <2>2
    <3>2. PICK f : Sat(f, k + 1)
      BY <1>2, <3>1
    <3> DEFINE g == [i \in k .. n + 1 |-> IF i = k THEN Esc(s, k) \o f[k + 1] ELSE f[i]]
    <3>3. Sat(g, k)
      <4> SUFFICES ASSUME NEW i \in k .. n + 1
                   PROVE  g[i] = IF i > n THEN <<>> ELSE Esc(s, i) \o g[i + 1]
        BY <1>1
      <4>1. CASE i = k
        BY <1>1, <2>2, <4>1, SMTT(30)
      <4>2. CASE i # k
        <5>1. i \in k + 1 .. n + 1 /\ g[i] = f[i]
          BY <1>1, <4>2
        <5>2. i =< n => g[i + 1] = f[i + 1]
          BY <1>1, <4>2
        <5>3. f[i] = IF i > n THEN <<>> ELSE Esc(s, i) \o f[i + 1]
          BY <3>2, <5>1, Zenon
        <5> QED
          BY <1>1, <5>1, <5>2, <5>3
      <4> QED
        BY <4>1, <4>2
    <3> HIDE DEF g
    <3> QED
      BY <3>3
  <2> QED
    BY <2>1, <2>2
<1>3. 1 \in P
  <2> HIDE DEF P
  <2>1. n + 1 \in Nat /\ 1 \in 1 .. n + 1
    BY <1>1
  <2> QED
    BY <1>2, <2>1, DownwardInduction
<1> QED
  BY <1>3 DEF Writes

LEMMA DecodesExists ==
  ASSUME NEW t \in Seq(Int)
  PROVE  \E e : Decodes(t, e)
<1> DEFINE n == Len(t)
           Step(i, f) == IF IsEscape(t, i) THEN <<Byte(t, i)>> \o f[i + 4]
                         ELSE <<t[i]>> \o f[i + 1]
           Sat(f, k) == f = [i \in k .. n + 1 |-> IF i > n THEN <<>> ELSE Step(i, f)]
           P == {k \in 1 .. n + 1 : \E f : Sat(f, k)}
<1>1. n \in Nat
  OBVIOUS
<1>2. ASSUME NEW k \in 1 .. n + 1, \A j \in k + 1 .. n + 1 : j \in P
      PROVE  k \in P
  <2>1. CASE k = n + 1
    <3> DEFINE g == [i \in k .. n + 1 |-> <<>>]
    <3>1. \A i \in k .. n + 1 : i > n
      BY <1>1, <2>1
    <3>2. Sat(g, k)
      BY <3>1
    <3> QED
      BY <3>2
  <2>2. CASE k # n + 1
    <3>1. k + 1 \in k + 1 .. n + 1
      BY <1>1, <2>2
    <3>2. PICK f : Sat(f, k + 1)
      BY <1>2, <3>1
    <3> DEFINE g == [i \in k .. n + 1 |-> IF i = k THEN Step(k, f) ELSE f[i]]
    <3>3. \A i \in k + 1 .. n + 1 : f[i] = IF i > n THEN <<>> ELSE Step(i, f)
      BY <3>2, Zenon
    <3>4. ASSUME NEW i \in k .. n + 1
          PROVE  g[i] = IF i > n THEN <<>> ELSE Step(i, g)
      <4>1. \A j \in k + 1 .. n + 1 : g[j] = f[j]
        BY <1>1
      <4>2. i =< n => i + 1 \in k + 1 .. n + 1
        BY <1>1
      <4>3. i =< n /\ IsEscape(t, i) => i + 4 \in k + 1 .. n + 1
        BY <1>1 DEF IsEscape
      <4>4. i =< n => Step(i, g) = Step(i, f)
        <5> HIDE DEF g
        <5> QED
          BY <4>1, <4>2, <4>3
      <4>5. CASE i = k
        <5>1. ~(i > n)
          BY <1>1, <2>2, <4>5
        <5>2. g[i] = Step(i, f)
          BY <4>5, Zenon
        <5> QED
          BY <1>1, <4>4, <4>5, <5>1, <5>2
      <4>6. CASE i # k
        <5>1. i \in k + 1 .. n + 1
          BY <1>1, <4>6
        <5> HIDE DEF g, Step
        <5> QED
          BY <1>1, <3>3, <4>1, <4>4, <5>1
      <4> QED
        BY <4>5, <4>6
    <3>5. Sat(g, k)
      BY <3>4
    <3> HIDE DEF g
    <3> QED
      BY <3>5
  <2> QED
    BY <2>1, <2>2
<1>3. 1 \in P
  <2> HIDE DEF P
  <2>1. n + 1 \in Nat /\ 1 \in 1 .. n + 1
    BY <1>1
  <2> QED
    BY <1>2, <2>1, DownwardInduction
<1> QED
  BY <1>3 DEF Decodes

LEMMA SeqPathWrites ==
  ASSUME NEW s \in Seq(Int)
  PROVE  \E e : Writes(s, e) /\ seq_path(s) = e[1]
BY WritesExists DEF Writes, seq_path, Esc

LEMMA DecodeDecodes ==
  ASSUME NEW t \in Seq(Int)
  PROVE  \E d : Decodes(t, d) /\ decode_octal(t) = d[1]
BY DecodesExists DEF Decodes, decode_octal

\* The digits of the characters that are escaped.
LEMMA OctalDigits ==
  ASSUME NEW c \in Escaped
  PROVE  \E x, y, z \in 0 .. 7 : /\ Octal(c) = <<92, 48 + x, 48 + y, 48 + z>>
                                 /\ 64 * x + 8 * y + z = c
                                 /\ c \in 0 .. 255
<1>1. c = 9 \/ c = 10 \/ c = 32 \/ c = 92
  BY DEF Escaped, Backslash
<1> DEFINE x == c \div 64
           y == (c \div 8) % 8
           z == c % 8
<1>2. x \in 0 .. 7 /\ y \in 0 .. 7 /\ z \in 0 .. 7 /\ 64 * x + 8 * y + z = c
  <2>1. CASE c = 9
    <3>1. 9 \div 64 = 0 /\ 9 \div 8 = 1 /\ 9 % 8 = 1 /\ 1 % 8 = 1
      OBVIOUS
    <3> QED
      BY <2>1, <3>1
  <2>2. CASE c = 10
    <3>1. 10 \div 64 = 0 /\ 10 \div 8 = 1 /\ 10 % 8 = 2 /\ 1 % 8 = 1
      OBVIOUS
    <3> QED
      BY <2>2, <3>1
  <2>3. CASE c = 32
    <3>1. 32 \div 64 = 0 /\ 32 \div 8 = 4 /\ 32 % 8 = 0 /\ 4 % 8 = 4
      OBVIOUS
    <3> QED
      BY <2>3, <3>1
  <2>4. CASE c = 92
    <3>1. 92 \div 64 = 1 /\ 92 \div 8 = 11 /\ 92 % 8 = 4 /\ 11 % 8 = 3
      OBVIOUS
    <3> QED
      BY <2>4, <3>1
  <2> QED
    BY <1>1, <2>1, <2>2, <2>3, <2>4
<1>3. Octal(c) = <<92, 48 + x, 48 + y, 48 + z>>
  BY DEF Octal, Backslash, Zero
<1>4. c \in 0 .. 255
  BY <1>1
<1> HIDE DEF x, y, z
<1> QED
  BY <1>2, <1>3, <1>4

LEMMA OctalClean ==
  ASSUME NEW c \in Escaped
  PROVE  Len(Octal(c)) = 4 /\ \A j \in 1 .. 4 : Octal(c)[j] \in 48 .. 92
<1>1. PICK x, y, z \in 0 .. 7 : /\ Octal(c) = <<92, 48 + x, 48 + y, 48 + z>>
                                /\ 64 * x + 8 * y + z = c
                                /\ c \in 0 .. 255
  BY OctalDigits
<1>2. /\ Octal(c)[1] = 92 /\ Octal(c)[2] = 48 + x /\ Octal(c)[3] = 48 + y
      /\ Octal(c)[4] = 48 + z /\ Len(Octal(c)) = 4
  BY <1>1
<1>3. 92 \in 48 .. 92 /\ 48 + x \in 48 .. 92 /\ 48 + y \in 48 .. 92 /\ 48 + z \in 48 .. 92
  OBVIOUS
<1>4. \A j \in 1 .. 4 : j = 1 \/ j = 2 \/ j = 3 \/ j = 4
  OBVIOUS
<1>5. \A j \in 1 .. 4 : Octal(c)[j] \in 48 .. 92
  BY <1>2, <1>3, <1>4
<1> QED
  BY <1>2, <1>5

LEMMA EscType ==
  ASSUME NEW s \in Seq(Int), NEW i \in 1 .. Len(s)
  PROVE  Esc(s, i) \in Seq(Int) /\ Len(Esc(s, i)) \in {1, 4}
BY DEF Esc, Octal, Escaped, Backslash, Zero

LEMMA WritesRule ==
  ASSUME NEW s \in Seq(Int), NEW e, Writes(s, e)
  PROVE  /\ e[Len(s) + 1] = <<>>
         /\ \A i \in 1 .. Len(s) : e[i] = Esc(s, i) \o e[i + 1]
<1> DEFINE R(i) == Esc(s, i) \o e[i + 1]
<1>1. \A i \in 1 .. Len(s) + 1 : e[i] = IF i > Len(s) THEN <<>> ELSE R(i)
  BY Zenon DEF Writes
<1>2. \A i \in 1 .. Len(s) : e[i] = R(i)
  <2> HIDE DEF R
  <2> QED
    BY <1>1
<1>3. e[Len(s) + 1] = <<>>
  <2> HIDE DEF R
  <2> QED
    BY <1>1
<1> QED
  BY <1>2, <1>3, Zenon

LEMMA DecodesRule ==
  ASSUME NEW t \in Seq(Int), NEW d, Decodes(t, d)
  PROVE  /\ d[Len(t) + 1] = <<>>
         /\ \A i \in 1 .. Len(t) : d[i] = IF IsEscape(t, i) THEN <<Byte(t, i)>> \o d[i + 4]
                                          ELSE <<t[i]>> \o d[i + 1]
<1> DEFINE R(i) == IF IsEscape(t, i) THEN <<Byte(t, i)>> \o d[i + 4]
                   ELSE <<t[i]>> \o d[i + 1]
<1>1. \A i \in 1 .. Len(t) + 1 : d[i] = IF i > Len(t) THEN <<>> ELSE R(i)
  BY Zenon DEF Decodes
<1>2. \A i \in 1 .. Len(t) : d[i] = R(i)
  <2> HIDE DEF R
  <2> QED
    BY <1>1
<1>3. d[Len(t) + 1] = <<>>
  <2> HIDE DEF R
  <2> QED
    BY <1>1
<1> QED
  BY <1>2, <1>3, Zenon

LEMMA WritesType ==
  ASSUME NEW s \in Seq(Int), NEW e, Writes(s, e)
  PROVE  \A i \in 1 .. Len(s) + 1 : e[i] \in Seq(Int)
<1> DEFINE n == Len(s)
           P == {i \in 1 .. n + 1 : e[i] \in Seq(Int)}
<1>1. n + 1 \in Nat
  OBVIOUS
<1>2. ASSUME NEW i \in 1 .. n + 1, \A j \in i + 1 .. n + 1 : j \in P
      PROVE  i \in P
  <2>1. CASE i = n + 1
    <3>1. e[n + 1] = <<>>
      BY WritesRule
    <3>2. <<>> \in Seq(Int)
      OBVIOUS
    <3>3. e[i] \in Seq(Int)
      BY <2>1, <3>1, <3>2
    <3> QED
      BY <3>3
  <2>2. CASE i # n + 1
    <3>1. i \in 1 .. n /\ i + 1 \in i + 1 .. n + 1
      BY <1>1, <2>2
    <3>2. e[i] = Esc(s, i) \o e[i + 1] /\ e[i + 1] \in Seq(Int) /\ Esc(s, i) \in Seq(Int)
      BY <1>2, <3>1, WritesRule, EscType
    <3>3. e[i] \in Seq(Int)
      BY <3>2
    <3> QED
      BY <3>3
  <2> QED
    BY <2>1, <2>2
<1>3. \A i \in 1 .. n + 1 : i \in P
  <2> HIDE DEF P
  <2> QED
    BY <1>1, <1>2, DownwardInduction
<1> QED
  BY <1>3

LEMMA DecodesType ==
  ASSUME NEW t \in Seq(Int), NEW d, Decodes(t, d)
  PROVE  \A i \in 1 .. Len(t) + 1 : d[i] \in Seq(Int)
<1> DEFINE n == Len(t)
           P == {i \in 1 .. n + 1 : d[i] \in Seq(Int)}
<1>1. n + 1 \in Nat
  OBVIOUS
<1>2. ASSUME NEW i \in 1 .. n + 1, \A j \in i + 1 .. n + 1 : j \in P
      PROVE  i \in P
  <2>1. CASE i = n + 1
    <3>1. d[n + 1] = <<>>
      BY DecodesRule
    <3>2. <<>> \in Seq(Int)
      OBVIOUS
    <3>3. d[i] \in Seq(Int)
      BY <2>1, <3>1, <3>2
    <3> QED
      BY <3>3
  <2>2. CASE i # n + 1
    <3>1. i \in 1 .. n
      BY <1>1, <2>2
    <3>2. d[i] = IF IsEscape(t, i) THEN <<Byte(t, i)>> \o d[i + 4] ELSE <<t[i]>> \o d[i + 1]
      BY <3>1, DecodesRule
    <3>3. \A j \in i + 1 .. n + 1 : d[j] \in Seq(Int)
      BY <1>2
    <3>4. i + 1 \in i + 1 .. n + 1 /\ t[i] \in Int
      BY <3>1
    <3>5. CASE IsEscape(t, i)
      <4>1. i + 4 \in i + 1 .. n + 1 /\ i + 1 \in 1 .. n /\ i + 2 \in 1 .. n /\ i + 3 \in 1 .. n
        BY <3>1, <3>5 DEF IsEscape
      <4>2. Byte(t, i) \in Int
        <5>1. t[i + 1] \in Int /\ t[i + 2] \in Int /\ t[i + 3] \in Int
          BY <4>1
        <5>2. \A a, b, c \in Int : 64 * (a - 48) + 8 * (b - 48) + (c - 48) \in Int
          OBVIOUS
        <5> QED
          BY <5>1, <5>2, Zenon DEF Byte, Zero
      <4>3. d[i + 4] \in Seq(Int)
        BY <3>3, <4>1
      <4>4. d[i] \in Seq(Int)
        BY <3>2, <3>5, <4>2, <4>3
      <4> QED
        BY <4>4
    <3>6. CASE ~IsEscape(t, i)
      <4>1. d[i] \in Seq(Int)
        BY <3>2, <3>3, <3>4, <3>6
      <4> QED
        BY <4>1
    <3> QED
      BY <3>5, <3>6
  <2> QED
    BY <2>1, <2>2
<1>3. \A i \in 1 .. n + 1 : i \in P
  <2> HIDE DEF P
  <2> QED
    BY <1>1, <1>2, DownwardInduction
<1> QED
  BY <1>3

LEMMA WritesNoBlanks ==
  ASSUME NEW s \in Seq(Int), Unbroken(s), NEW e, Writes(s, e)
  PROVE  \A i \in 1 .. Len(s) + 1 : \A j \in 1 .. Len(e[i]) : e[i][j] \notin White_Space
<1> DEFINE n == Len(s)
           Clean(u) == \A j \in 1 .. Len(u) : u[j] \notin White_Space
           P == {i \in 1 .. n + 1 : Clean(e[i])}
<1>1. n + 1 \in Nat
  OBVIOUS
<1>2. \A u, v \in Seq(Int) : Clean(u) /\ Clean(v) => Clean(u \o v)
  BY ConcatProperties
<1>3. \A i \in 1 .. n : Clean(Esc(s, i))
  <2> SUFFICES ASSUME NEW i \in 1 .. n
               PROVE  Clean(Esc(s, i))
    OBVIOUS
  <2>1. CASE s[i] \in Escaped
    <3>1. \A c \in 48 .. 92 : c \notin White_Space
      BY DEF White_Space
    <3>2. Esc(s, i) = Octal(s[i])
      BY <2>1 DEF Esc
    <3>3. Len(Esc(s, i)) = 4 /\ \A j \in 1 .. 4 : Esc(s, i)[j] \in 48 .. 92
      BY <2>1, <3>2, OctalClean, Zenon
    <3> QED
      BY <3>1, <3>3
  <2>2. CASE s[i] \notin Escaped
    <3>1. s[i] \notin White_Space /\ Esc(s, i) = <<s[i]>>
      BY <2>2 DEF Unbroken, Esc
    <3> QED
      BY <3>1
  <2> QED
    BY <2>1, <2>2
<1>4. ASSUME NEW i \in 1 .. n + 1, \A j \in i + 1 .. n + 1 : j \in P
      PROVE  i \in P
  <2>1. CASE i = n + 1
    <3>1. e[i] = <<>>
      BY <2>1, WritesRule
    <3>2. Clean(<<>>)
      OBVIOUS
    <3> QED
      BY <3>1, <3>2
  <2>2. CASE i # n + 1
    <3>1. i \in 1 .. n /\ i + 1 \in i + 1 .. n + 1 /\ i + 1 \in 1 .. n + 1
      BY <1>1, <2>2
    <3>2. /\ e[i] = Esc(s, i) \o e[i + 1] /\ e[i + 1] \in Seq(Int) /\ Esc(s, i) \in Seq(Int)
      BY <3>1, WritesRule, WritesType, EscType
    <3>3. Clean(e[i + 1]) /\ Clean(Esc(s, i))
      BY <1>3, <1>4, <3>1
    <3> HIDE DEF Clean
    <3>4. Clean(e[i])
      BY <1>2, <3>2, <3>3
    <3> QED
      BY <3>4
  <2> QED
    BY <2>1, <2>2
<1>5. \A i \in 1 .. n + 1 : i \in P
  <2> HIDE DEF P
  <2> QED
    BY <1>1, <1>4, DownwardInduction
<1> QED
  BY <1>5

EndsWith(t, u) == /\ Len(u) =< Len(t)
                  /\ \A j \in 1 .. Len(u) : t[Len(t) - Len(u) + j] = u[j]

\* What is written of the path from any of its characters on is the end of the
\* text.
LEMMA WritesSuffix ==
  ASSUME NEW s \in Seq(Int), NEW e, Writes(s, e)
  PROVE  \A i \in 1 .. Len(s) + 1 : EndsWith(e[1], e[i])
<1> DEFINE n == Len(s)
           t == e[1]
           End(u) == EndsWith(t, u)
           P == {i \in 1 .. n + 1 : End(e[i])}
<1>1. n + 1 \in Nat /\ 1 \in 1 .. n + 1
  OBVIOUS
<1>2. t \in Seq(Int)
  BY <1>1, WritesType
<1>3. \A u, v \in Seq(Int) : End(u \o v) => End(v)
  <2> SUFFICES ASSUME NEW u \in Seq(Int), NEW v \in Seq(Int), End(u \o v)
               PROVE  End(v)
    OBVIOUS
  <2> USE DEF EndsWith
  <2>0. Len(u) \in Nat /\ Len(v) \in Nat /\ Len(t) \in Nat
    BY <1>2
  <2>1. /\ Len(u \o v) = Len(u) + Len(v)
        /\ \A j \in 1 .. Len(v) : (u \o v)[Len(u) + j] = v[j]
    <3> HIDE DEF End
    <3> QED
      BY <2>0, ConcatProperties
  <2>2. ASSUME NEW j \in 1 .. Len(v)
        PROVE  t[Len(t) - Len(v) + j] = v[j]
    <3>1. Len(u) + j \in 1 .. Len(u \o v)
      BY <2>0, <2>1
    <3>2. Len(t) - (Len(u) + Len(v)) + (Len(u) + j) = Len(t) - Len(v) + j
      <4>1. \A a, b, c, k \in Int : a - (b + c) + (b + k) = a - c + k
        OBVIOUS
      <4>2. j \in Int /\ Len(t) \in Int /\ Len(u) \in Int /\ Len(v) \in Int
        BY <2>0
      <4> HIDE DEF t, End
      <4> QED
        BY <4>1, <4>2
    <3>3. t[Len(t) - Len(u \o v) + (Len(u) + j)] = (u \o v)[Len(u) + j]
      BY <3>1
    <3> QED
      BY <2>1, <3>2, <3>3
  <2> QED
    BY <2>1, <2>2
<1>4. 1 \in P
  <2>1. Len(t) \in Nat /\ \A j \in 1 .. Len(t) : Len(t) - Len(t) + j = j
    BY <1>2
  <2>2. End(t)
    BY <2>1 DEF EndsWith
  <2> QED
    BY <1>1, <2>2
<1>5. ASSUME NEW i \in 1 .. (n + 1) - 1, i \in P
      PROVE  i + 1 \in P
  <2>1. i \in 1 .. n /\ i + 1 \in 1 .. n + 1
    BY <1>1
  <2>2. e[i] = Esc(s, i) \o e[i + 1] /\ e[i + 1] \in Seq(Int) /\ Esc(s, i) \in Seq(Int)
    BY <2>1, WritesRule, WritesType, EscType
  <2>3. End(e[i])
    BY <1>5
  <2> HIDE DEF End
  <2>4. End(e[i + 1])
    BY <1>3, <2>2, <2>3
  <2> QED
    BY <2>1, <2>4
<1>6. \A i \in 1 .. n + 1 : i \in P
  <2> HIDE DEF P
  <2> QED
    BY <1>1, <1>4, <1>5, UpwardInduction
<1> QED
  BY <1>6

\* An escape is read as the character it was written for.
LEMMA EscapeRead ==
  ASSUME NEW t \in Seq(Int), NEW p \in Nat, p + 3 =< Len(t), NEW c \in Escaped,
         \A j \in 1 .. 4 : t[p - 1 + j] = Octal(c)[j]
  PROVE  IsEscape(t, p) /\ Byte(t, p) = c
<1>1. /\ t[p] = Octal(c)[1] /\ t[p + 1] = Octal(c)[2]
      /\ t[p + 2] = Octal(c)[3] /\ t[p + 3] = Octal(c)[4]
  <2>1. p - 1 + 1 = p /\ p - 1 + 2 = p + 1 /\ p - 1 + 3 = p + 2 /\ p - 1 + 4 = p + 3
    OBVIOUS
  <2> QED
    BY <2>1
<1>2. PICK x, y, z \in 0 .. 7 : /\ Octal(c) = <<92, 48 + x, 48 + y, 48 + z>>
                                /\ 64 * x + 8 * y + z = c
                                /\ c \in 0 .. 255
  BY OctalDigits
<1>3. t[p] = 92 /\ t[p + 1] = 48 + x /\ t[p + 2] = 48 + y /\ t[p + 3] = 48 + z
  BY <1>1, <1>2
<1>4. Byte(t, p) = c
  <2>1. Byte(t, p) = 64 * (48 + x - 48) + 8 * (48 + y - 48) + (48 + z - 48)
    BY <1>3 DEF Byte, Zero
  <2> QED
    BY <1>2, <2>1
<1>5. ASSUME NEW j \in p + 1 .. p + 3
      PROVE  t[j] - 48 \in 0 .. 7
  <2>1. \A q \in Nat : \A k \in q + 1 .. q + 3 : k = q + 1 \/ k = q + 2 \/ k = q + 3
    OBVIOUS
  <2>2. j = p + 1 \/ j = p + 2 \/ j = p + 3
    BY <2>1, Zenon
  <2>3. 48 + x - 48 = x /\ 48 + y - 48 = y /\ 48 + z - 48 = z
    OBVIOUS
  <2>4. t[j] = 48 + x \/ t[j] = 48 + y \/ t[j] = 48 + z
    BY <1>3, <2>2, Zenon
  <2> DEFINE v == t[j]
  <2>5. v - 48 = x \/ v - 48 = y \/ v - 48 = z
    <3>1. v = 48 + x \/ v = 48 + y \/ v = 48 + z
      BY <2>4
    <3> HIDE DEF v
    <3> QED
      BY <3>1, SMTT(30)
  <2> QED
    BY <2>5, Zenon
<1> QED
  BY <1>2, <1>3, <1>4, <1>5, SMTT(30) DEF IsEscape, Backslash, Zero

\* A path without white space but what is escaped is read back as it was.
LEMMA ReadBack ==
  ASSUME NEW s \in Seq(Int), NEW e, Writes(s, e), NEW d, Decodes(e[1], d)
  PROVE  d[1] = s
<1> DEFINE n == Len(s)
           t == e[1]
           pos(i) == Len(t) - Len(e[i]) + 1
           P == {i \in 1 .. n + 1 : d[pos(i)] = SubSeq(s, i, n)}
<1>1. n + 1 \in Nat /\ n \in Nat /\ 1 \in 1 .. n + 1
  OBVIOUS
<1>2. t \in Seq(Int) /\ Len(t) \in Nat
  BY <1>1, WritesType
<1>w. \A i \in 1 .. n + 1 : EndsWith(t, e[i])
  BY WritesSuffix, Zenon
<1>3. ASSUME NEW i \in 1 .. n + 1, \A j \in i + 1 .. n + 1 : j \in P
      PROVE  i \in P
  <2>1. CASE i = n + 1
    <3>1. e[i] = <<>> /\ d[Len(t) + 1] = <<>>
      BY <1>2, <2>1, WritesRule, DecodesRule
    <3>2. pos(i) = Len(t) + 1
      BY <1>2, <3>1
    <3>3. SubSeq(s, i, n) = <<>>
      BY <1>1, <2>1, SubSeqEmpty
    <3> QED
      BY <3>1, <3>2, <3>3
  <2>2. CASE i # n + 1
    <3>1. i \in 1 .. n /\ i + 1 \in i + 1 .. n + 1 /\ i + 1 \in 1 .. n + 1
      BY <1>1, <2>2
    <3> DEFINE u == Esc(s, i)
               v == e[i + 1]
    <3>2. e[i] = u \o v /\ v \in Seq(Int) /\ u \in Seq(Int) /\ Len(u) \in {1, 4}
      BY <3>1, WritesRule, WritesType, EscType
    <3>3. /\ Len(e[i]) = Len(u) + Len(v) /\ Len(v) \in Nat
          /\ \A j \in 1 .. Len(u) : e[i][j] = u[j]
      <4> HIDE DEF u, v
      <4> QED
        BY <3>2, ConcatProperties
    <3>4. /\ Len(e[i]) =< Len(t)
          /\ \A j \in 1 .. Len(e[i]) : t[Len(t) - Len(e[i]) + j] = e[i][j]
      BY <1>w DEF EndsWith
    <3> DEFINE p == pos(i)
    <3>e. pos(i + 1) = Len(t) - Len(v) + 1
      OBVIOUS
    <3>5. p \in 1 .. Len(t) /\ p + Len(u) = pos(i + 1) /\ p - 1 + Len(u) =< Len(t)
      <4>1. \A a, b, c, f \in Nat : f = b + c /\ f =< a /\ b >= 1 =>
                 /\ a - f + 1 \in 1 .. a /\ a - f + 1 + b = a - c + 1
                 /\ a - f + 1 - 1 + b =< a
        OBVIOUS
      <4>2. Len(t) \in Nat /\ Len(u) \in Nat /\ Len(v) \in Nat /\ Len(e[i]) \in Nat /\ Len(u) >= 1
        <5>1. \A k : k \in {1, 4} => k \in Nat /\ k >= 1
          OBVIOUS
        <5>2. Len(u) \in Nat /\ Len(u) >= 1
          BY <3>2, <5>1, Zenon
        <5>3. \A b, c \in Nat : b + c \in Nat
          OBVIOUS
        <5> QED
          BY <1>2, <3>3, <5>2, <5>3, Zenon
      <4>3. p = Len(t) - Len(e[i]) + 1
        OBVIOUS
      <4> HIDE DEF p
      <4>4. /\ Len(t) - Len(e[i]) + 1 \in 1 .. Len(t)
            /\ Len(t) - Len(e[i]) + 1 + Len(u) = Len(t) - Len(v) + 1
            /\ Len(t) - Len(e[i]) + 1 - 1 + Len(u) =< Len(t)
        <5> HIDE DEF t, u, v
        <5> QED
          BY <3>3, <3>4, <4>1, <4>2
      <4> HIDE DEF t, u, v, pos
      <4>5. p \in 1 .. Len(t)
        BY <4>3, <4>4
      <4>6. p + Len(u) = pos(i + 1)
        BY <3>e, <4>3, <4>4
      <4>7. p - 1 + Len(u) =< Len(t)
        BY <4>3, <4>4
      <4> QED
        BY <4>5, <4>6, <4>7
    <3>6. \A j \in 1 .. Len(u) : t[p - 1 + j] = u[j]
      <4> SUFFICES ASSUME NEW j \in 1 .. Len(u) PROVE t[p - 1 + j] = u[j]
        OBVIOUS
      <4>1. j \in 1 .. Len(e[i]) /\ p - 1 + j = Len(t) - Len(e[i]) + j
        <5> HIDE DEF t, u, v
        <5> QED
          BY <1>2, <3>2, <3>3
      <4> QED
        BY <3>3, <3>4, <4>1, Zenon
    <3>7. d[pos(i + 1)] = SubSeq(s, i + 1, n)
      BY <1>3, <3>1
    <3>8. d[p] = IF IsEscape(t, p) THEN <<Byte(t, p)>> \o d[p + 4] ELSE <<t[p]>> \o d[p + 1]
      BY <1>2, <3>5, DecodesRule
    <3>9. d[p] = <<s[i]>> \o SubSeq(s, i + 1, n)
      <4>1. CASE s[i] \in Escaped
        <5>1. u = Octal(s[i])
          BY <4>1 DEF Esc
        <5>2. Len(u) = 4
          BY <4>1, <5>1, OctalClean
        <5>3. p \in Nat /\ p + 3 =< Len(t)
          <6> HIDE DEF t, u, p
          <6> QED
            BY <1>2, <3>5, <5>2
        <5>4. \A j \in 1 .. 4 : t[p - 1 + j] = Octal(s[i])[j]
          BY <3>6, <5>1, <5>2, Zenon
        <5>5. IsEscape(t, p) /\ Byte(t, p) = s[i]
          <6> HIDE DEF t, u, p
          <6> QED
            BY <1>2, <4>1, <5>3, <5>4, EscapeRead, Zenon
        <5> QED
          BY <3>5, <3>7, <3>8, <5>2, <5>5, Zenon
      <4>2. CASE s[i] \notin Escaped
        <5>1. u = <<s[i]>>
          BY <4>2 DEF Esc
        <5>2. Len(u) = 1 /\ u[1] = s[i]
          BY <5>1
        <5>3. t[p] = s[i]
          <6>1. 1 \in 1 .. Len(u) /\ p - 1 + 1 = p
            <7> HIDE DEF t, u, p
            <7> QED
              BY <1>2, <3>5, <5>2
          <6> QED
            BY <3>6, <5>2, <6>1, Zenon
        <5>4. ~IsEscape(t, p)
          BY <4>2, <5>3 DEF IsEscape, Escaped
        <5> QED
          BY <3>5, <3>7, <3>8, <5>2, <5>3, <5>4, Zenon
      <4> QED
        BY <4>1, <4>2
    <3>10. <<s[i]>> \o SubSeq(s, i + 1, n) = SubSeq(s, i, n)
      <4> DEFINE a == <<s[i]>> \o SubSeq(s, i + 1, n)
                 b == SubSeq(s, i, n)
      <4>1. /\ Len(a) = n - i + 1 /\ Len(b) = n - i + 1 /\ a \in Seq(Int) /\ b \in Seq(Int)
        BY <1>1, <3>1
      <4>2. \A j \in 1 .. n - i + 1 : a[j] = b[j]
        BY <1>1, <3>1
      <4> HIDE DEF a, b
      <4>3. a = b
        BY <4>1, <4>2, SeqEqual
      <4> QED
        BY <4>3 DEF a, b
    <3>11. d[pos(i)] = SubSeq(s, i, n)
      BY <3>9, <3>10, Zenon
    <3> QED
      BY <3>11
  <2> QED
    BY <2>1, <2>2
<1>4. 1 \in P
  <2> HIDE DEF P
  <2> QED
    BY <1>1, <1>3, DownwardInduction
<1>5. pos(1) = 1
  BY <1>2
<1>6. SubSeq(s, 1, n) = s
  OBVIOUS
<1> QED
  BY <1>4, <1>5, <1>6

LEMMA PointReadBack ==
  ASSUME NEW s \in Seq(Int), Unbroken(s)
  PROVE  PointRead(s) = s
<1>1. PICK e : Writes(s, e) /\ seq_path(s) = e[1]
  BY SeqPathWrites
<1>2. 1 \in 1 .. Len(s) + 1 /\ e[1] \in Seq(Int)
  BY <1>1, WritesType
<1>3. \A j \in DOMAIN e[1] : e[1][j] \notin White_Space
  BY <1>1, <1>2, WritesNoBlanks
<1>4. Field(e[1]) = e[1]
  BY <1>3 DEF Field
<1>5. PICK d : Decodes(e[1], d) /\ decode_octal(e[1]) = d[1]
  BY <1>2, DecodeDecodes
<1>6. d[1] = s
  BY <1>1, <1>5, ReadBack
<1> QED
  BY <1>1, <1>4, <1>5, <1>6 DEF PointRead

\* No path is read as the empty text.
LEMMA PointReadSome ==
  ASSUME NEW s, IsPath(s)
  PROVE  PointRead(s) # <<>>
<1>1. s \in Seq(Int) /\ 1 \in 1 .. Len(s) /\ s[1] = 47 /\ 2 \in 1 .. Len(s) + 1
  BY DEF IsPath, Slash
<1>2. PICK e : Writes(s, e) /\ seq_path(s) = e[1]
  BY <1>1, SeqPathWrites
<1> DEFINE t == e[1]
           u == Field(t)
<1>3. t \in Seq(Int) /\ Len(t) >= 1 /\ t[1] = 47
  <2>1. e[1] = Esc(s, 1) \o e[1 + 1] /\ e[2] \in Seq(Int)
    BY <1>1, <1>2, WritesRule, WritesType, SMTT(30)
  <2>2. Esc(s, 1) = <<47>>
    BY <1>1 DEF Esc, Escaped, Backslash
  <2> QED
    BY <2>1, <2>2
<1> HIDE DEF t
<1>4. u \in Seq(Int) /\ Len(u) >= 1 /\ u[1] = 47
  <2> DEFINE white == {i \in DOMAIN t : t[i] \in White_Space}
             first == CHOOSE i \in white : \A j \in white : i =< j
  <2>1. CASE white = {}
    BY <1>3, <2>1 DEF Field
  <2>2. CASE white # {}
    <3>1. Len(t) \in Nat /\ white \subseteq 1 .. Len(t)
      BY <1>3
    <3>2. first \in white
      BY <2>2, <3>1, FirstPosition
    <3>3. first # 1 /\ first \in 1 .. Len(t)
      <4>1. t[first] \in White_Space /\ first \in 1 .. Len(t)
        BY <3>1, <3>2
      <4>2. 47 \notin White_Space
        BY DEF White_Space
      <4> QED
        BY <1>3, <4>1, <4>2, Zenon
    <3>4. u = SubSeq(t, 1, first - 1)
      BY <2>2 DEF Field
    <3> HIDE DEF first
    <3> QED
      BY <1>3, <3>3, <3>4
  <2> QED
    BY <2>1, <2>2
<1> HIDE DEF u
<1>5. PICK d : Decodes(u, d) /\ decode_octal(u) = d[1]
  BY <1>4, DecodeDecodes
<1>6. ~IsEscape(u, 1)
  BY <1>4 DEF IsEscape, Backslash
<1>7. d[1] = <<47>> \o d[1 + 1]
  <2>1. 1 \in 1 .. Len(u)
    BY <1>4
  <2>2. d[1] = IF IsEscape(u, 1) THEN <<Byte(u, 1)>> \o d[1 + 4] ELSE <<u[1]>> \o d[1 + 1]
    BY <1>4, <1>5, <2>1, DecodesRule, SMTT(30)
  <2> QED
    BY <1>4, <1>6, <2>2, Zenon
<1>8. d[1 + 1] \in Seq(Int)
  BY <1>4, <1>5, DecodesType
<1>9. d[1] # <<>>
  BY <1>7, <1>8
<1> QED
  BY <1>2, <1>5, <1>9 DEF PointRead, t, u

-----------------------------------------------------------------------------
(* The mounts of a list. *)

Untouched(dev) == dev \notin {r.dev : r \in remounted}

\* A partition has the mount point that is read of the first line of its own.
MountRead(p) ==
  IF LinesOf(p) = {} THEN p.mount = NoMount
  ELSE \E l \in LinesOf(p) : /\ \A m \in LinesOf(p) : l =< m
                            /\ p.mount = PointRead(mounts[l].point)
ListedParts ==
  UNION {{d.partitions[a] : a \in DOMAIN d.partitions} :
           d \in {outcome.disks[i] : i \in DOMAIN outcome.disks}}
MountsTrue ==
  outcome.status = "ok" /\ MountsReadable =>
    \A p \in ListedParts : Untouched(p.dev) => MountRead(p)

\* A mount point that is reported is of a line that was there.
MountsSeen ==
  outcome.status = "ok" =>
    \A p \in ListedParts : p.mount # NoMount /\ Untouched(p.dev) => LinesOf(p) # {}

\* What is mounted is a disk or one of its partitions.
MountsPlaced ==
  \A i \in DOMAIN mounts :
    LET dev == mounts[i].dev IN Attached(dev[1]) => dev[2] \in {Whole} \cup PartsOf(dev[1])

MountInv == MountsTrue /\ MountsSeen /\ MountsPlaced

\* A listed partition is what one of the raw partitions is built to.
LEMMA BuiltPartitions ==
  ASSUME NEW d \in RawDisk, NEW lines \in Seq(ReadLine)
  PROVE  \A a \in DOMAIN BuildDisk(d, lines).partitions :
           \E j \in DOMAIN d.parts :
             BuildDisk(d, lines).partitions[a] = BuildPart(d.name, d.parts[j], lines)
<1> DEFINE n == d.name
           ps == d.parts
           rows == [j \in DOMAIN ps |-> BuildPart(n, ps[j], lines)]
           key == [j \in DOMAIN rows |-> rows[j].start]
           sorted == SortedBy(rows, key)
<1>1. n \in Names /\ ps \in Seq(RawPart) /\ Len(ps) \in Nat /\ DOMAIN ps = 1 .. Len(ps)
  BY DEF RawDisk
<1>2. rows \in Seq(Partition) /\ Len(rows) = Len(ps) /\ KeysOf(key, Len(rows))
  BY <1>1, PartitionsType, ZenonT(40)
<1>3. BuildDisk(d, lines).partitions = sorted /\ DOMAIN sorted = 1 .. Len(ps)
  BY <1>1 DEF BuildDisk, ByStart, SortedBy
<1>4. \A r \in 1 .. Len(ps) : AtRank(key, r) \in 1 .. Len(ps) /\ sorted[r] = rows[AtRank(key, r)]
  <2> HIDE DEF rows, key
  <2> QED
    BY <1>2, SortedByPermutes
<1>5. SUFFICES ASSUME NEW a \in 1 .. Len(ps)
               PROVE  \E j \in DOMAIN ps : sorted[a] = BuildPart(n, ps[j], lines)
  BY <1>3, Zenon
<1>6. PICK j \in 1 .. Len(ps) : sorted[a] = rows[j]
  <2> HIDE DEF rows, key, sorted
  <2> QED
    BY <1>4, <1>5
<1>7. rows[j] = BuildPart(n, ps[j], lines)
  BY <1>1, <1>6
<1> HIDE DEF rows, key, sorted
<1> QED
  BY <1>1, <1>6, <1>7

\* The file is there, and all of it is UTF-8.
ReadableNow == procfs /\ \A i \in DOMAIN mounts : IsUtf8(mounts[i].point)

\* When all of /proc/mounts is UTF-8, the lookup of a partition finds the first
\* line of its own.
LEMMA LookupRead ==
  ASSUME KernelTypeOK, ReadableNow, NEW p, p.mount = Lookup(ParsedMounts, p.dev)
  PROVE  MountRead(p)
<1> DEFINE lines == ParsedMounts
           named == {i \in DOMAIN lines : lines[i].src = "kernel" /\ lines[i].dev = p.dev}
           first == CHOOSE i \in named : \A j \in named : i =< j
<1>1. mounts \in Seq(MountLine) /\ DOMAIN mounts = 1 .. Len(mounts) /\ Len(mounts) \in Nat
  BY DEF KernelTypeOK
<1>2. lines = [i \in DOMAIN mounts |-> [mounts[i] EXCEPT !.point = PointRead(@)]]
  BY DEF ParsedMounts, parse_mounts, MountsContent, ReadableNow
<1>3. /\ DOMAIN lines = DOMAIN mounts
      /\ \A i \in DOMAIN mounts : /\ lines[i].src = mounts[i].src
                                  /\ lines[i].dev = mounts[i].dev
                                  /\ lines[i].point = PointRead(mounts[i].point)
  <2>1. \A i \in DOMAIN mounts : mounts[i] \in MountLine
    BY <1>1
  <2> QED
    BY <1>2, <2>1 DEF MountLine
<1> HIDE DEF lines
<1>4. named = LinesOf(p)
  BY <1>3 DEF LinesOf
<1>5. CASE named = {}
  BY <1>4, <1>5 DEF MountRead, Lookup, lines
<1>6. CASE named # {}
  <2>1. named \subseteq 1 .. Len(mounts)
    BY <1>1, <1>3
  <2>2. first \in named /\ \A j \in named : first =< j
    BY <1>1, <1>6, <2>1, FirstPosition
  <2>3. p.mount = lines[first].point
    BY <1>6 DEF Lookup, lines
  <2> HIDE DEF first
  <2>4. p.mount = PointRead(mounts[first].point)
    BY <1>1, <1>3, <2>1, <2>2, <2>3
  <2> HIDE DEF named
  <2> QED
    BY <1>4, <1>6, <2>2, <2>4 DEF MountRead
<1> QED
  BY <1>5, <1>6

\* What is looked up comes from a line of the kernel's.
LEMMA LookupSeen ==
  ASSUME KernelTypeOK, NEW p, p.mount = Lookup(ParsedMounts, p.dev), p.mount # NoMount
  PROVE  LinesOf(p) # {}
<1>1. CASE ReadableNow
  BY <1>1, LookupRead DEF MountRead
<1>2. CASE ~ReadableNow
  <2>1. MountsContent = <<>>
    BY <1>2 DEF MountsContent, ReadableNow
  <2>2. DOMAIN ParsedMounts = {}
    BY <2>1 DEF ParsedMounts, parse_mounts
  <2>3. Lookup(ParsedMounts, p.dev) = NoMount
    BY <2>2 DEF Lookup
  <2> QED
    BY <2>3
<1> QED
  BY <1>1, <1>2

\* A list that is returned has the mount points that are read.
LEMMA ReadMountsTrue ==
  ASSUME TypeInv, ReadMounts
  PROVE  MountsTrue' /\ MountsSeen'
<1> DEFINE list == Build(raw, ParsedMounts)
<1>1. raw \in Seq(RawDisk) /\ KernelTypeOK /\ ParsedMounts \in Seq(ReadLine)
  BY ParsedType DEF TypeInv, TypeOK, WalkTypeOK
<1>2. outcome'.disks = list /\ UNCHANGED <<kernel, history>>
  BY DEF ReadMounts, Return
<1> HIDE DEF list
<1>3. SUFFICES ASSUME NEW i \in DOMAIN list, NEW a \in DOMAIN list[i].partitions
               PROVE  /\ MountsReadable => MountRead(list[i].partitions[a])
                      /\ list[i].partitions[a].mount # NoMount => LinesOf(list[i].partitions[a]) # {}
  <2>1. /\ MountsReadable' = MountsReadable
        /\ \A p : MountRead(p)' = MountRead(p) /\ LinesOf(p)' = LinesOf(p)
    BY <1>2 DEF MountsReadable, MountRead, LinesOf, kernel, history
  <2>2. ListedParts' = UNION {{d.partitions[a] : a \in DOMAIN d.partitions} :
                                d \in {list[i] : i \in DOMAIN list}}
    BY <1>2 DEF ListedParts
  <2>3. \A p \in ListedParts' : /\ MountsReadable => MountRead(p)
                                /\ p.mount # NoMount => LinesOf(p) # {}
    BY <1>3, <2>2
  <2> QED
    BY <2>1, <2>3 DEF MountsTrue, MountsSeen
<1>4. PICK j \in DOMAIN raw : list[i] = BuildDisk(raw[j], ParsedMounts)
  BY <1>1, <1>3, BuildMembers DEF list
<1>5. raw[j] \in RawDisk
  BY <1>1
<1>6. PICK b \in DOMAIN raw[j].parts :
        list[i].partitions[a] = BuildPart(raw[j].name, raw[j].parts[b], ParsedMounts)
  BY <1>1, <1>3, <1>4, <1>5, BuiltPartitions
<1> DEFINE p == BuildPart(raw[j].name, raw[j].parts[b], ParsedMounts)
<1>7. p.mount = Lookup(ParsedMounts, p.dev)
  BY DEF BuildPart
<1> HIDE DEF p
<1>8. /\ MountsReadable => MountRead(p)
      /\ p.mount # NoMount => LinesOf(p) # {}
  BY <1>1, <1>7, LookupRead, LookupSeen DEF MountsReadable, ReadableNow
<1> QED
  BY <1>6, <1>8 DEF p

\* What is left of a sequence without its element i.
LEMMA WithoutOne ==
  ASSUME NEW S, NEW s \in Seq(S), NEW i \in 1 .. Len(s)
  PROVE  LET rest == SubSeq(s, 1, i - 1) \o SubSeq(s, i + 1, Len(s))
         IN  /\ rest \in Seq(S)
             /\ Len(rest) = Len(s) - 1
             /\ \A l \in 1 .. Len(s) - 1 : rest[l] = IF l < i THEN s[l] ELSE s[l + 1]
<1> DEFINE a == SubSeq(s, 1, i - 1)
           b == SubSeq(s, i + 1, Len(s))
<1>1. Len(s) \in Nat /\ \A l \in 1 .. Len(s) : s[l] \in S
  OBVIOUS
<1>2. /\ a \in Seq(S) /\ Len(a) = i - 1
      /\ \A l \in 1 .. i - 1 : a[l] = s[l]
  BY <1>1, SubSeqProperties
<1>3. /\ b \in Seq(S) /\ Len(b) = Len(s) - i
      /\ \A l \in 1 .. Len(s) - i : b[l] = s[i + l]
  BY <1>1, SubSeqProperties
<1> HIDE DEF a, b
<1>4. /\ a \o b \in Seq(S) /\ Len(a \o b) = Len(a) + Len(b)
      /\ \A l \in 1 .. Len(a) + Len(b) : (a \o b)[l] = IF l =< Len(a) THEN a[l] ELSE b[l - Len(a)]
  BY <1>2, <1>3, ConcatProperties
<1>5. Len(a) + Len(b) = Len(s) - 1
  BY <1>1, <1>2, <1>3
<1>6. ASSUME NEW l \in 1 .. Len(s) - 1
      PROVE  (a \o b)[l] = IF l < i THEN s[l] ELSE s[l + 1]
  <2>1. CASE l < i
    <3>1. l =< Len(a) /\ l \in 1 .. i - 1 /\ l \in 1 .. Len(a) + Len(b)
      BY <1>2, <1>5, <2>1
    <3> QED
      BY <1>2, <1>4, <2>1, <3>1
  <2>2. CASE ~(l < i)
    <3>1. /\ ~(l =< Len(a)) /\ l - Len(a) \in 1 .. Len(s) - i /\ i + (l - Len(a)) = l + 1
          /\ l \in 1 .. Len(a) + Len(b)
      BY <1>1, <1>2, <1>5, <2>2
    <3> QED
      BY <1>3, <1>4, <2>2, <3>1
  <2> QED
    BY <2>1, <2>2
<1> QED
  BY <1>4, <1>5, <1>6 DEF a, b

\* A line more, or a line less, changes nothing for the other partitions.
LEMMA MountKeepsReads ==
  ASSUME KernelTypeOK, NEW n, NEW k, NEW src, NEW pt, Mount(n, k, src, pt)
  PROVE  /\ MountsReadable' => MountsReadable
         /\ \A p : Untouched(p.dev)' /\ MountRead(p) => MountRead(p)'
         /\ \A p : Untouched(p.dev)' /\ LinesOf(p) # {} => LinesOf(p)' # {}
<1> DEFINE line == [dev |-> <<n, k>>, src |-> src, point |-> pt]
           change == [dev |-> <<n, k>>, point |-> pt]
           m == Append(mounts, line)
<1>1. mounts \in Seq(MountLine) /\ Len(mounts) \in Nat /\ DOMAIN mounts = 1 .. Len(mounts)
  BY DEF KernelTypeOK
<1>2. /\ DOMAIN m = 1 .. Len(mounts) + 1
      /\ \A l \in 1 .. Len(mounts) : m[l] = mounts[l]
      /\ m[Len(mounts) + 1] = line
  BY <1>1
<1>3. mounts' = m /\ remounted' = remounted \cup {change} /\ procfs' = procfs
  BY DEF Mount
<1>4. line.dev = <<n, k>> /\ change.dev = <<n, k>>
  OBVIOUS
<1> HIDE DEF m, line, change
<1>5. MountsReadable' => MountsReadable
  BY <1>1, <1>2, <1>3 DEF MountsReadable
<1>6. ASSUME NEW p, Untouched(p.dev)', MountRead(p)
      PROVE  MountRead(p)'
  <2>1. p.dev # <<n, k>>
    BY <1>3, <1>4, <1>6 DEF Untouched
  <2>2. LinesOf(p)' = LinesOf(p) /\ LinesOf(p) \subseteq 1 .. Len(mounts)
    BY <1>1, <1>2, <1>3, <1>4, <2>1 DEF LinesOf
  <2> QED
    BY <1>1, <1>2, <1>3, <1>6, <2>2 DEF MountRead
<1>7. ASSUME NEW p, LinesOf(p) # {}
      PROVE  LinesOf(p)' # {}
  <2>1. PICK l \in 1 .. Len(mounts) : mounts[l].src = "kernel" /\ mounts[l].dev = p.dev
    BY <1>1, <1>7 DEF LinesOf
  <2>2. l \in LinesOf(p)'
    BY <1>1, <1>2, <1>3, <2>1 DEF LinesOf
  <2> QED
    BY <2>2
<1> QED
  BY <1>5, <1>6, <1>7

LEMMA UnmountKeepsReads ==
  ASSUME KernelTypeOK, NEW i, Unmount(i)
  PROVE  /\ MountsReadable' => MountsReadable
         /\ \A p : Untouched(p.dev)' /\ MountRead(p) => MountRead(p)'
         /\ \A p : Untouched(p.dev)' /\ LinesOf(p) # {} => LinesOf(p)' # {}
<1> DEFINE rest == SubSeq(mounts, 1, i - 1) \o SubSeq(mounts, i + 1, Len(mounts))
           change == [dev |-> mounts[i].dev, point |-> mounts[i].point]
           old(l) == IF l < i THEN l ELSE l + 1
<1>1. /\ mounts \in Seq(MountLine) /\ Len(mounts) \in Nat /\ DOMAIN mounts = 1 .. Len(mounts)
      /\ i \in 1 .. Len(mounts)
  BY DEF KernelTypeOK, Unmount
<1>r. /\ rest \in Seq(MountLine)
      /\ Len(rest) = Len(mounts) - 1
      /\ \A l \in 1 .. Len(mounts) - 1 : rest[l] = IF l < i THEN mounts[l] ELSE mounts[l + 1]
  BY <1>1, WithoutOne, Zenon
<1>3. mounts' = rest /\ remounted' = remounted \cup {change} /\ procfs' = procfs
  BY DEF Unmount
<1>4. change.dev = mounts[i].dev /\ change.point = mounts[i].point
  OBVIOUS
<1> HIDE DEF rest, change
<1>2. /\ DOMAIN rest = 1 .. Len(mounts) - 1
      /\ \A l \in 1 .. Len(mounts) - 1 : rest[l] = mounts[old(l)]
  BY <1>1, <1>r
<1>o. \A l \in 1 .. Len(mounts) - 1 : old(l) \in 1 .. Len(mounts) /\ old(l) # i
  BY <1>1
<1>b. \A l \in 1 .. Len(mounts) : l # i =>
        \E j \in 1 .. Len(mounts) - 1 : /\ old(j) = l
                                        /\ \A q \in 1 .. Len(mounts) - 1 : l =< old(q) => j =< q
  <2> SUFFICES ASSUME NEW l \in 1 .. Len(mounts), l # i
               PROVE  \E j \in 1 .. Len(mounts) - 1 :
                        /\ old(j) = l
                        /\ \A q \in 1 .. Len(mounts) - 1 : l =< old(q) => j =< q
    OBVIOUS
  <2>1. CASE l < i
    <3>1. l \in 1 .. Len(mounts) - 1 /\ old(l) = l
      BY <1>1, <2>1
    <3>2. \A q \in 1 .. Len(mounts) - 1 : l =< old(q) => l =< q
      BY <1>1, <2>1
    <3> QED
      BY <3>1, <3>2
  <2>2. CASE l > i
    <3>1. l - 1 \in 1 .. Len(mounts) - 1 /\ old(l - 1) = l
      BY <1>1, <2>2
    <3>2. \A q \in 1 .. Len(mounts) - 1 : l =< old(q) => l - 1 =< q
      BY <1>1, <2>2
    <3> QED
      BY <3>1, <3>2
  <2> QED
    BY <1>1, <2>1, <2>2
<1> HIDE DEF old
<1>5. ASSUME MountsReadable'
      PROVE  MountsReadable
  <2>1. \A r \in remounted' : IsUtf8(r.point)
    BY <1>5 DEF MountsReadable
  <2>2. \A l \in 1 .. Len(mounts) - 1 : IsUtf8(mounts[old(l)].point)
    BY <1>2, <1>3, <1>5 DEF MountsReadable
  <2>3. IsUtf8(mounts[i].point)
    BY <1>3, <1>4, <2>1
  <2>4. \A l \in 1 .. Len(mounts) : IsUtf8(mounts[l].point)
    <3> SUFFICES ASSUME NEW l \in 1 .. Len(mounts), l # i
                 PROVE  IsUtf8(mounts[l].point)
      BY <2>3
    <3>1. PICK j \in 1 .. Len(mounts) - 1 : old(j) = l
      BY <1>b
    <3> QED
      BY <2>2, <3>1
  <2>5. procfs
    BY <1>3, <1>5 DEF MountsReadable
  <2> QED
    BY <1>1, <1>3, <2>1, <2>4, <2>5 DEF MountsReadable
<1>6. ASSUME NEW p, Untouched(p.dev)', MountRead(p)
      PROVE  MountRead(p)'
  <2>1. p.dev # mounts[i].dev
    BY <1>3, <1>4, <1>6 DEF Untouched
  <2>2. /\ LinesOf(p)' = {l \in 1 .. Len(mounts) - 1 : old(l) \in LinesOf(p)}
        /\ LinesOf(p) \subseteq (1 .. Len(mounts)) \ {i}
    BY <1>1, <1>2, <1>3, <1>o, <2>1 DEF LinesOf
  <2>3. CASE LinesOf(p) = {}
    BY <1>6, <2>2, <2>3 DEF MountRead
  <2>4. CASE LinesOf(p) # {}
    <3>1. PICK l \in LinesOf(p) : /\ \A q \in LinesOf(p) : l =< q
                                  /\ p.mount = PointRead(mounts[l].point)
      BY <1>6, <2>4 DEF MountRead
    <3>2. PICK j \in 1 .. Len(mounts) - 1 :
            /\ old(j) = l
            /\ \A q \in 1 .. Len(mounts) - 1 : l =< old(q) => j =< q
      BY <1>b, <2>2, <3>1
    <3>3. j \in LinesOf(p)' /\ \A q \in LinesOf(p)' : j =< q
      BY <2>2, <3>1, <3>2
    <3>4. p.mount = PointRead(mounts'[j].point)
      BY <1>2, <1>3, <3>1, <3>2
    <3> QED
      BY <3>3, <3>4 DEF MountRead
  <2> QED
    BY <2>3, <2>4
<1>7. ASSUME NEW p, Untouched(p.dev)', LinesOf(p) # {}
      PROVE  LinesOf(p)' # {}
  <2>1. p.dev # mounts[i].dev
    BY <1>3, <1>4, <1>7 DEF Untouched
  <2>2. PICK l \in 1 .. Len(mounts) : mounts[l].src = "kernel" /\ mounts[l].dev = p.dev
    BY <1>1, <1>7 DEF LinesOf
  <2>3. PICK j \in 1 .. Len(mounts) - 1 : old(j) = l
    BY <1>b, <2>1, <2>2
  <2>4. j \in LinesOf(p)'
    BY <1>2, <1>3, <2>2, <2>3 DEF LinesOf
  <2> QED
    BY <2>4
<1> QED
  BY <1>5, <1>6, <1>7

LEMMA KernelKeepsReads ==
  ASSUME TypeInv, MountsTrue, MountsSeen, Kernel
  PROVE  MountsTrue' /\ MountsSeen'
<1>1. UNCHANGED outcome /\ remounted \subseteq remounted'
  BY DEF Kernel, Attach, Detach, Repartition, Mount, Unmount, walk
<1>2. ListedParts' = ListedParts
  BY <1>1 DEF ListedParts
<1>3. /\ MountsReadable' => MountsReadable
      /\ \A p : Untouched(p.dev)' /\ MountRead(p) => MountRead(p)'
      /\ \A p : Untouched(p.dev)' /\ LinesOf(p) # {} => LinesOf(p)' # {}
  <2>1. ASSUME UNCHANGED <<mounts, remounted, procfs>>
        PROVE  /\ MountsReadable' => MountsReadable
              /\ \A p : MountRead(p)' = MountRead(p) /\ LinesOf(p)' = LinesOf(p)
    BY <2>1 DEF MountsReadable, MountRead, LinesOf
  <2>2. \/ UNCHANGED <<mounts, remounted, procfs>>
        \/ \E n, k, src, pt : Mount(n, k, src, pt)
        \/ \E i : Unmount(i)
    BY DEF Kernel, Attach, Detach, Repartition
  <2> QED
    BY <2>1, <2>2, MountKeepsReads, UnmountKeepsReads DEF TypeInv, TypeOK
<1>4. \A dev : Untouched(dev)' => Untouched(dev)
  BY <1>1 DEF Untouched
<1> QED
  BY <1>1, <1>2, <1>3, <1>4 DEF MountsTrue, MountsSeen

\* What is mounted stays where the disk's table says: the kernel neither takes
\* a name nor rereads a table while something is mounted there.
LEMMA KernelKeepsPlaces ==
  ASSUME TypeInv, NamedOnce, MountsPlaced, Kernel
  PROVE  MountsPlaced'
<1>t. /\ KernelTypeOK /\ mounts \in Seq(MountLine) /\ Len(mounts) \in Nat
      /\ DOMAIN mounts = 1 .. Len(mounts)
      /\ \A i \in DOMAIN mounts : mounts[i].dev[1] \in Names
  <2>1. mounts \in Seq(MountLine)
    BY DEF TypeInv, TypeOK, KernelTypeOK
  <2>2. \A i \in DOMAIN mounts : mounts[i] \in MountLine
    BY <2>1
  <2> QED
    BY <2>1, <2>2 DEF TypeInv, TypeOK, MountLine
<1> DEFINE Placed(dev) == Attached(dev[1]) => dev[2] \in {Whole} \cup PartsOf(dev[1])
<1>p. \A i \in DOMAIN mounts : Placed(mounts[i].dev)
  BY DEF MountsPlaced
<1>k. ASSUME NEW o, Attached(o)' => disk'[o] = disk[o] /\ Attached(o) /\ TableOf(o)' = TableOf(o)
      PROVE  \A dev : dev[1] = o /\ Placed(dev) => Placed(dev)'
  BY <1>k DEF PartsOf
<1>1. ASSUME NEW n \in Names, UNCHANGED mounts, ~Mounted(n),
             \A o \in Names : o # n /\ Attached(o)' =>
               disk'[o] = disk[o] /\ Attached(o) /\ TableOf(o)' = TableOf(o)
      PROVE  MountsPlaced'
  <2>1. ASSUME NEW i \in DOMAIN mounts
        PROVE  Placed(mounts[i].dev)'
    <3>1. mounts[i].dev[1] # n /\ mounts[i].dev[1] \in Names
      BY <1>1, <1>t DEF Mounted
    <3> QED
      BY <1>1, <1>k, <1>p, <3>1
  <2> QED
    BY <1>1, <2>1 DEF MountsPlaced
<1>2. ASSUME NEW n \in Names, NEW m \in Media, Attach(n, m)
      PROVE  MountsPlaced'
  <2>1. UNCHANGED <<mounts, table>> /\ ~Mounted(n) /\ disk' = [disk EXCEPT ![n] = m]
    BY <1>2 DEF Attach
  <2>2. \A o \in Names : o # n => disk'[o] = disk[o]
    BY <1>t, <2>1 DEF KernelTypeOK
  <2> QED
    BY <1>1, <2>1, <2>2 DEF Attached, TableOf
<1>3. ASSUME NEW n \in Names, Detach(n)
      PROVE  MountsPlaced'
  <2>1. UNCHANGED <<mounts, table>> /\ disk' = [disk EXCEPT ![n] = NoMedium]
    BY <1>3 DEF Detach
  <2>2. \A o \in Names : Attached(o)' => disk'[o] = disk[o] /\ Attached(o)
    BY <1>t, <2>1 DEF KernelTypeOK, Attached
  <2>3. ASSUME NEW i \in DOMAIN mounts
        PROVE  Placed(mounts[i].dev)'
    BY <1>k, <1>p, <1>t, <2>1, <2>2, <2>3 DEF TableOf
  <2> QED
    BY <2>1, <2>3 DEF MountsPlaced
<1>4. ASSUME NEW n \in Names, Attached(n), NEW t \in Layouts[disk[n]], Repartition(n, t)
      PROVE  MountsPlaced'
  <2>1. /\ UNCHANGED <<mounts, disk>> /\ ~Mounted(n)
        /\ table' = [table EXCEPT ![disk[n]] = t]
    BY <1>4 DEF Repartition
  <2>2. \A o \in Names : o # n /\ Attached(o) => disk[o] # disk[n]
    BY <1>4 DEF NamedOnce, Attached
  <2>3. \A o \in Names : o # n /\ Attached(o) => table'[disk[o]] = table[disk[o]]
    BY <1>t, <2>1, <2>2 DEF KernelTypeOK, Attached
  <2> QED
    BY <1>1, <2>1, <2>3 DEF Attached, TableOf
<1>5. ASSUME NEW n \in Names, NEW k \in {Whole} \cup PartNos,
             NEW src \in {"kernel", "alias"}, NEW pt \in MountPoints, Mount(n, k, src, pt)
      PROVE  MountsPlaced'
  <2> DEFINE line == [dev |-> <<n, k>>, src |-> src, point |-> pt]
             m == Append(mounts, line)
  <2>1. mounts' = m /\ UNCHANGED <<disk, table>> /\ k \in {Whole} \cup PartsOf(n)
    BY <1>5 DEF Mount
  <2>2. /\ DOMAIN m = 1 .. Len(mounts) + 1
        /\ \A l \in 1 .. Len(mounts) : m[l] = mounts[l]
        /\ m[Len(mounts) + 1] = line
    BY <1>t
  <2>3. line.dev = <<n, k>> /\ <<n, k>>[1] = n /\ <<n, k>>[2] = k
    OBVIOUS
  <2> HIDE DEF m, line
  <2>4. \A i \in DOMAIN m : Placed(m[i].dev)
    BY <1>p, <1>t, <2>1, <2>2, <2>3
  <2>5. \A dev : Placed(dev)' = Placed(dev)
    BY <2>1 DEF Attached, PartsOf, TableOf
  <2> QED
    BY <2>1, <2>4, <2>5 DEF MountsPlaced
<1>6. ASSUME NEW i \in 1 .. MaxMounts, Unmount(i)
      PROVE  MountsPlaced'
  <2> DEFINE rest == SubSeq(mounts, 1, i - 1) \o SubSeq(mounts, i + 1, Len(mounts))
  <2>1. mounts' = rest /\ UNCHANGED <<disk, table>> /\ i \in 1 .. Len(mounts)
    BY <1>t, <1>6 DEF Unmount
  <2>2. /\ rest \in Seq(MountLine)
        /\ Len(rest) = Len(mounts) - 1
        /\ \A l \in 1 .. Len(mounts) - 1 : rest[l] = IF l < i THEN mounts[l] ELSE mounts[l + 1]
    BY <1>t, <2>1, WithoutOne, Zenon
  <2> HIDE DEF rest
  <2>3. \A l \in DOMAIN rest : \E j \in DOMAIN mounts : rest[l] = mounts[j]
    BY <1>t, <2>1, <2>2
  <2>4. \A dev : Placed(dev)' = Placed(dev)
    BY <2>1 DEF Attached, PartsOf, TableOf
  <2> QED
    BY <1>p, <2>1, <2>3, <2>4 DEF MountsPlaced
<1> QED
  BY <1>2, <1>3, <1>4, <1>5, <1>6 DEF Kernel

LEMMA InitMounts == Init => MountInv
BY DEF Init, MountInv, MountsTrue, MountsSeen, MountsPlaced, NoOutcome

LEMMA StepMounts == ExactInv /\ MountInv /\ [Next]_vars => MountInv'
<1> SUFFICES ASSUME ExactInv, MountInv, [Next]_vars PROVE MountInv'
  OBVIOUS
<1>t. TypeInv /\ NamedOnce /\ MountsTrue /\ MountsSeen /\ MountsPlaced
  BY DEF ExactInv, WalkInv, MountInv
<1>1. CASE Kernel
  BY <1>1, <1>t, KernelKeepsReads, KernelKeepsPlaces DEF MountInv
<1>2. ASSUME UNCHANGED kernel
      PROVE  MountsPlaced'
  <2>1. \A n : Attached(n)' = Attached(n) /\ PartsOf(n)' = PartsOf(n)
    BY <1>2 DEF kernel, Attached, PartsOf, TableOf
  <2> QED
    BY <1>2, <1>t, <2>1 DEF kernel, MountsPlaced
<1>3. CASE Call
  BY <1>2, <1>3 DEF Call, MountInv, MountsTrue, MountsSeen, NoOutcome
<1>4. ASSUME UNCHANGED <<kernel, history, outcome>>
      PROVE  MountsTrue' /\ MountsSeen'
  <2>1. /\ MountsReadable' = MountsReadable /\ ListedParts' = ListedParts
        /\ \A p : MountRead(p)' = MountRead(p) /\ LinesOf(p)' = LinesOf(p)
        /\ \A dev : Untouched(dev)' = Untouched(dev)
    BY <1>4 DEF kernel, history, MountsReadable, ListedParts, MountRead, LinesOf, Untouched
  <2> QED
    BY <1>4, <1>t, <2>1 DEF MountsTrue, MountsSeen
<1>5. CASE Walk
  <2>1. UNCHANGED <<kernel, history>>
    BY <1>5 DEF Walk, Unreadable, SkipVirtual, TakeEntry, OpenDisk, NextSub, SubFails, Probe,
       ReadPartSize, ReadPartStart, EndSub, ReadAttr, PushDisk, EndDir, ReadMounts
  <2>2. outcome' = outcome \/ Propagate \/ ReadMounts
    BY <1>5 DEF Walk, Unreadable, SkipVirtual, TakeEntry, OpenDisk, NextSub, SubFails, Probe,
       ReadPartSize, ReadPartStart, EndSub, ReadAttr, PushDisk, EndDir, PassOver
  <2>3. Propagate => MountsTrue' /\ MountsSeen'
    BY DEF Propagate, Return, MountsTrue, MountsSeen
  <2> QED
    BY <1>2, <1>4, <1>t, <2>1, <2>2, <2>3, ReadMountsTrue DEF MountInv
<1>6. CASE UNCHANGED vars
  <2>1. UNCHANGED <<kernel, history, outcome>>
    BY <1>6 DEF vars, walk
  <2> QED
    BY <1>2, <1>4, <2>1 DEF MountInv
<1> QED
  BY <1>1, <1>3, <1>5, <1>6 DEF Next

\* A list says of a partition that was neither mounted nor unmounted since the
\* call began what is read of the first line of its own, and what is mounted is
\* on a disk or in its table (linux.rs:66, sysfs.rs:48-69, 86-89).
THEOREM MountInvariant == Spec => []MountInv
BY InitExact, StepExact, InitMounts, StepMounts, PTL DEF Spec

\* A partition of a disk that held still, neither mounted nor unmounted since
\* the call began, is reported at the path the first line of its own gives,
\* for paths of any length with any characters but white space the kernel does
\* not escape (linux.rs:66, sysfs.rs:48-69, 86-89, 135-160).
THEOREM MountsReportedExactly == Spec => []MountsExact
<1>1. TypeInv /\ MountInv => MountsExact
  <2> SUFFICES ASSUME TypeInv, MountInv, Returned, MountsReadable, NEW p \in StillPartitions
               PROVE  ReportsMount(p)
    BY DEF MountsExact
  <2>1. p \in ListedParts /\ Untouched(p.dev)
    BY DEF StillPartitions, ListedParts, Untouched
  <2>2. MountRead(p)
    BY <2>1 DEF MountInv, MountsTrue, Returned
  <2>3. ASSUME NEW l \in LinesOf(p), Unbroken(mounts[l].point)
        PROVE  PointRead(mounts[l].point) = mounts[l].point
    <3>1. mounts \in Seq(MountLine) /\ l \in DOMAIN mounts
      BY DEF LinesOf, TypeInv, TypeOK, KernelTypeOK
    <3>2. mounts[l] \in MountLine
      BY <3>1
    <3>3. mounts[l].point \in Seq(Int)
      BY <3>2, MountAssumption DEF MountLine, IsPath
    <3> QED
      BY <2>3, <3>3, PointReadBack
  <2> QED
    BY <2>2, <2>3 DEF MountRead, ReportsMount
<1>2. ExactInv => TypeInv
  BY DEF ExactInv, WalkInv
<1> QED
  BY ExactInvariant, MountInvariant, <1>1, <1>2, PTL

-----------------------------------------------------------------------------
(* The disk that was chosen. *)

\* There is only a list when the call succeeded.
NoListFailed == outcome.status # "ok" => outcome.disks = <<>>

\* The disk at hand is one of the list, and was triaged.
TargetListed ==
  /\ step \in {"list", "open", "seek", "rewind", "done"}
  /\ step # "list" =>
       /\ pc = "idle" /\ outcome.status = "ok"
       /\ \E i \in DOMAIN outcome.disks : /\ target = <<outcome.disks[i]>>
                                          /\ findings = T!analyse_target(outcome.disks[i])

\* The handle is on the medium that had the name when it was opened.
HandleTrue ==
  /\ step \in {"list", "open"} => file = NoMedium /\ gone = FALSE
  /\ step \in {"seek", "rewind", "done"} =>
       /\ file \in Media /\ gone \in BOOLEAN
       /\ Chosen.name \notin moved => file = disk[Chosen.name] /\ ~gone
  /\ step \in {"rewind", "done"} /\ ~gone => reported = Parse(Geometry[file]["size"])
  /\ step = "done" => at = 0

AcqInv == ExactInv /\ MountInv /\ NoListFailed /\ TargetListed /\ HandleTrue

\* A step of the composition is one of the backend and the kernel, or leaves
\* both alone.
LEMMA StepIsBackends == [AllNext]_allVars => [Next]_vars
BY DEF AllNext, Moving, Enumerate, Walking, Acquire, Choose, Open, SeekEnd, Rewind, Next, allVars

\* A user who lists, triages and opens sees a behaviour of the Linux backend and
\* the kernel (lib.rs:160-195): what is proved of these holds for the user.
THEOREM UseImplementsWalk == AllSpec => Spec
<1>1. AllInit => Init
  BY DEF AllInit
<1> QED
  BY <1>1, StepIsBackends, PTL DEF AllSpec, Spec

\* The record at hand.
LEMMA ChosenIs ==
  ASSUME TypeInv, TargetListed, step # "list"
  PROVE  /\ pc = "idle" /\ outcome.status = "ok"
         /\ \E i \in DOMAIN outcome.disks :
              /\ Chosen = outcome.disks[i] /\ Chosen \in PhysicalDisk
              /\ findings = T!analyse_target(outcome.disks[i])
         /\ Chosen.name \in Names
<1>1. PICK i \in DOMAIN outcome.disks : /\ target = <<outcome.disks[i]>>
                                        /\ findings = T!analyse_target(outcome.disks[i])
  BY DEF TargetListed
<1>2. outcome.disks \in Seq(PhysicalDisk)
  BY DEF TypeInv, TypeOK, WalkTypeOK
<1>3. outcome.disks[i] \in PhysicalDisk /\ Chosen = outcome.disks[i]
  BY <1>1, <1>2 DEF Chosen
<1>4. Chosen.name \in Names
  BY <1>3 DEF PhysicalDisk
<1> QED
  BY <1>1, <1>3, <1>4 DEF TargetListed

LEMMA InitAcq == AllInit => AcqInv
<1> SUFFICES ASSUME AllInit PROVE AcqInv
  OBVIOUS
<1>1. ExactInv /\ MountInv
  BY InitExact, InitMounts DEF AllInit
<1>2. NoListFailed /\ TargetListed /\ HandleTrue
  BY DEF AllInit, Init, AcquisitionInit, NoListFailed, TargetListed, HandleTrue, NoOutcome
<1> QED
  BY <1>1, <1>2 DEF AcqInv

\* The kernel moves while the user is anywhere.
LEMMA MovingKeepsAcq ==
  ASSUME AcqInv, Moving
  PROVE  NoListFailed' /\ TargetListed' /\ HandleTrue'
<1>1. TypeInv /\ NamedOnce /\ Kernel /\ KernelTypeOK
  BY DEF AcqInv, ExactInv, WalkInv, Moving, TypeInv, TypeOK
<1>2. /\ UNCHANGED <<pc, outcome, step, target, findings, file, at, reported>>
      /\ gone' = (gone \/ (file # NoMedium /\ \A n \in Names : disk'[n] # file))
  BY <1>1, KernelOnlyMoves DEF Moving, KernelMoves
<1>3. SameMedia
  BY <1>1, KernelKeepsFiles
<1>4. NoListFailed' /\ TargetListed'
  BY <1>2 DEF AcqInv, NoListFailed, TargetListed
<1>5. Chosen' = Chosen
  BY <1>2 DEF Chosen
<1>6. CASE step \in {"list", "open"}
  BY <1>2, <1>4, <1>6 DEF AcqInv, HandleTrue
<1>7. CASE step \in {"seek", "rewind", "done"}
  <2>1. Chosen.name \in Names
    BY <1>1, <1>7, ChosenIs DEF AcqInv
  <2>2. file \in Media /\ gone \in BOOLEAN /\ gone' \in BOOLEAN /\ (gone => gone')
    BY <1>2, <1>7 DEF AcqInv, HandleTrue
  <2>3. ASSUME Chosen.name \notin moved'
        PROVE  file = disk'[Chosen.name] /\ ~gone'
    <3>1. Chosen.name \notin moved /\ disk'[Chosen.name] = disk[Chosen.name]
      BY <1>3, <2>1, <2>3 DEF SameMedia
    <3>2. file = disk[Chosen.name] /\ ~gone
      BY <1>7, <3>1 DEF AcqInv, HandleTrue
    <3> QED
      BY <1>2, <2>1, <3>1, <3>2
  <2>4. /\ step \in {"rewind", "done"} /\ ~gone' => reported = Parse(Geometry[file]["size"])
        /\ step = "done" => at = 0
    BY <2>2 DEF AcqInv, HandleTrue
  <2> QED
    BY <1>2, <1>4, <1>5, <1>7, <2>2, <2>3, <2>4 DEF HandleTrue
<1>8. step \in {"list", "open"} \cup {"seek", "rewind", "done"}
  BY DEF AcqInv, TargetListed
<1> QED
  BY <1>4, <1>6, <1>7, <1>8

\* A list is made: the user has no disk at hand.
LEMMA ListingKeepsAcq ==
  ASSUME AcqInv, Enumerate \/ Walking
  PROVE  NoListFailed' /\ TargetListed' /\ HandleTrue'
<1>1. CASE Enumerate
  BY <1>1 DEF Enumerate, Call, NoOutcome, NoListFailed, TargetListed, HandleTrue
<1>2. CASE Walking
  <2>1. pc # "idle"
    BY <1>2 DEF Walking, Walk, Unreadable, SkipVirtual, TakeEntry, OpenDisk, NextSub,
       SubFails, Probe, ReadPartSize, ReadPartStart, EndSub, ReadAttr, PushDisk, EndDir, ReadMounts
  <2>2. step = "list" /\ UNCHANGED acquisition
    BY <1>2, <2>1 DEF AcqInv, TargetListed, Walking
  <2>3. TargetListed' /\ HandleTrue'
    BY <2>2 DEF AcqInv, TargetListed, HandleTrue, acquisition
  <2>4. outcome' = outcome \/ Propagate \/ ReadMounts
    BY <1>2 DEF Walking, Walk, Unreadable, SkipVirtual, TakeEntry, OpenDisk, NextSub,
       SubFails, Probe, ReadPartSize, ReadPartStart, EndSub, ReadAttr, PushDisk, EndDir, PassOver
  <2>5. NoListFailed'
    BY <2>4 DEF AcqInv, NoListFailed, Propagate, ReadMounts, Return
  <2> QED
    BY <2>3, <2>5
<1> QED
  BY <1>1, <1>2

\* The user goes on, one call at a time.
LEMMA AcquiringKeepsAcq ==
  ASSUME AcqInv, Acquire
  PROVE  NoListFailed' /\ TargetListed' /\ HandleTrue'
<1>1. UNCHANGED vars
  BY DEF Acquire, Choose, Open, SeekEnd, Rewind
<1>2. UNCHANGED <<disk, moved, pc, outcome>>
  BY <1>1 DEF vars, kernel, history, walk
<1>3. NoListFailed'
  BY <1>2 DEF AcqInv, NoListFailed
<1>4. ASSUME GiveUp
      PROVE  TargetListed' /\ HandleTrue'
  BY <1>4 DEF GiveUp, TargetListed, HandleTrue
<1>5. ASSUME NEW i \in DOMAIN outcome.disks, Choose(i)
      PROVE  TargetListed' /\ HandleTrue'
  <2>1. outcome.status = "ok"
    BY <1>5 DEF AcqInv, NoListFailed
  <2> QED
    BY <1>2, <1>5, <2>1 DEF Choose, AcqInv, TargetListed, HandleTrue
<1>6. ASSUME step # "list", UNCHANGED <<target, findings>>,
             step' \in {"seek", "rewind", "done"}
      PROVE  TargetListed' /\ Chosen' = Chosen
  BY <1>2, <1>6 DEF AcqInv, TargetListed, Chosen
<1>7. CASE Open /\ ~GiveUp
  <2>1. Chosen.name \in Names
    BY <1>7, ChosenIs DEF Open, AcqInv, ExactInv, WalkInv
  <2>2. disk[Chosen.name] \in Media
    BY <1>7, <2>1 DEF Open, AcqInv, ExactInv, WalkInv, TypeInv, TypeOK, KernelTypeOK, Attached
  <2>3. file' = disk[Chosen.name] /\ step' = "seek" /\ gone' = FALSE
        /\ UNCHANGED <<target, findings>>
    BY <1>7 DEF Open, AcqInv, HandleTrue
  <2>4. TargetListed' /\ Chosen' = Chosen
    BY <1>6, <1>7, <2>3 DEF Open
  <2>5. HandleTrue'
    BY <1>2, <2>2, <2>3, <2>4 DEF HandleTrue
  <2> QED
    BY <1>3, <2>4, <2>5
<1>8. CASE SeekEnd /\ ~GiveUp
  <2>1. /\ step = "seek" /\ step' = "rewind" /\ reported' \in SizesSeen
        /\ UNCHANGED <<target, findings, file, gone>>
    BY <1>8 DEF SeekEnd
  <2>2. TargetListed' /\ Chosen' = Chosen
    BY <1>6, <2>1
  <2>3. ~gone => reported' = Parse(Geometry[file]["size"])
    BY <2>1 DEF SizesSeen
  <2>4. HandleTrue'
    BY <1>2, <2>1, <2>2, <2>3 DEF AcqInv, HandleTrue
  <2> QED
    BY <1>3, <2>2, <2>4
<1>9. CASE Rewind /\ ~GiveUp
  <2>1. /\ step = "rewind" /\ step' = "done" /\ at' = 0
        /\ UNCHANGED <<target, findings, file, gone, reported>>
    BY <1>9 DEF Rewind, Start
  <2>2. TargetListed' /\ Chosen' = Chosen
    BY <1>6, <2>1
  <2>3. HandleTrue'
    BY <1>2, <2>1, <2>2 DEF AcqInv, HandleTrue
  <2> QED
    BY <1>3, <2>2, <2>3
<1> QED
  BY <1>3, <1>4, <1>5, <1>7, <1>8, <1>9 DEF Acquire

LEMMA StepAcq == AcqInv /\ [AllNext]_allVars => AcqInv'
<1> SUFFICES ASSUME AcqInv, [AllNext]_allVars PROVE AcqInv'
  OBVIOUS
<1>1. ExactInv' /\ MountInv'
  BY StepIsBackends, StepExact, StepMounts DEF AcqInv
<1>2. CASE UNCHANGED allVars
  <2>1. UNCHANGED <<disk, moved, pc, outcome, step, target, findings, file, gone, at, reported>>
    BY <1>2 DEF allVars, vars, kernel, history, walk, acquisition
  <2> QED
    BY <1>1, <2>1 DEF AcqInv, NoListFailed, TargetListed, HandleTrue, Chosen
<1>3. CASE AllNext
  BY <1>1, <1>3, MovingKeepsAcq, ListingKeepsAcq, AcquiringKeepsAcq DEF AcqInv, AllNext
<1> QED
  BY <1>2, <1>3

\* From the call on, the disk at hand is one of the list with its own findings,
\* and the handle is on the medium that had its name when it was opened
\* (lib.rs:181-195, forensic/src/lib.rs:138-148).
THEOREM AcquisitionInvariant == AllSpec => []AcqInv
BY InitAcq, StepAcq, PTL DEF AllSpec

\* A returned handle is at the start of a device, with that device's own size,
\* whatever was plugged meanwhile (lib.rs:181-195).
THEOREM HandlesAreFresh == AllSpec => []HandleFresh
<1>1. AcqInv => HandleFresh
  BY MediaAssumption DEF AcqInv, HandleTrue, HandleFresh
<1> QED
  BY AcquisitionInvariant, <1>1, PTL

\* While nothing was plugged under the disk's name since the list was begun,
\* the handle is on the disk that was listed, and the two sizes agree
\* (linux.rs:54-56, sysfs.rs:107, lib.rs:190-195).
THEOREM OpensWhatWasListed == AllSpec => []OpenedIsListed
<1>1. AcqInv => OpenedIsListed
  <2> SUFFICES ASSUME AcqInv, step = "done", Chosen.name \notin moved
               PROVE  file = disk[Chosen.name] /\ reported * SYSFS_SECTOR = Chosen.size
    BY DEF OpenedIsListed
  <2>1. file \in Media /\ file = disk[Chosen.name] /\ ~gone
        /\ reported = Parse(Geometry[file]["size"])
    BY DEF AcqInv, HandleTrue
  <2>2. PICK i \in DOMAIN outcome.disks : Chosen = outcome.disks[i]
    BY ChosenIs DEF AcqInv, ExactInv, WalkInv
  <2>3. outcome.status = "ok" /\ ReportTrue
    BY ChosenIs DEF AcqInv, ExactInv, WalkInv
  <2>4. Chosen.size = Says(Chosen.name, "size") * SYSFS_SECTOR
    BY <2>2, <2>3 DEF ReportTrue, Reported, ReportsGeometry
  <2>5. Says(Chosen.name, "size") = Parse(Geometry[file]["size"])
    BY <2>1, MediaAssumption DEF Says, AttrFile, Attached
  <2> QED
    BY <2>1, <2>4, <2>5
<1> QED
  BY AcquisitionInvariant, <1>1, PTL

\* What a triage consists of.
LEMMA CodesJoin ==
  ASSUME NEW S, NEW a \in Seq(S), NEW b \in Seq(S)
  PROVE  T!Codes(a \o b) = T!Codes(a) \cup T!Codes(b)
<1>1. /\ Len(a) \in Nat /\ Len(b) \in Nat
      /\ a \o b \in Seq(S) /\ Len(a \o b) = Len(a) + Len(b)
      /\ \A l \in 1 .. Len(a) : (a \o b)[l] = a[l]
      /\ \A l \in 1 .. Len(b) : (a \o b)[Len(a) + l] = b[l]
  BY ConcatProperties
<1>2. DOMAIN a = 1 .. Len(a) /\ DOMAIN b = 1 .. Len(b) /\ DOMAIN (a \o b) = 1 .. Len(a) + Len(b)
  BY <1>1
<1>3. \A l \in 1 .. Len(a) + Len(b) : \/ l \in 1 .. Len(a)
                                      \/ l - Len(a) \in 1 .. Len(b) /\ Len(a) + (l - Len(a)) = l
  BY <1>1
<1>4. \A l \in 1 .. Len(a) : l \in 1 .. Len(a) + Len(b)
  BY <1>1
<1>5. \A l \in 1 .. Len(b) : Len(a) + l \in 1 .. Len(a) + Len(b)
  BY <1>1
<1> DEFINE c == a \o b
<1>6. /\ DOMAIN c = 1 .. Len(a) + Len(b)
      /\ \A l \in 1 .. Len(a) : c[l] = a[l]
      /\ \A l \in 1 .. Len(b) : c[Len(a) + l] = b[l]
  BY <1>1, <1>2
<1> HIDE DEF c
<1>7. ASSUME NEW x \in T!Codes(c)
      PROVE  x \in T!Codes(a) \cup T!Codes(b)
  <2>1. PICK l \in 1 .. Len(a) + Len(b) : x = c[l].code
    BY <1>6 DEF T!Codes
  <2> QED
    BY <1>2, <1>3, <1>6, <2>1, ZenonT(40) DEF T!Codes
<1>8. ASSUME NEW x \in T!Codes(a)
      PROVE  x \in T!Codes(c)
  BY <1>2, <1>4, <1>6 DEF T!Codes
<1>9. ASSUME NEW x \in T!Codes(b)
      PROVE  x \in T!Codes(c)
  <2>1. PICK l \in 1 .. Len(b) : x = b[l].code
    BY <1>2 DEF T!Codes
  <2> QED
    BY <1>5, <1>6, <2>1 DEF T!Codes
<1>10. T!Codes(c) = T!Codes(a) \cup T!Codes(b)
  BY <1>7, <1>8, <1>9
<1> QED
  BY <1>10 DEF c

LEMMA CodeWhen ==
  ASSUME NEW condition, NEW code, NEW evidence,
         NEW S, [code |-> code, evidence |-> evidence] \in S
  PROVE  LET w == T!When(condition, T!Finding(code, evidence))
         IN  /\ w \in Seq(S)
             /\ T!Codes(w) = IF condition THEN {code} ELSE {}
<1> DEFINE r == [code |-> code, evidence |-> evidence]
<1>1. r.code = code
  OBVIOUS
<1> HIDE DEF r
<1>2. <<r>> \in Seq(S) /\ DOMAIN <<r>> = {1} /\ <<r>>[1] = r
  BY DEF r
<1>3. T!Codes(<<r>>) = {code}
  BY <1>1, <1>2 DEF T!Codes
<1>4. <<>> \in Seq(S) /\ T!Codes(<<>>) = {}
  BY DEF T!Codes
<1> QED
  BY <1>2, <1>3, <1>4 DEF T!When, T!Finding, r

\* The findings of a disk, by its record; and the first one's evidence.
LEMMA FindingsOf ==
  ASSUME NEW d \in PhysicalDisk
  PROVE  LET fs == T!analyse_target(d)
             codes == T!Codes(fs)
         IN  /\ "LIVE-WRITABLE" \in codes <=> ~d.read_only
             /\ "LIVE-REMOVABLE" \in codes <=> d.removable
             /\ "LIVE-SYNTHESIZED" \in codes <=> d.synthesized
             /\ "LIVE-SECTOR-4KN" \in codes <=> d.logical > 0 /\ d.physical # d.logical
             /\ \A f \in DOMAIN fs :
                  fs[f].code = "LIVE-MOUNTED" => fs[f].evidence = T!MountEvidence(d)
             /\ T!MountedParts(d) # {} =>
                  \E f \in DOMAIN fs : /\ fs[f].code = "LIVE-MOUNTED"
                                       /\ fs[f].evidence = T!MountEvidence(d)
<1> DEFINE ev == T!MountEvidence(d)
           c1 == T!MountedParts(d) # {}
           c3 == d.logical > 0 /\ d.physical # d.logical
           sizes == {d.logical, d.physical}
           S == {[code |-> "LIVE-MOUNTED", evidence |-> ev],
                 [code |-> "LIVE-REMOVABLE", evidence |-> {}],
                 [code |-> "LIVE-SECTOR-4KN", evidence |-> sizes],
                 [code |-> "LIVE-SYNTHESIZED", evidence |-> {}],
                 [code |-> "LIVE-WRITABLE", evidence |-> {}]}
           w1 == T!When(c1, T!Finding("LIVE-MOUNTED", ev))
           w2 == T!When(d.removable, T!Finding("LIVE-REMOVABLE", {}))
           w3 == T!When(c3, T!Finding("LIVE-SECTOR-4KN", sizes))
           w4 == T!When(d.synthesized, T!Finding("LIVE-SYNTHESIZED", {}))
           w5 == T!When(~d.read_only, T!Finding("LIVE-WRITABLE", {}))
<1>0. T!analyse_target(d) = (((w1 \o w2) \o w3) \o w4) \o w5
  BY DEF T!analyse_target, T!analyse
<1>f. c1 => w1 = <<[code |-> "LIVE-MOUNTED", evidence |-> ev]>>
  BY DEF T!When, T!Finding
<1>1. w1 \in Seq(S) /\ T!Codes(w1) = IF c1 THEN {"LIVE-MOUNTED"} ELSE {}
  <2> HIDE DEF ev, c1, sizes
  <2>1. [code |-> "LIVE-MOUNTED", evidence |-> ev] \in S
    OBVIOUS
  <2> HIDE DEF S
  <2> QED
    BY <2>1, CodeWhen, Zenon
<1>2. w2 \in Seq(S) /\ T!Codes(w2) = IF d.removable THEN {"LIVE-REMOVABLE"} ELSE {}
  <2> HIDE DEF ev, c1, sizes
  <2>1. [code |-> "LIVE-REMOVABLE", evidence |-> {}] \in S
    OBVIOUS
  <2> HIDE DEF S
  <2> QED
    BY <2>1, CodeWhen, Zenon
<1>3. w3 \in Seq(S) /\ T!Codes(w3) = IF c3 THEN {"LIVE-SECTOR-4KN"} ELSE {}
  <2> HIDE DEF ev, c1, c3, sizes
  <2>1. [code |-> "LIVE-SECTOR-4KN", evidence |-> sizes] \in S
    OBVIOUS
  <2> HIDE DEF S
  <2> QED
    BY <2>1, CodeWhen, Zenon
<1>4. w4 \in Seq(S) /\ T!Codes(w4) = IF d.synthesized THEN {"LIVE-SYNTHESIZED"} ELSE {}
  <2> HIDE DEF ev, c1, sizes
  <2>1. [code |-> "LIVE-SYNTHESIZED", evidence |-> {}] \in S
    OBVIOUS
  <2> HIDE DEF S
  <2> QED
    BY <2>1, CodeWhen, Zenon
<1>5. w5 \in Seq(S) /\ T!Codes(w5) = IF ~d.read_only THEN {"LIVE-WRITABLE"} ELSE {}
  <2> HIDE DEF ev, c1, sizes
  <2>1. [code |-> "LIVE-WRITABLE", evidence |-> {}] \in S
    OBVIOUS
  <2> HIDE DEF S
  <2> QED
    BY <2>1, CodeWhen, Zenon
<1>c. c3 \in BOOLEAN
  OBVIOUS
<1>s. \A s \in S : s.code = "LIVE-MOUNTED" => s.evidence = ev
  OBVIOUS
<1> HIDE DEF w1, w2, w3, w4, w5, S, ev, sizes, c1, c3
<1> DEFINE v2 == w1 \o w2
           v3 == v2 \o w3
           v4 == v3 \o w4
           v5 == v4 \o w5
<1>j. \A v, w \in Seq(S) : v \o w \in Seq(S) /\ T!Codes(v \o w) = T!Codes(v) \cup T!Codes(w)
  BY CodesJoin, ConcatProperties
<1>6. /\ v2 \in Seq(S) /\ T!Codes(v2) = T!Codes(w1) \cup T!Codes(w2)
      /\ v3 \in Seq(S) /\ T!Codes(v3) = T!Codes(v2) \cup T!Codes(w3)
      /\ v4 \in Seq(S) /\ T!Codes(v4) = T!Codes(v3) \cup T!Codes(w4)
      /\ v5 \in Seq(S) /\ T!Codes(v5) = T!Codes(v4) \cup T!Codes(w5)
  <2>2. v2 \in Seq(S) /\ T!Codes(v2) = T!Codes(w1) \cup T!Codes(w2)
    BY <1>j, <1>1, <1>2, Zenon
  <2> HIDE DEF v2
  <2>3. v3 \in Seq(S) /\ T!Codes(v3) = T!Codes(v2) \cup T!Codes(w3)
    BY <1>j, <1>3, <2>2, Zenon
  <2> HIDE DEF v3
  <2>4. v4 \in Seq(S) /\ T!Codes(v4) = T!Codes(v3) \cup T!Codes(w4)
    BY <1>j, <1>4, <2>3, Zenon
  <2> HIDE DEF v4
  <2>5. v5 \in Seq(S) /\ T!Codes(v5) = T!Codes(v4) \cup T!Codes(w5)
    BY <1>j, <1>5, <2>4, Zenon
  <2> QED
    BY <2>2, <2>3, <2>4, <2>5
<1>7. T!analyse_target(d) = v5
  BY <1>0
<1>8. /\ "LIVE-WRITABLE" \in T!Codes(T!analyse_target(d)) <=> ~d.read_only
      /\ "LIVE-REMOVABLE" \in T!Codes(T!analyse_target(d)) <=> d.removable
      /\ "LIVE-SYNTHESIZED" \in T!Codes(T!analyse_target(d)) <=> d.synthesized
      /\ "LIVE-SECTOR-4KN" \in T!Codes(T!analyse_target(d)) <=> c3
  <2> HIDE DEF v2, v3, v4, v5
  <2>1. d.read_only \in BOOLEAN /\ d.removable \in BOOLEAN /\ d.synthesized \in BOOLEAN
    BY DEF PhysicalDisk
  <2>2. /\ T!Codes(w1) \subseteq {"LIVE-MOUNTED"} /\ T!Codes(w2) \subseteq {"LIVE-REMOVABLE"}
        /\ T!Codes(w3) \subseteq {"LIVE-SECTOR-4KN"}
        /\ T!Codes(w4) \subseteq {"LIVE-SYNTHESIZED"} /\ T!Codes(w5) \subseteq {"LIVE-WRITABLE"}
    BY <1>1, <1>2, <1>3, <1>4, <1>5
  <2>3. /\ "LIVE-WRITABLE" \in T!Codes(w5) <=> ~d.read_only
        /\ "LIVE-REMOVABLE" \in T!Codes(w2) <=> d.removable
        /\ "LIVE-SYNTHESIZED" \in T!Codes(w4) <=> d.synthesized
        /\ "LIVE-SECTOR-4KN" \in T!Codes(w3) <=> c3
    BY <1>2, <1>3, <1>4, <1>5, <1>c, <2>1
  <2>4. /\ "LIVE-WRITABLE" \in T!Codes(v5) <=> "LIVE-WRITABLE" \in T!Codes(w5)
        /\ "LIVE-REMOVABLE" \in T!Codes(v5) <=> "LIVE-REMOVABLE" \in T!Codes(w2)
        /\ "LIVE-SYNTHESIZED" \in T!Codes(v5) <=> "LIVE-SYNTHESIZED" \in T!Codes(w4)
        /\ "LIVE-SECTOR-4KN" \in T!Codes(v5) <=> "LIVE-SECTOR-4KN" \in T!Codes(w3)
    BY <1>6, <2>2
  <2> QED
    BY <1>7, <2>3, <2>4, Zenon
<1>9. ASSUME c1
      PROVE  \E f \in DOMAIN T!analyse_target(d) :
               /\ T!analyse_target(d)[f].code = "LIVE-MOUNTED"
               /\ T!analyse_target(d)[f].evidence = ev
  <2> DEFINE r == [code |-> "LIVE-MOUNTED", evidence |-> ev]
  <2>1. r.code = "LIVE-MOUNTED" /\ r.evidence = ev /\ w1 = <<r>>
    BY <1>9, <1>f
  <2> HIDE DEF r
  <2>2. Len(w1) = 1 /\ w1[1] = r
    BY <2>1
  <2>3. \A a, b \in Seq(S) : Len(a) >= 1 /\ a[1] = r =>
          a \o b \in Seq(S) /\ Len(a \o b) >= 1 /\ (a \o b)[1] = r
    BY ConcatProperties
  <2>4. Len(v2) >= 1 /\ v2[1] = r
    BY <1>1, <1>2, <2>2, <2>3
  <2> HIDE DEF v2
  <2>5. Len(v3) >= 1 /\ v3[1] = r
    BY <1>3, <1>6, <2>3, <2>4
  <2> HIDE DEF v3
  <2>6. Len(v4) >= 1 /\ v4[1] = r
    BY <1>4, <1>6, <2>3, <2>5
  <2> HIDE DEF v4
  <2>7. v5 \in Seq(S) /\ Len(v5) >= 1 /\ v5[1] = r
    BY <1>5, <1>6, <2>3, <2>6
  <2> HIDE DEF v5
  <2>8. 1 \in DOMAIN v5
    BY <2>7
  <2> QED
    BY <1>7, <2>1, <2>7, <2>8
<1>10. ASSUME NEW f \in DOMAIN T!analyse_target(d),
              T!analyse_target(d)[f].code = "LIVE-MOUNTED"
       PROVE  T!analyse_target(d)[f].evidence = ev
  <2> HIDE DEF v5
  <2>1. T!analyse_target(d)[f] \in S
    BY <1>6, <1>7
  <2> QED
    BY <1>s, <1>10, <2>1
<1> QED
  BY <1>8, <1>9, <1>10 DEF ev, c1, c3

\* The findings about a disk that held still are true of it: it is writable,
\* removable, an overlay or of two sector sizes if and only if they say so; a
\* partition that stayed mounted under its kernel name is evidence, and what is
\* evidence is mounted or was mounted or unmounted since the list was begun
\* (forensic/src/lib.rs:52-148).
THEOREM FindingsAreTrue == AllSpec => []FindingsHold
<1>1. AcqInv => FindingsHold
  <2> SUFFICES ASSUME AcqInv, step # "list", Still(Chosen.name)
               PROVE  FindingsHold
    BY DEF FindingsHold
  <2> DEFINE d == Chosen
             n == Chosen.name
             codes == T!Codes(findings)
             inUse == {mounts[i].dev : i \in {j \in DOMAIN mounts : mounts[j].src = "kernel"}}
             touched == {r.dev : r \in remounted}
             sizes == {Says(n, "logical"), Says(n, "physical")}
             kept == {i \in DOMAIN mounts : /\ mounts[i].dev[1] = n
                                            /\ mounts[i].dev[2] # Whole
                                            /\ mounts[i].src = "kernel"
                                            /\ mounts[i].dev \notin touched}
  <2>t. /\ TypeInv /\ ReportTrue /\ Delivered /\ MountsTrue /\ MountsSeen /\ MountsPlaced
        /\ TargetListed
    BY DEF AcqInv, ExactInv, WalkInv, MountInv
  <2>1. PICK i \in DOMAIN outcome.disks : /\ d = outcome.disks[i] /\ d \in PhysicalDisk
                                          /\ findings = T!analyse_target(d)
    BY <2>t, ChosenIs, Zenon
  <2>2. outcome.status = "ok" /\ n \in Names
    BY <2>t, ChosenIs
  <2>3. ReportsGeometry(d) /\ ReportsTable(d) /\ WellDisk(d)
    BY <2>1, <2>2, <2>t DEF ReportTrue, Reported, Delivered, WellListed, Still
  <2>4. Attached(n)
    BY <2>1, <2>2, <2>t DEF Delivered, Listed, There, Still
  <2>5. /\ "LIVE-WRITABLE" \in codes <=> ~d.read_only
        /\ "LIVE-REMOVABLE" \in codes <=> d.removable
        /\ "LIVE-SYNTHESIZED" \in codes <=> d.synthesized
        /\ "LIVE-SECTOR-4KN" \in codes <=> d.logical > 0 /\ d.physical # d.logical
        /\ \A f \in DOMAIN findings :
             findings[f].code = "LIVE-MOUNTED" => findings[f].evidence = T!MountEvidence(d)
        /\ T!MountedParts(d) # {} =>
             \E f \in DOMAIN findings : /\ findings[f].code = "LIVE-MOUNTED"
                                        /\ findings[f].evidence = T!MountEvidence(d)
    BY <2>1, FindingsOf, Zenon
  <2>6. /\ "LIVE-WRITABLE" \in codes <=> Says(n, "ro") # 1
        /\ "LIVE-REMOVABLE" \in codes <=> Says(n, "removable") = 1
        /\ "LIVE-SYNTHESIZED" \in codes <=> n \in Mapped
    <3>1. /\ d.read_only = (Says(n, "ro") = 1) /\ d.removable = (Says(n, "removable") = 1)
          /\ d.synthesized = (n \in Mapped)
      BY <2>3 DEF ReportsGeometry
    <3> QED
      BY <2>5, <3>1, Zenon
  <2>7. ASSUME MountsReadable, NEW l \in kept
        PROVE  \E a \in T!MountedParts(d) : d.partitions[a].dev = mounts[l].dev
    <3>1. /\ mounts \in Seq(MountLine) /\ l \in DOMAIN mounts /\ mounts[l] \in MountLine
          /\ mounts[l].src = "kernel" /\ mounts[l].dev[1] = n /\ mounts[l].dev[2] # Whole
          /\ Untouched(mounts[l].dev)
      <4>1. mounts \in Seq(MountLine) /\ l \in DOMAIN mounts
        BY <2>t DEF TypeInv, TypeOK, KernelTypeOK
      <4>2. mounts[l] \in MountLine
        BY <4>1
      <4> QED
        BY <2>7, <4>1, <4>2 DEF Untouched
    <3> DEFINE k == mounts[l].dev[2]
    <3>2. k \in PartsOf(n) /\ mounts[l].dev = <<n, k>>
      BY <2>4, <2>t, <3>1 DEF MountsPlaced, MountLine
    <3>3. \E row \in TableSays(n) : row.no = k
      <4> DEFINE row(j) == [no |-> j, start |-> Parse(TableOf(n)[j].start) * SYSFS_SECTOR,
                            size |-> Parse(TableOf(n)[j].size) * SYSFS_SECTOR]
      <4>1. \A j : row(j).no = j
        OBVIOUS
      <4>2. TableSays(n) = {row(j) : j \in PartsOf(n)}
        BY DEF TableSays
      <4> HIDE DEF row
      <4> QED
        BY <3>2, <4>1, <4>2
    <3>4. PICK a \in DOMAIN d.partitions : d.partitions[a].dev[2] = k
      BY <2>3, <3>3 DEF ReportsTable
    <3> DEFINE p == d.partitions[a]
    <3>5. p.dev = <<n, k>>
      <4>1. d.partitions \in Seq(Partition)
        BY <2>1 DEF PhysicalDisk
      <4>2. p \in Partition
        BY <3>4, <4>1
      <4>3. p.dev[1] = n
        BY <2>3, <3>4 DEF WellDisk
      <4> QED
        BY <3>4, <4>2, <4>3 DEF Partition
    <3>6. p \in ListedParts
      BY <2>1, <3>4 DEF ListedParts
    <3>7. MountRead(p)
      BY <2>2, <2>7, <2>t, <3>1, <3>2, <3>5, <3>6 DEF MountsTrue
    <3>8. l \in LinesOf(p)
      BY <3>1, <3>2, <3>5 DEF LinesOf
    <3>9. PICK m \in LinesOf(p) : p.mount = PointRead(mounts[m].point)
      BY <3>7, <3>8 DEF MountRead
    <3>10. mounts[m] \in MountLine
      BY <3>1, <3>9 DEF LinesOf
    <3>11. p.mount # NoMount
      BY <3>9, <3>10, PointReadSome, MountAssumption DEF MountLine, NoMount
    <3> QED
      BY <3>2, <3>4, <3>5, <3>11 DEF T!MountedParts
  <2>8. ASSUME kept # {}, MountsReadable
        PROVE  \E f \in DOMAIN findings :
                 /\ findings[f].code = "LIVE-MOUNTED"
                 /\ {mounts[l].dev : l \in kept} \subseteq {e[1] : e \in findings[f].evidence}
    <3> HIDE DEF kept
    <3>1. T!MountedParts(d) # {}
      BY <2>7, <2>8
    <3>2. PICK f \in DOMAIN findings : /\ findings[f].code = "LIVE-MOUNTED"
                                       /\ findings[f].evidence = T!MountEvidence(d)
      BY <2>5, <3>1
    <3>3. ASSUME NEW l \in kept
          PROVE  mounts[l].dev \in {e[1] : e \in T!MountEvidence(d)}
      <4>1. PICK a \in T!MountedParts(d) : d.partitions[a].dev = mounts[l].dev
        BY <2>7, <2>8
      <4>2. <<d.partitions[a].dev, d.partitions[a].mount>> \in T!MountEvidence(d)
        BY <4>1 DEF T!MountEvidence
      <4>3. <<d.partitions[a].dev, d.partitions[a].mount>>[1] = mounts[l].dev
        BY <4>1
      <4> QED
        BY <4>2, <4>3
    <3> QED
      BY <3>2, <3>3
  <2>9. ASSUME sizes \subseteq 1 .. U32 - 1
        PROVE  "LIVE-SECTOR-4KN" \in codes <=> Says(n, "logical") # Says(n, "physical")
    <3>1. Says(n, "logical") \in 1 .. U32 - 1 /\ Says(n, "physical") \in 1 .. U32 - 1
      BY <2>9
    <3>2. d.logical = Says(n, "logical") /\ d.physical = Says(n, "physical")
      BY <2>3, <3>1 DEF ReportsGeometry
    <3>3. d.logical > 0
      BY <3>1, <3>2, WordAssumption
    <3> QED
      BY <2>5, <3>2, <3>3
  <2>10. ASSUME NEW f \in DOMAIN findings, findings[f].code = "LIVE-MOUNTED",
                NEW e \in findings[f].evidence
         PROVE  e[1] \in inUse \cup touched
    <3>1. PICK a \in T!MountedParts(d) : e = <<d.partitions[a].dev, d.partitions[a].mount>>
      BY <2>5, <2>10 DEF T!MountEvidence
    <3> DEFINE p == d.partitions[a]
    <3>2. e[1] = p.dev /\ p.mount # NoMount /\ p \in ListedParts
      BY <2>1, <3>1 DEF T!MountedParts, ListedParts
    <3> HIDE DEF p
    <3>3. Untouched(p.dev) => p.dev \in inUse
      BY <2>2, <2>t, <3>2 DEF MountsSeen, LinesOf
    <3> QED
      BY <3>2, <3>3 DEF Untouched
  <2> QED
    BY <2>6, <2>8, <2>9, <2>10 DEF FindingsHold
<1> QED
  BY AcquisitionInvariant, <1>1, PTL
=============================================================================
