------------------------- MODULE LayoutBufferProofs -------------------------
(***************************************************************************)
(* What a layout buffer says, for every buffer: the report of its slots    *)
(* has one record for each slot that has to be reported, and a name is the *)
(* text without the blanks around it.  The parser's proofs and those of    *)
(* the Windows backend cite these facts.                                   *)
(***************************************************************************)
EXTENDS LayoutBuffer, StableSortProofs, SequenceTheorems

\* A name is cut out of its field (drive_layout.rs:125-133).
LEMMA NameType ==
  ASSUME NEW s \in Seq(Nat)
  PROVE  utf16_name(s) \in Seq(Nat)
<1> DEFINE text == take_while(s)
           before == {u \in text : \A v \in 1 .. u : s[v] = Blank}
           after == {u \in text : \A v \in text : v >= u => s[v] = Blank}
           from == Cardinality(before) + 1
           to == Cardinality(text) - Cardinality(after)
<1>1. IsFiniteSet(1 .. Len(s)) /\ Cardinality(1 .. Len(s)) = Len(s)
  <2>1. Len(s) \in Nat
        OBVIOUS
  <2>2. \A n \in Nat : IsFiniteSet(1 .. n) /\ Cardinality(1 .. n) = n
        BY FS_Interval
  <2> QED BY <2>1, <2>2, Zenon
<1>2. text \subseteq 1 .. Len(s)
      BY DEF take_while
<1>3. IsFiniteSet(text) /\ Cardinality(text) =< Len(s) /\ Cardinality(text) \in Nat
      BY <1>1, <1>2, FS_Subset, FS_CardinalityType
<1>4. IsFiniteSet(before) /\ IsFiniteSet(after)
      BY <1>3, FS_Subset
<1>5. Cardinality(before) \in Nat /\ Cardinality(after) \in Nat
      BY <1>4, FS_CardinalityType
<1>6. from \in Nat \ {0} /\ to \in Int /\ to =< Len(s)
      BY <1>3, <1>5
<1>7. SubSeq(s, from, to) \in Seq(Nat)
  <2> HIDE DEF from, to
  <2>1. \A k \in from .. to : k \in 1 .. Len(s)
        BY <1>6
  <2>2. \A k \in from .. to : s[k] \in Nat
        BY <2>1
  <2> QED BY <1>6, <2>1, <2>2
<1> QED BY <1>7 DEF utf16_name

\* The record of a used slot is a record.
LEMMA RecordType ==
  ASSUME NEW b, NEW i, b.slot[i] \in Entry
  PROVE  RecordOf(b, i) \in Record
<1>1. /\ b.slot[i].start \in Int /\ b.slot[i].length \in Int
      /\ b.slot[i].number \in Nat /\ b.slot[i].type \in Nat
      /\ utf16_name(b.slot[i].name) \in Seq(Nat)
      BY NameType DEF Entry
<1>2. \A x \in Int : NonNegative(x) \in Nat
      BY DEF NonNegative
<1>3. NoName \in Seq(Nat)
      BY DEF NoName
<1> DEFINE name == IF b.style = STYLE_GPT THEN utf16_name(b.slot[i].name) ELSE NoName
<1>4. name \in Seq(Nat)
      BY <1>1, <1>3, Zenon
<1> HIDE DEF name
<1> QED BY <1>1, <1>2, <1>4 DEF RecordOf, Record, None, name

-----------------------------------------------------------------------------
(* Names. *)

\* A set of positions that holds all the positions before each of its own is
\* an interval that starts at the first.
LEMMA HeadCounted ==
  ASSUME NEW m \in Nat, NEW P, P \subseteq 1 .. m, \A u \in P : 1 .. u \subseteq P
  PROVE  Cardinality(P) \in 0 .. m /\ P = 1 .. Cardinality(P)
<1> DEFINE Q == (1 .. m) \ P
<1>1. \A k \in 0 .. m : Cardinality(1 .. k) = k
  BY FS_Interval
<1>2. CASE Q = {}
  <2>1. P = 1 .. m
    BY <1>2
  <2> QED
    BY <1>1, <2>1
<1>3. CASE Q # {}
  <2>1. PICK q \in Q : \A j \in Q : q =< j
    <3> HIDE DEF Q
    <3>1. Q \subseteq 1 .. m
      BY DEF Q
    <3> QED
      BY <1>3, <3>1, FirstPosition
  <2>2. q \in 1 .. m /\ q \notin P
    OBVIOUS
  <2>3. \A j \in 1 .. q - 1 : j \in P
    BY <2>1, <2>2
  <2>4. \A j \in P : j < q
    BY <2>2
  <2>5. P = 1 .. q - 1
    <3>1. \A j \in P : j \in 1 .. q - 1
      BY <2>2, <2>4
    <3> QED
      BY <2>3, <3>1
  <2>6. q - 1 \in 0 .. m
    BY <2>2
  <2> QED
    BY <1>1, <2>5, <2>6
<1> QED
  BY <1>2, <1>3

\* ... and one that holds all the positions after each of its own ends at the
\* last.
LEMMA TailCounted ==
  ASSUME NEW m \in Nat, NEW P, P \subseteq 1 .. m, \A u \in P : u .. m \subseteq P
  PROVE  Cardinality(P) \in 0 .. m /\ P = m + 1 - Cardinality(P) .. m
<1> DEFINE Q == (1 .. m) \ P
           q == Cardinality(Q)
<1>1. q \in 0 .. m /\ Q = 1 .. q
  <2>1. \A u \in Q : 1 .. u \subseteq Q
    OBVIOUS
  <2> HIDE DEF Q
  <2>2. Q \subseteq 1 .. m
    BY DEF Q
  <2> QED
    BY <2>1, <2>2, HeadCounted
<1>2. P = q + 1 .. m
  <2>1. \A j \in 1 .. m : j \in P <=> j \notin 1 .. q
    BY <1>1
  <2> HIDE DEF Q, q
  <2>2. \A j \in P : j \in q + 1 .. m
    BY <1>1, <2>1
  <2>3. \A j \in q + 1 .. m : j \in P
    BY <1>1, <2>1
  <2> QED
    BY <2>2, <2>3
<1>3. Cardinality(q + 1 .. m) = m - q
  BY <1>1, FS_Interval
<1> QED
  BY <1>1, <1>2, <1>3

-----------------------------------------------------------------------------
(* The report. *)

\* The places of the reported slots are the numbers from 1, each given once.
LEMMA ReportPlaces ==
  ASSUME NEW b, b.count \in Nat
  PROVE  /\ IsFiniteSet(Reported(b)) /\ Cardinality(Reported(b)) \in Nat
         /\ \A i \in Reported(b) : PlaceOf(b, i) \in 1 .. Cardinality(Reported(b))
         /\ \A i, j \in Reported(b) : PlaceOf(b, i) = PlaceOf(b, j) => i = j
         /\ \A k \in 1 .. Cardinality(Reported(b)) :
              \E i \in Reported(b) : PlaceOf(b, i) = k
<1>1. Reported(b) \subseteq 0 .. b.count - 1 /\ IsFiniteSet(0 .. b.count - 1)
  BY FS_Interval DEF Reported
<1>2. Reported(b) \subseteq Nat /\ IsFiniteSet(Reported(b))
  BY <1>1, FS_Subset
<1>3. \A i : PlaceOf(b, i) = PlaceIn(Reported(b), i)
  BY DEF PlaceOf, PlaceIn
<1> QED
  BY <1>2, <1>3, PlacesCounted

\* The report has exactly the records of the slots that have to be reported.
LEMMA RecordsAre ==
  ASSUME NEW b, b.count \in Nat, \A i \in Reported(b) : b.slot[i] \in Entry
  PROVE  /\ Records(b) \in Seq(Record)
         /\ {Records(b)[k] : k \in DOMAIN Records(b)} = {RecordOf(b, i) : i \in Reported(b)}
<1> DEFINE m == Cardinality(Reported(b))
           Slot(k) == CHOOSE i \in Reported(b) : PlaceOf(b, i) = k
<1>1. m \in Nat
  BY ReportPlaces
<1>2. \A k \in 1 .. m : Slot(k) \in Reported(b) /\ PlaceOf(b, Slot(k)) = k
  BY ReportPlaces, Zenon
<1>3. \A i \in Reported(b) : PlaceOf(b, i) \in 1 .. m /\ Slot(PlaceOf(b, i)) = i
  BY <1>2, ReportPlaces
<1>4. DOMAIN Records(b) = 1 .. m /\ \A k \in 1 .. m : Records(b)[k] = RecordOf(b, Slot(k))
  BY DEF Records
<1> HIDE DEF m, Slot
<1>5. \A k \in 1 .. m : Records(b)[k] \in Record
  BY <1>2, <1>4, RecordType
<1>6. Records(b) = [k \in 1 .. m |-> Records(b)[k]]
  BY DEF Records, m
<1> QED
  BY <1>1, <1>2, <1>3, <1>4, <1>5, <1>6
=============================================================================
