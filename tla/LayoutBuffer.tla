---------------------------- MODULE LayoutBuffer ----------------------------
(***************************************************************************)
(* The buffer IOCTL_DISK_GET_DRIVE_LAYOUT_EX fills, and what it says       *)
(* (core/src/drive_layout.rs).  The buffer is its length, the two header   *)
(* fields, and the entries by slot; a slot can be read only when all its   *)
(* bytes are in the buffer.  A type is a number, 0 when it is unused; a name *)
(* is the units of its field, and Blank stands for any white space.        *)
(***************************************************************************)
EXTENDS Integers, FiniteSets, Sequences

PARTITION_ENTRY_OFFSET == 48
ENTRY_SIZE == 144
STYLE_MBR == 0
STYLE_GPT == 1
NO_STYLE == -1      \* u32::MAX in the code

Entry == [start : Int, length : Int, number : Nat, type : Nat, name : Seq(Nat)]
Record == [number : Nat, start : Nat, length : Nat, type : Nat \cup {-1},
           name : Seq(Nat)]

None == -1
NoName == <<>>
Nul == 0
Blank == 32
NonNegative(x) == IF x < 0 THEN 0 ELSE x     \* .max(0)

\* The bytes of slot i are in the buffer.
Fits(b, i) == PARTITION_ENTRY_OFFSET + (i + 1) * ENTRY_SIZE =< b.len

\* A buffer has every entry that fits in it.
IsBuffer(b) == /\ b.len \in Nat /\ b.style \in Nat /\ b.count \in Nat
               /\ \A i \in 0 .. b.len : Fits(b, i) => b.slot[i] \in Entry

\* Slot i says something: it is not empty, and in an MBR it is not unused.
Used(b, i) == /\ NonNegative(b.slot[i].length) # 0
              /\ ~(b.style = STYLE_MBR /\ b.slot[i].type = 0)

\* The units of a name before the first NUL, and the name: those, without the
\* blanks around it.
take_while(s) == {u \in DOMAIN s : \A v \in 1 .. u : s[v] # Nul}
utf16_name(s) ==
  LET before == {u \in take_while(s) : \A v \in 1 .. u : s[v] = Blank}
      after == {u \in take_while(s) : \A v \in take_while(s) : v >= u => s[v] = Blank}
  IN  SubSeq(s, Cardinality(before) + 1, Cardinality(take_while(s)) - Cardinality(after))

\* Mutant of RecordOf: signed fields are taken as they are.
RecordSigned(b, i) ==
  LET s == b.slot[i] IN
  [number |-> s.number, start |-> s.start, length |-> s.length, type |-> s.type,
   name |-> NoName]

RecordOf(b, i) ==
  LET s == b.slot[i] IN
  [number |-> s.number,
   start |-> NonNegative(s.start),
   length |-> NonNegative(s.length),
   type |-> IF b.style \in {STYLE_GPT, STYLE_MBR} THEN s.type ELSE None,
   name |-> IF b.style = STYLE_GPT THEN utf16_name(s.name) ELSE NoName]

\* The slots a reader has to report, and the place of each in the report.
Reported(b) == {i \in 0 .. b.count - 1 : Fits(b, i) /\ Used(b, i)}
PlaceOf(b, i) == Cardinality({j \in Reported(b) : j =< i})

\* The report itself.
Records(b) ==
  [k \in 1 .. Cardinality(Reported(b)) |->
     RecordOf(b, CHOOSE i \in Reported(b) : PlaceOf(b, i) = k)]
=============================================================================
