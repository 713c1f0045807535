-------------------------- MODULE DriveLayoutProofs --------------------------
(***************************************************************************)
(* The parser's safety for every buffer, every count and every word size.  *)
(* The invariant is that the loop never goes past a slot that is not all   *)
(* in the buffer: then its arithmetic stays far below a word, wrapping     *)
(* never happens, and what was parsed so far is what had to be reported of *)
(* the slots so far.                                                       *)
(***************************************************************************)
EXTENDS DriveLayout, LayoutBufferProofs

\* The slots the loop has reached start in the buffer.
Reached == i = 0 \/ PARTITION_ENTRY_OFFSET + i * ENTRY_SIZE =< buf.len

\* The slots before the loop index that have to be reported.
Passed(n) == {j \in Reported(buf) : j < n}

Parsed == /\ Len(parts) = Cardinality(Passed(i))
          /\ \A j \in Passed(i) : /\ PlaceOf(buf, j) \in 1 .. Len(parts)
                                  /\ parts[PlaceOf(buf, j)] = RecordOf(buf, j)

\* Nothing was done before the loop, and a buffer without a header has none.
Staged == /\ pc = "idle" => i = 0 /\ parts = <<>> /\ style = NO_STYLE
          /\ pc = "loop" => buf.len >= 8 /\ style = buf.style
          /\ pc = "done" =>
               IF buf.len < 8 THEN style = NO_STYLE /\ parts = <<>>
               ELSE style = buf.style /\ Reported(buf) = Passed(i)

LayoutInv == TypeOK /\ SlicesInBuffer /\ Reached /\ BoundedByBuffer /\ Staged /\ Parsed

-----------------------------------------------------------------------------
\* A number below the word is not changed by wrapping.
LEMMA WrapSmall ==
  ASSUME NEW w \in Nat, NEW x \in Nat, x < w
  PROVE  x % w = x
  BY SMT

\* In a buffer the loop has reached, a slot's place is computed as it would be
\* with unbounded numbers (drive_layout.rs:60-61).
LEMMA SlotPlace ==
  ASSUME TypeOK, Reached
  PROVE  /\ PARTITION_ENTRY_OFFSET + i * ENTRY_SIZE + ENTRY_SIZE < Word
         /\ SlotFrom = PARTITION_ENTRY_OFFSET + i * ENTRY_SIZE
         /\ SlotTo = PARTITION_ENTRY_OFFSET + i * ENTRY_SIZE + ENTRY_SIZE
         /\ SlotTo = PARTITION_ENTRY_OFFSET + (i + 1) * ENTRY_SIZE
<1>1. /\ i \in Nat /\ buf.len \in Nat /\ 2 * buf.len < Word /\ Word \in Nat /\ Word >= 1024
      BY WordAssumption DEF TypeOK, IsBuffer
<1>2. 48 + i * 144 + 144 < Word
      BY <1>1 DEF Reached, PARTITION_ENTRY_OFFSET, ENTRY_SIZE
<1>3. i * 144 \in Nat /\ i * 144 < Word
      BY <1>1, <1>2
<1>4. (i * 144) % Word = i * 144
      BY <1>1, <1>3, WrapSmall
<1>5. (48 + i * 144) % Word = 48 + i * 144
  <2>1. 48 + i * 144 \in Nat /\ 48 + i * 144 < Word
        BY <1>1, <1>2, <1>3
  <2> QED BY <1>1, <2>1, WrapSmall
<1>6. (48 + i * 144 + 144) % Word = 48 + i * 144 + 144
      BY <1>1, <1>2, <1>3, WrapSmall
<1>7. SlotFrom = 48 + i * 144
      BY <1>4, <1>5 DEF SlotFrom, Wrap, PARTITION_ENTRY_OFFSET, ENTRY_SIZE
<1>8. SlotTo = 48 + i * 144 + 144
      BY <1>6, <1>7 DEF SlotTo, Wrap, ENTRY_SIZE
<1> QED BY <1>1, <1>2, <1>7, <1>8 DEF PARTITION_ENTRY_OFFSET, ENTRY_SIZE

\* The reported slots, and the ones passed, are finitely many.
LEMMA ReportedFinite ==
  ASSUME TypeOK
  PROVE  /\ IsFiniteSet(Reported(buf))
         /\ \A n \in Nat : IsFiniteSet(Passed(n)) /\ Cardinality(Passed(n)) \in Nat
<1>1. buf.count \in Nat
      BY DEF TypeOK, IsBuffer
<1>2. IsFiniteSet(0 .. buf.count - 1)
      BY <1>1, FS_Interval
<1>3. Reported(buf) \subseteq 0 .. buf.count - 1
      BY DEF Reported
<1>4. IsFiniteSet(Reported(buf))
      BY <1>2, <1>3, FS_Subset
<1>5. \A n \in Nat : Passed(n) \subseteq Reported(buf)
      BY DEF Passed
<1> QED BY <1>4, <1>5, FS_Subset, FS_CardinalityType
\* What is reported is one more slot when the loop passes a used one, and its
\* place in the report is the next one (drive_layout.rs:59-92).
LEMMA PassUsed ==
  ASSUME LayoutInv, i \in Reported(buf)
  PROVE  /\ Passed(i + 1) = Passed(i) \cup {i}
         /\ Cardinality(Passed(i + 1)) = Cardinality(Passed(i)) + 1
         /\ PlaceOf(buf, i) = Cardinality(Passed(i)) + 1
<1>1. i \in Nat /\ buf.count \in Nat
      BY DEF LayoutInv, TypeOK, IsBuffer
<1>2. Passed(i + 1) = Passed(i) \cup {i}
      BY <1>1 DEF Passed, Reported
<1>3. i \notin Passed(i)
      BY <1>1 DEF Passed
<1>4. IsFiniteSet(Passed(i)) /\ Cardinality(Passed(i)) \in Nat
      BY <1>1, ReportedFinite DEF LayoutInv
<1>5. Cardinality(Passed(i + 1)) = Cardinality(Passed(i)) + 1
      BY <1>2, <1>3, <1>4, FS_AddElement
<1>6. {j \in Reported(buf) : j =< i} = Passed(i + 1)
      BY <1>1 DEF Passed, Reported
<1> QED BY <1>2, <1>5, <1>6 DEF PlaceOf

\* A slot that is not reported does not count.
LEMMA PassUnused ==
  ASSUME TypeOK, i \notin Reported(buf)
  PROVE  Passed(i + 1) = Passed(i)
<1>1. i \in Nat /\ buf.count \in Nat
      BY DEF TypeOK, IsBuffer
<1> QED BY <1>1 DEF Passed, Reported

\* Where the loop stops, no slot that has to be reported is left
\* (drive_layout.rs:59-63).
LEMMA NothingLeft ==
  ASSUME LayoutInv, i >= buf.count \/ ~InBuffer
  PROVE  Reported(buf) = Passed(i)
<1>1. /\ i \in Nat /\ buf.count \in Nat /\ buf.len \in Nat
      BY DEF LayoutInv, TypeOK, IsBuffer
<1>2. SUFFICES ASSUME NEW j \in Reported(buf)
               PROVE  j < i
      BY DEF Passed
<1>3. /\ j \in 0 .. buf.count - 1
      /\ 48 + (j + 1) * 144 =< buf.len
      BY DEF Reported, Fits, PARTITION_ENTRY_OFFSET, ENTRY_SIZE
<1>4. CASE i >= buf.count
      BY <1>1, <1>3, <1>4
<1>5. CASE ~InBuffer
  <2>1. SlotTo = 48 + (i + 1) * 144
        BY SlotPlace DEF LayoutInv, PARTITION_ENTRY_OFFSET, ENTRY_SIZE
  <2>2. 48 + (i + 1) * 144 > buf.len
        BY <1>1, <1>5, <2>1 DEF InBuffer
  <2> QED BY <1>1, <1>3, <2>2
<1> QED BY <1>4, <1>5

\* The parser starts in the invariant.
LEMMA LayoutInit == Init => LayoutInv
<1> SUFFICES ASSUME Init
             PROVE  LayoutInv
  OBVIOUS
<1>1. IsBuffer(buf) /\ 2 * buf.len < Word
      BY BufferAssumption DEF Init
<1>2. TypeOK
  <2>1. window \in [from : Nat, to : Nat]
        BY DEF Init, NoWindow
  <2>2. parts \in Seq(Record)
        BY DEF Init
  <2> QED BY <1>1, <2>1, <2>2 DEF Init, TypeOK
<1>3. buf.len \in Nat /\ buf.count \in Nat
      BY <1>1 DEF IsBuffer
<1>4. SlicesInBuffer
      BY <1>3 DEF Init, NoWindow, SlicesInBuffer
<1>5. Reached /\ BoundedByBuffer
      BY <1>3 DEF Init, Reached, BoundedByBuffer, ENTRY_SIZE
<1>6. Passed(0) = {}
      BY <1>3 DEF Passed, Reported
<1>7. Parsed
      BY <1>6, FS_EmptySet DEF Init, Parsed
<1>8. Staged
      BY DEF Init, Staged
<1> QED BY <1>2, <1>4, <1>5, <1>7, <1>8 DEF LayoutInv

\* What taking a slot does to the window and the bound.
LEMMA SlotTaken ==
  ASSUME LayoutInv, TakeSlot, i' = i + 1, UNCHANGED buf, Len(parts') =< Len(parts) + 1,
         Len(parts') \in Nat
  PROVE  /\ Fits(buf, i)
         /\ buf.slot[i] \in Entry
         /\ i' \in Nat
         /\ window' \in [from : Nat, to : Nat]
         /\ SlicesInBuffer' /\ Reached' /\ BoundedByBuffer'
<1>1. /\ i \in Nat /\ buf.len \in Nat /\ IsBuffer(buf)
      /\ TypeOK /\ Reached /\ Len(parts) =< i /\ parts \in Seq(Record)
      BY DEF LayoutInv, TypeOK, IsBuffer, BoundedByBuffer
<1>2. /\ SlotFrom = 48 + i * 144
      /\ SlotTo = 48 + (i + 1) * 144
      BY <1>1, SlotPlace DEF PARTITION_ENTRY_OFFSET, ENTRY_SIZE
<1>3. 48 + (i + 1) * 144 =< buf.len
      BY <1>2 DEF TakeSlot, InBuffer
<1>4. Fits(buf, i)
      BY <1>3 DEF Fits, PARTITION_ENTRY_OFFSET, ENTRY_SIZE
<1>5. i \in 0 .. buf.len
      BY <1>1, <1>3
<1>6. buf.slot[i] \in Entry
      BY <1>1, <1>4, <1>5 DEF IsBuffer
<1>7. window' = [from |-> 48 + i * 144, to |-> 48 + (i + 1) * 144]
      BY <1>2 DEF TakeSlot
<1>8. window' \in [from : Nat, to : Nat]
      BY <1>1, <1>7
<1>9. SlicesInBuffer'
      BY <1>1, <1>3, <1>7 DEF SlicesInBuffer
<1>10. Reached'
      BY <1>1, <1>3 DEF Reached, PARTITION_ENTRY_OFFSET, ENTRY_SIZE
<1>11. Len(parts) \in Nat
      BY <1>1
<1>12. BoundedByBuffer'
      BY <1>1, <1>3, <1>11 DEF BoundedByBuffer, ENTRY_SIZE
<1> QED BY <1>1, <1>4, <1>6, <1>8, <1>9, <1>10, <1>12

\* A slot that is skipped leaves the result as it is.
LEMMA SkipKeeps == LayoutInv /\ SkipSlot => LayoutInv'
<1> SUFFICES ASSUME LayoutInv, SkipSlot
             PROVE  LayoutInv'
  OBVIOUS
<1> USE DEF SkipSlot
<1>0. /\ Len(parts') =< Len(parts) + 1 /\ Len(parts') \in Nat
      /\ i \in Nat /\ TypeOK /\ Staged /\ Parsed /\ pc = "loop"
      BY DEF LayoutInv, TypeOK, TakeSlot
<1>1. /\ Fits(buf, i) /\ i' \in Nat /\ window' \in [from : Nat, to : Nat]
      /\ SlicesInBuffer' /\ Reached' /\ BoundedByBuffer'
      BY <1>0, SlotTaken
<1>2. TypeOK'
      BY <1>0, <1>1 DEF TypeOK
<1>3. Staged'
      BY <1>0 DEF Staged
<1>4. i \notin Reported(buf)
      BY DEF Reported
<1>5. Passed(i + 1) = Passed(i)
      BY <1>0, <1>4, PassUnused
<1>6. Passed(i)' = Passed(i + 1)
      BY DEF Passed, Reported
<1>7. Parsed'
      BY <1>0, <1>5, <1>6 DEF Parsed
<1> QED BY <1>1, <1>2, <1>3, <1>7 DEF LayoutInv

\* A used slot is added at its place.
LEMMA PushKeeps == LayoutInv /\ PushSlot => LayoutInv'
<1> SUFFICES ASSUME LayoutInv, PushSlot
             PROVE  LayoutInv'
  OBVIOUS
<1> USE DEF PushSlot
<1>0. /\ i \in Nat /\ TypeOK /\ Staged /\ Parsed /\ pc = "loop" /\ i < buf.count
      /\ parts \in Seq(Record) /\ buf.count \in Nat
      BY DEF LayoutInv, TypeOK, IsBuffer, TakeSlot
<1>1. Len(parts') = Len(parts) + 1 /\ Len(parts) \in Nat
      BY <1>0
<1>2. /\ Fits(buf, i) /\ buf.slot[i] \in Entry /\ i' \in Nat
      /\ window' \in [from : Nat, to : Nat]
      /\ SlicesInBuffer' /\ Reached' /\ BoundedByBuffer'
      BY <1>1, SlotTaken
<1>3. TypeOK'
  <2>1. parts' \in Seq(Record)
        BY <1>0, <1>2, RecordType
  <2> QED BY <1>0, <1>2, <2>1 DEF TypeOK
<1>4. Staged'
      BY <1>0 DEF Staged
<1>5. i \in Reported(buf)
      BY <1>0, <1>2 DEF Reported
<1>6. /\ Passed(i + 1) = Passed(i) \cup {i}
      /\ Cardinality(Passed(i + 1)) = Cardinality(Passed(i)) + 1
      /\ PlaceOf(buf, i) = Cardinality(Passed(i)) + 1
      BY <1>5, PassUsed
<1>7. Passed(i)' = Passed(i + 1)
      BY DEF Passed, Reported
<1>8. Len(parts) = Cardinality(Passed(i))
      BY <1>0 DEF Parsed
<1>9. Parsed'
  <2>1. Len(parts') = Cardinality(Passed(i)')
        BY <1>1, <1>6, <1>7, <1>8
  <2>2. ASSUME NEW j \in Passed(i)'
        PROVE  /\ PlaceOf(buf, j) \in 1 .. Len(parts')
               /\ parts'[PlaceOf(buf, j)] = RecordOf(buf, j)
    <3>1. CASE j = i
          BY <1>0, <1>1, <1>6, <1>8, <3>1
    <3>2. CASE j \in Passed(i)
      <4>1. PlaceOf(buf, j) \in 1 .. Len(parts) /\ parts[PlaceOf(buf, j)] = RecordOf(buf, j)
            BY <1>0, <3>2 DEF Parsed
      <4> QED BY <1>0, <1>1, <4>1
    <3> QED BY <1>6, <1>7, <3>1, <3>2
  <2>3. buf' = buf
        OBVIOUS
  <2> QED BY <2>1, <2>2, <2>3 DEF Parsed
<1> QED BY <1>2, <1>3, <1>4, <1>9 DEF LayoutInv

\* The end of the loop, where everything is passed.
LEMMA LeaveKeeps == LayoutInv /\ LeaveLoop => LayoutInv'
<1> SUFFICES ASSUME LayoutInv, LeaveLoop
             PROVE  LayoutInv'
  OBVIOUS
<1> USE DEF LeaveLoop
<1>1. Reported(buf) = Passed(i)
      BY NothingLeft
<1>2. TypeOK' /\ SlicesInBuffer' /\ Reached' /\ BoundedByBuffer'
      BY DEF LayoutInv, TypeOK, SlicesInBuffer, Reached, BoundedByBuffer
<1>3. Passed(i)' = Passed(i) /\ Reported(buf)' = Reported(buf)
      BY DEF Passed
<1>4. Parsed'
      BY <1>3 DEF LayoutInv, Parsed
<1>5. Staged'
  <2>1. buf.len \in Nat /\ buf.len >= 8 /\ style = buf.style
        BY DEF LayoutInv, TypeOK, IsBuffer, Staged
  <2> QED BY <1>1, <1>3, <2>1 DEF Staged
<1> QED BY <1>2, <1>4, <1>5 DEF LayoutInv

\* The header, and a buffer that has none.
LEMMA HeaderKeeps == LayoutInv /\ (TooShort \/ ReadHeader) => LayoutInv'
<1> SUFFICES ASSUME LayoutInv, TooShort \/ ReadHeader
             PROVE  LayoutInv'
  OBVIOUS
<1>1. UNCHANGED <<buf, i, window, parts>>
      BY DEF TooShort, ReadHeader
<1>2. IsBuffer(buf) /\ buf.style \in Nat /\ buf.len \in Nat
      BY DEF LayoutInv, TypeOK, IsBuffer
<1>3. TypeOK'
      BY <1>1, <1>2 DEF LayoutInv, TypeOK, TooShort, ReadHeader
<1>4. SlicesInBuffer' /\ Reached' /\ BoundedByBuffer'
      BY <1>1 DEF LayoutInv, SlicesInBuffer, Reached, BoundedByBuffer
<1>5. Parsed'
  <2>1. Passed(i)' = Passed(i)
        BY <1>1 DEF Passed
  <2> QED BY <1>1, <2>1 DEF LayoutInv, Parsed
<1>6. Staged'
      BY <1>1, <1>2 DEF LayoutInv, Staged, TooShort, ReadHeader
<1> QED BY <1>3, <1>4, <1>5, <1>6 DEF LayoutInv

-----------------------------------------------------------------------------
\* The invariant holds in every state of the parser.
THEOREM LayoutAlways == Spec => []LayoutInv
<1>1. LayoutInv /\ [Next]_vars => LayoutInv'
  <2> SUFFICES ASSUME LayoutInv, [Next]_vars
               PROVE  LayoutInv'
    OBVIOUS
  <2>1. CASE TooShort \/ ReadHeader
        BY <2>1, HeaderKeeps
  <2>2. CASE SkipSlot
        BY <2>2, SkipKeeps
  <2>3. CASE PushSlot
        BY <2>3, PushKeeps
  <2>4. CASE LeaveLoop
        BY <2>4, LeaveKeeps
  <2>5. CASE UNCHANGED vars
        BY <2>5 DEF vars, LayoutInv, TypeOK, SlicesInBuffer, Reached, BoundedByBuffer,
                    Staged, Parsed, Passed
  <2> QED BY <2>1, <2>2, <2>3, <2>4, <2>5 DEF Next
<1> QED BY LayoutInit, <1>1, PTL DEF Spec

\* The parser's state keeps its type, and what it returns is a list of records
\* (drive_layout.rs:44-95).
THEOREM ParserTypes == Spec => []TypeOK
<1>1. LayoutInv => TypeOK
      BY DEF LayoutInv
<1> QED BY <1>1, LayoutAlways, PTL

\* Every slice the parser takes lies in the buffer, whatever the buffer claims
\* (drive_layout.rs:60-64).
THEOREM ParserStaysInBuffer == Spec => []SlicesInBuffer
<1>1. LayoutInv => SlicesInBuffer
      BY DEF LayoutInv
<1> QED BY <1>1, LayoutAlways, PTL

\* The loop's arithmetic never overflows a word of any width that can hold the
\* buffer (drive_layout.rs:60-61).
THEOREM ParserNeverOverflows == Spec => []NoOverflow
<1>1. LayoutInv => NoOverflow
      BY SlotPlace DEF LayoutInv, NoOverflow
<1> QED BY <1>1, LayoutAlways, PTL

\* Work and memory are bounded by the buffer's length (drive_layout.rs:57-63).
THEOREM ParserIsBounded == Spec => []BoundedByBuffer
<1>1. LayoutInv => BoundedByBuffer
      BY DEF LayoutInv
<1> QED BY <1>1, LayoutAlways, PTL

\* The result is exactly the used slots in the buffer, each once, in table
\* order (drive_layout.rs:65-92).
THEOREM ParserReportsAll == Spec => []ParsesReported
<1>1. LayoutInv => ParsesReported
      BY DEF LayoutInv, ParsesReported, Staged, Parsed
<1> QED BY <1>1, LayoutAlways, PTL
=============================================================================
