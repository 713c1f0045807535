----------------------------- MODULE DriveLayout -----------------------------
(***************************************************************************)
(* `parse_drive_layout` (core/src/drive_layout.rs:49-95), step by step: a  *)
(* loop whose bound is a number the buffer claims, over slots whose place  *)
(* is computed in machine words.  A word has Word values; arithmetic wraps *)
(* as in a release build, and the properties say that it never does.       *)
(***************************************************************************)
EXTENDS LayoutBuffer

CONSTANTS Buffers,    \* the buffers the parser is given
          Word        \* 2^32 or 2^64: the values of a usize

\* A slice is at most isize::MAX bytes long.
ASSUME WordAssumption == Word \in Nat /\ Word >= 1024
ASSUME BufferAssumption ==
  \A b \in Buffers : IsBuffer(b) /\ 2 * b.len < Word

VARIABLES buf,          \* the argument
          pc,           \* "idle", "loop" or "done"
          i,            \* the slot the loop is at
          window,       \* the last slice that was taken of the buffer
          style, parts  \* the result

vars == <<buf, pc, i, window, style, parts>>

Wrap(x) == x % Word
NoWindow == [from |-> 0, to |-> 0]

Init == /\ buf \in Buffers
        /\ pc = "idle"
        /\ i = 0
        /\ window = NoWindow
        /\ style = NO_STYLE
        /\ parts = <<>>

\* A buffer too short for its header has no layout.
TooShort == /\ pc = "idle"
            /\ buf.len < 8
            /\ pc' = "done"
            /\ UNCHANGED <<buf, i, window, style, parts>>

ReadHeader == /\ pc = "idle"
              /\ buf.len >= 8
              /\ style' = buf.style
              /\ pc' = "loop"
              /\ UNCHANGED <<buf, i, window, parts>>

SlotFrom == Wrap(PARTITION_ENTRY_OFFSET + Wrap(i * ENTRY_SIZE))
SlotTo == Wrap(SlotFrom + ENTRY_SIZE)

\* Mutant of InBuffer: only the start of the slot is looked at.
StartInBuffer == SlotFrom =< buf.len

\* Mutant of InBuffer: the claimed count is believed.
Unchecked == TRUE

InBuffer == SlotTo =< buf.len

\* The count is reached, or the next slot is not all in the buffer.
LeaveLoop == /\ pc = "loop"
             /\ i >= buf.count \/ ~InBuffer
             /\ pc' = "done"
             /\ UNCHANGED <<buf, i, window, style, parts>>

\* The next slot is sliced out of the buffer.
TakeSlot == /\ pc = "loop"
            /\ i < buf.count
            /\ InBuffer
            /\ window' = [from |-> SlotFrom, to |-> SlotTo]

\* Mutant of SkipSlot: `continue` in a loop that counts by hand.
SkipForever == TakeSlot /\ ~Used(buf, i) /\ UNCHANGED <<buf, pc, i, style, parts>>

\* An empty entry, or an unused one of an MBR, is passed over.
SkipSlot == /\ TakeSlot
            /\ ~Used(buf, i)
            /\ i' = i + 1
            /\ UNCHANGED <<buf, pc, style, parts>>

\* Mutant of PushSlot: a negative length is taken as it is.
PushSigned == /\ TakeSlot
              /\ buf.slot[i].length # 0
              /\ ~(buf.style = STYLE_MBR /\ buf.slot[i].type = 0)
              /\ parts' = Append(parts, RecordOf(buf, i))
              /\ i' = i + 1
              /\ UNCHANGED <<buf, pc, style>>

PushSlot == /\ TakeSlot
            /\ Used(buf, i)
            /\ parts' = Append(parts, RecordOf(buf, i))
            /\ i' = i + 1
            /\ UNCHANGED <<buf, pc, style>>

Next == TooShort \/ ReadHeader \/ SkipSlot \/ PushSlot \/ LeaveLoop

Spec == Init /\ [][Next]_vars
FairSpec == Spec /\ WF_vars(Next)

-----------------------------------------------------------------------------
TypeOK ==
  /\ IsBuffer(buf) /\ 2 * buf.len < Word
  /\ pc \in {"idle", "loop", "done"}
  /\ i \in Nat
  /\ window \in [from : Nat, to : Nat]
  /\ style \in Nat \cup {NO_STYLE}
  /\ parts \in Seq(Record)

\* Every slice lies in the buffer, whatever count it claims: `&buf[e..e + 144]`
\* cannot panic (drive_layout.rs:60-64).
SlicesInBuffer == window.from =< window.to /\ window.to =< buf.len

\* No product or sum of the loop overflows a usize: with overflow checks it
\* does not panic, without them it does not wrap round to bytes at the start
\* (drive_layout.rs:60-61).
NoOverflow ==
  pc = "loop" => PARTITION_ENTRY_OFFSET + i * ENTRY_SIZE + ENTRY_SIZE < Word

\* The work and the memory are bounded by the buffer's length, not by the count
\* it claims (drive_layout.rs:57-63; fuzz_drive_layout.rs:2-3 "must never
\* panic, overflow, or over-allocate").
BoundedByBuffer == Len(parts) =< i /\ i * ENTRY_SIZE =< buf.len

\* The result is exactly the used slots that are in the buffer, each once and
\* in table order (drive_layout.rs:65-92).
ParsesReported ==
  pc = "done" =>
    IF buf.len < 8 THEN style = NO_STYLE /\ parts = <<>>
    ELSE /\ style = buf.style
         /\ Len(parts) = Cardinality(Reported(buf))
         /\ \A j \in Reported(buf) : parts[PlaceOf(buf, j)] = RecordOf(buf, j)

\* The parser answers for every buffer.
Answers == pc = "loop" ~> pc = "done"
=============================================================================
