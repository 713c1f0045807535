----------------------------- MODULE DiskListing -----------------------------
(***************************************************************************)
(* `render_listing` (core/src/lib.rs) and the bars it draws                *)
(* (core/src/bar.rs): the overview of the physical disks, then one disk    *)
(* after another with its partitions as slices of a bar.  A slice is its   *)
(* width and the place of its colour in the palette; the text around it is *)
(* left out, but for the sizes in it.  What the bars are computed from is  *)
(* added and multiplied in u128 or saturates, so numbers are unbounded.    *)
(***************************************************************************)
EXTENDS StableSort

CONSTANTS Inputs,   \* the disks that are rendered, and the width asked for
          Palette,  \* the number of colours: 8 in the code
          Units,    \* the number of units of size, from bytes up: 6 in the code
          Kilo      \* how much larger each is than the one before: 1000 in the code

Free == 0           \* the index of a slice that is not allocated
Disk == [size : Nat, synthesized : BOOLEAN, parts : Seq([start : Nat, size : Nat])]

ASSUME InputsAssumption ==
  \A input \in Inputs : input.disks \in Seq(Disk) /\ input.width \in Nat
ASSUME PaletteAssumption == Palette \in Nat \ {0, 1}
ASSUME UnitAssumption == Units \in Nat \ {0} /\ Kilo \in Nat \ {0, 1}

VARIABLES
  disks, width,   \* the arguments
  stage,          \* where render_listing is
  k,              \* the disk that is drawn
  phys_idx,       \* how many physical disks came before it
  i,              \* the loop index in it
  cursor,         \* the end of what its slices cover so far
  segs,           \* its slices: their bytes, and the partition's index or Free
  widths,         \* the columns of each slice
  next, slots     \* the next colour, and the colour of each partition

listing == <<disks, width, k, phys_idx>>
bar == <<i, cursor, segs, widths, next, slots>>
vars == <<listing, stage, bar>>

Larger(a, b) == IF a > b THEN a ELSE b
NoBar == /\ i' = 1 /\ cursor' = 0 /\ segs' = <<>> /\ widths' = <<>>
         /\ next' = 0 /\ slots' = <<>>

\* Sums of the numbers of a sequence.
Total(s) == LET sum[n \in 0 .. Len(s)] == IF n = 0 THEN 0 ELSE sum[n - 1] + s[n]
            IN  sum[Len(s)]

-----------------------------------------------------------------------------
(* human_size *)

\* The bytes of a unit: the value is divided by 1000.0 once more for each.
Power[u \in 0 .. Units - 1] == IF u = 0 THEN 1 ELSE Kilo * Power[u - 1]

\* Mutant of Reaches: `value > 1000.0`.
Exceeds(bytes, u) == bytes > Power[u]
Reaches(bytes, u) == bytes >= Power[u]

UnitOf(bytes) == CHOOSE u \in 0 .. Units - 1 :
                   /\ u = 0 \/ Reaches(bytes, u)
                   /\ \A v \in u + 1 .. Units - 1 : ~Reaches(bytes, v)

\* The number is rounded to tenths, and either way when it is half way between
\* two of them: the binary fraction decides.  The fractions here are exact; the
\* code divides an f64, which holds every size up to 2^53 bytes (9 PB) and rounds
\* larger ones, and the quotients, but never past one another.
human_size(bytes) ==
  LET u == UnitOf(bytes)
      down == (10 * bytes) \div Power[u]
      lost == (10 * bytes) % Power[u]
  IN  IF bytes < Kilo THEN {[tenths |-> 10 * bytes, unit |-> 0]}
      ELSE {[tenths |-> down + up, unit |-> u] :
              up \in (IF 2 * lost =< Power[u] THEN {0} ELSE {}) \cup
                     (IF 2 * lost >= Power[u] THEN {1} ELSE {})}

-----------------------------------------------------------------------------
(* render_overview *)

Physical(ds) == Picked(ds, {n \in DOMAIN ds : ~ds[n].synthesized})

\* Mutant of Shown: one column for any disk.
ShownAlways(size, share) == IF share = 0 THEN 1 ELSE share
Shown(size, share) == IF size > 0 /\ share = 0 THEN 1 ELSE share

\* A disk's columns next to the largest one's.
Fill(size, largest, w) ==
  LET shown == Shown(size, (size * w) \div Larger(largest, 1))
  IN  IF shown > w THEN w ELSE shown

LargestSize(ds) == CHOOSE s \in {ds[n].size : n \in DOMAIN ds} :
                     \A n \in DOMAIN ds : ds[n].size =< s

\* One line per physical disk, none when there are fewer than two.
Overview(ds, w) ==
  LET physical == Physical(ds)
  IN  IF Len(physical) < 2 THEN <<>>
      ELSE [n \in DOMAIN physical |->
              [fill |-> Fill(physical[n].size, LargestSize(physical), w),
               slot |-> (n - 1) % Palette]]

-----------------------------------------------------------------------------
(* The loop over the disks. *)

This == disks[k]
Sorted == SortedBy(This.parts, [n \in DOMAIN This.parts |-> This.parts[n].start])

\* Mutant of Counts: only the disks that get a bar are counted.
CountsDrawn(d) == ~d.synthesized /\ d.parts # <<>>
Counts(d) == ~d.synthesized

\* The end of the loop's body.
NextDisk ==
  /\ stage = "drawn"
  /\ phys_idx' = IF Counts(This) THEN phys_idx + 1 ELSE phys_idx
  /\ k' = k + 1
  /\ stage' = "disk"
  /\ NoBar
  /\ UNCHANGED <<disks, width>>

\* A disk without partitions, or one whose volumes share their space, has no bar.
ListPlain ==
  /\ stage = "disk" /\ k =< Len(disks)
  /\ This.parts = <<>> \/ This.synthesized
  /\ stage' = "drawn"
  /\ UNCHANGED <<listing, bar>>

StartBar ==
  /\ stage = "disk" /\ k =< Len(disks)
  /\ This.parts # <<>> /\ ~This.synthesized
  /\ stage' = "segments"
  /\ UNCHANGED <<listing, bar>>

-----------------------------------------------------------------------------
(* segments *)

Slice(bytes, index) == [bytes |-> bytes, index |-> index]
\* Mutant of Gap: what is left is subtracted without being looked at.
GapUnchecked(bytes) == <<Slice(bytes, Free)>>
Gap(bytes) == IF bytes > 0 THEN <<Slice(bytes, Free)>> ELSE <<>>

\* Mutant of Covered: the cursor is set to the partition's end.
EndOf(p) == p.start + p.size
Covered(p) == Larger(cursor, p.start + p.size)

AddSegment ==
  /\ stage = "segments" /\ i =< Len(This.parts)
  /\ LET p == Sorted[i] IN
     /\ segs' = segs \o Gap(p.start - cursor) \o <<Slice(p.size, i)>>
     /\ cursor' = Covered(p)
  /\ i' = i + 1
  /\ UNCHANGED <<listing, stage, widths, next, slots>>

EndSegments ==
  /\ stage = "segments" /\ i > Len(This.parts)
  /\ segs' = segs \o Gap(This.size - cursor)
  /\ stage' = "widths"
  /\ UNCHANGED <<listing, i, cursor, widths, next, slots>>

-----------------------------------------------------------------------------
(* allocate_widths *)

Weights == [n \in DOMAIN segs |-> segs[n].bytes]
Sum == Total(Weights)

\* Each slice's share rounded down, and what was rounded away.
Share == [n \in DOMAIN segs |-> (Weights[n] * width) \div Sum]
Remainder == [n \in DOMAIN segs |-> (Weights[n] * width) % Sum]

\* The slices with the largest remainders, the first of equal ones first.
Favoured(columns) ==
  LET order == SortedBy([n \in DOMAIN segs |-> n], [n \in DOMAIN segs |-> -Remainder[n]])
  IN  {order[n] : n \in {m \in DOMAIN order : m =< columns}}

\* Nothing to divide: no slice has a column.
NoWidths ==
  /\ stage = "widths" /\ (width = 0 \/ Sum = 0)
  /\ widths' = [n \in DOMAIN segs |-> 0]
  /\ i' = 1 /\ stage' = "slots"
  /\ UNCHANGED <<listing, cursor, segs, next, slots>>

Allocate ==
  /\ stage = "widths" /\ width > 0 /\ Sum > 0
  /\ LET favoured == Favoured(width - Total(Share)) IN
     widths' = [n \in DOMAIN segs |-> Share[n] + IF n \in favoured THEN 1 ELSE 0]
  /\ i' = 1 /\ stage' = "borrow"
  /\ UNCHANGED <<listing, cursor, segs, next, slots>>

\* Mutant of Lenders: a slice keeps two columns.
LendersOfMany == {n \in DOMAIN widths : widths[n] > 2}

\* max_by_key: the last of the widest slices that have a column to spare.
Lenders == {n \in DOMAIN widths : widths[n] > 1}
\* Mutant of Widest: the first slice that can lends the column.
FirstLender == CHOOSE n \in Lenders : \A m \in Lenders : n =< m
Widest == CHOOSE n \in Lenders : \A m \in Lenders :
            widths[m] < widths[n] \/ (widths[m] = widths[n] /\ m =< n)

\* Mutant of Lend: nobody lends the column.
Grant(from, to) == [widths EXCEPT ![to] = @ + 1]
Lend(from, to) == [widths EXCEPT ![from] = @ - 1, ![to] = @ + 1]

\* A slice that has bytes but no column gets one from the widest slice.
Borrow ==
  /\ stage = "borrow" /\ i =< Len(segs)
  /\ widths' = IF Weights[i] > 0 /\ widths[i] = 0 /\ Lenders # {}
                 THEN Lend(Widest, i) ELSE widths
  /\ i' = i + 1
  /\ UNCHANGED <<listing, stage, cursor, segs, next, slots>>

EndBorrow ==
  /\ stage = "borrow" /\ i > Len(segs)
  /\ i' = 1 /\ stage' = "slots"
  /\ UNCHANGED <<listing, cursor, segs, widths, next, slots>>

-----------------------------------------------------------------------------
(* partition_slots *)

accent == phys_idx % Palette

\* max_by_key again: the last of the largest partitions.
Largest == CHOOSE n \in DOMAIN Sorted : \A m \in DOMAIN Sorted :
             Sorted[m].size < Sorted[n].size \/ (Sorted[m].size = Sorted[n].size /\ m =< n)

\* Mutant of AvoidAccent: the accent's turn is not passed over.
AvoidNothing(c) == c
AvoidAccent(c) == IF c % Palette = accent THEN c + 1 ELSE c

\* The largest partition has the accent, the others take the rest in turn.
PickSlot ==
  /\ stage = "slots" /\ i =< Len(This.parts)
  /\ IF i = Largest
       THEN slots' = Append(slots, accent) /\ UNCHANGED next
       ELSE /\ slots' = Append(slots, AvoidAccent(next) % Palette)
            /\ next' = AvoidAccent(next) + 1
  /\ i' = i + 1
  /\ UNCHANGED <<listing, stage, cursor, segs, widths>>

EndBar ==
  /\ stage = "slots" /\ i > Len(This.parts)
  /\ stage' = "drawn"
  /\ UNCHANGED <<listing, bar>>

Next == \/ ListPlain \/ StartBar \/ NextDisk
        \/ AddSegment \/ EndSegments
        \/ NoWidths \/ Allocate \/ Borrow \/ EndBorrow
        \/ PickSlot \/ EndBar

Init ==
  /\ \E input \in Inputs : disks = input.disks /\ width = input.width
  /\ stage = "disk" /\ k = 1 /\ phys_idx = 0
  /\ i = 1 /\ cursor = 0 /\ segs = <<>> /\ widths = <<>> /\ next = 0 /\ slots = <<>>

Spec == Init /\ [][Next]_vars
=============================================================================
