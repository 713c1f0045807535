--------------------------- MODULE DiskListingProps ---------------------------
(***************************************************************************)
(* What the listing must show of any disks, also of those whose partition  *)
(* tables overlap, overrun the disk or hold empty partitions.              *)
(***************************************************************************)
EXTENDS DiskListing

\* The type invariant of the listing.
TypeOK ==
  /\ disks \in Seq(Disk) /\ width \in Nat
  /\ stage \in {"disk", "segments", "widths", "borrow", "slots", "drawn"}
  /\ k \in 1 .. Len(disks) + 1
  /\ phys_idx \in 0 .. Len(disks)
  /\ i \in Nat \ {0} /\ cursor \in Nat
  /\ segs \in Seq([bytes : Nat, index : Nat])
  /\ widths \in Seq(Nat)
  /\ next \in Nat
  /\ slots \in Seq(0 .. Palette - 1)

-----------------------------------------------------------------------------
HasBar == This.parts # <<>> /\ ~This.synthesized
Drawn == stage = "drawn" /\ HasBar
Parts == {This.parts[n] : n \in DOMAIN This.parts}
Bytes(p) == p.start .. p.start + p.size - 1
FreeBytes == Total([n \in DOMAIN segs |-> IF segs[n].index = Free THEN segs[n].bytes ELSE 0])
BarEnd == LET ends == {This.size} \cup {p.start + p.size : p \in Parts}
          IN  CHOOSE e \in ends : \A x \in ends : x =< e
Overlap == \E m, n \in DOMAIN This.parts :
             m # n /\ Bytes(This.parts[m]) \cap Bytes(This.parts[n]) # {}

\* A bar goes from 0 to the end of the disk or, when a partition ends beyond
\* the disk, to where the last of them ends.  What is drawn as free is as large
\* as the bytes between that no partition covers, also where partitions
\* overlap or nest, as an MBR's extended and logical ones do: all of them are
\* the disk's as long as every partition lies within it, and otherwise those
\* before an overrunning partition that the disk does not have are drawn as
\* free with the others.  As long as no partitions overlap the slices tile the
\* bar: each partition's slice begins at the partition's offset (bar.rs:59-92).
GapsAreFree ==
  Drawn =>
    /\ FreeBytes = Cardinality({b \in 0 .. BarEnd - 1 : \A p \in Parts : b \notin Bytes(p)})
    /\ ~Overlap =>
         \A n \in DOMAIN segs :
           segs[n].index # Free /\ segs[n].bytes > 0 =>
             Sorted[segs[n].index].start = Total(SubSeq([m \in DOMAIN segs |-> segs[m].bytes], 1, n - 1))

\* A bar is exactly as wide as asked for, unless nothing in it has any bytes
\* (bar.rs:94-97, 112-126).
BarFilled ==
  Drawn => Total(widths) = IF Sum = 0 THEN 0 ELSE width

\* Every slice with bytes is seen when there are columns enough, and one
\* without bytes is not (bar.rs:96-97, 128-137).
EverySliceSeen ==
  Drawn =>
    /\ \A n \in DOMAIN segs : Weights[n] = 0 => widths[n] = 0
    /\ width >= Cardinality({n \in DOMAIN segs : Weights[n] > 0}) =>
         \A n \in DOMAIN segs : Weights[n] > 0 => widths[n] > 0

\* The columns lent to slices that would not be seen are never taken from a
\* slice in such a way that it is drawn more than one column narrower than a
\* lighter one (bar.rs:128-137).
LendingFair ==
  Drawn => \A m, n \in DOMAIN segs : Weights[m] >= Weights[n] => widths[m] + 1 >= widths[n]

\* The largest partition has the colour its disk has in the overview, whatever
\* disks came before, and no other partition of the disk has it (lib.rs:297-329,
\* bar.rs:140-143, 200-202).
AccentIsOverviews ==
  Drawn =>
    LET before == Len(Physical(SubSeq(disks, 1, k)))
        lines == Overview(disks, width)
    IN  /\ lines # <<>> => slots[Largest] = lines[before].slot
        /\ \A n \in DOMAIN slots : n # Largest => slots[n] # slots[Largest]

\* Two partitions share a colour only when there are more of them than colours
\* (bar.rs:200-202, 213-221).
ColoursSpent ==
  Drawn /\ Len(slots) =< Palette =>
    \A m, n \in DOMAIN slots : slots[m] = slots[n] => m = n

\* In the overview the largest disk fills its row, a disk with bytes is seen,
\* and no disk's bar is longer than a larger one's (bar.rs:227-233, 262-266).
OverviewFair ==
  LET lines == Overview(disks, width)
      physical == Physical(disks)
  IN  \A n \in DOMAIN lines :
        /\ lines[n].fill =< width
        /\ width > 0 => (lines[n].fill > 0 <=> physical[n].size > 0)
        /\ \A m \in DOMAIN lines :
             physical[m].size =< physical[n].size => lines[m].fill =< lines[n].fill
        /\ (physical[n].size > 0 /\ \A m \in DOMAIN lines : physical[m].size =< physical[n].size) =>
             lines[n].fill = width

\* The sizes in a listing compare as the disks and partitions do: a larger one
\* never reads as less; and a number is cut down to its largest unit, so that
\* only rounding, or running out of units, makes it reach the next one
\* (lib.rs:197-213, at the boundaries of its loop).
SizesLegible ==
  stage = "drawn" =>
    LET sizes == {disks[n].size : n \in DOMAIN disks} \cup {p.size : p \in Parts}
        Value(text) == text.tenths * Power[text.unit]
    IN  \A a \in sizes : \A s \in human_size(a) :
          /\ s.unit > 0 => s.tenths >= 10
          /\ s.unit < Units - 1 => s.tenths < 10 * Kilo \/ Value(s) > 10 * a
          /\ \A b \in sizes : \A t \in human_size(b) : a < b => Value(s) =< Value(t)
=============================================================================
