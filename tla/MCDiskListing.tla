---------------------------- MODULE MCDiskListing ----------------------------
(***************************************************************************)
(* The inputs of the listing: one disk with any partitions at all within a *)
(* few bytes, disks whose slices round to nothing, and lists of disks.     *)
(***************************************************************************)
EXTENDS DiskListingProps, SequencesExt

Part(start, size) == [start |-> start, size |-> size]
DiskOf(size, synthesized, parts) ==
  [size |-> size, synthesized |-> synthesized, parts |-> parts]

\* Every disk of up to 5 bytes with up to three partitions, which may overlap,
\* nest, be empty or end beyond the disk.
AnyPart == {Part(start, size) : start \in 0 .. 4, size \in 0 .. 3}
OneDisk == {<<DiskOf(size, FALSE, parts)>> :
              size \in {3, 5}, parts \in BoundedSeq(AnyPart, 3) \ {<<>>}}
OneDiskWidths == {0, 4}

\* Slices so light that several of them need a column lent.
Tiny == {<<DiskOf(40, FALSE, <<Part(a, b), Part(a + b, c), Part(a + b + c, d), Part(36, e)>>)>> :
           a \in {0, 1}, b \in {1, 17, 18}, c \in {1, 2}, d \in {1, 14}, e \in 1 .. 4}
TinyWidths == 0 .. 7

\* Lists of up to four disks: with no partition, few or more than there are
\* colours; synthesized or not.
SomeParts == {<<>>, <<Part(0, 2), Part(2, 2)>>, <<Part(0, 1), Part(1, 2), Part(3, 1), Part(4, 1)>>}
SomeDisk == {DiskOf(size, synthesized, parts) :
               size \in {0, 1, 9}, synthesized \in BOOLEAN, parts \in SomeParts}
ManyDisks == BoundedSeq(SomeDisk, 3) \cup
             {<<a, b, c, d>> : a \in {DiskOf(9, FALSE, <<>>)}, b, c, d \in SomeDisk}
ManyWidths == {0, 6}

\* Sizes at and around the boundaries of the units, and of their tenths, and
\* beyond the last unit.
Sizes == {0, 9, 10, 11, 99, 100, 101, 104, 105, 106, 994, 995, 996, 999, 1000, 9999, 12345}
SizedDisks == {<<DiskOf(a, TRUE, <<Part(0, b)>>), DiskOf(b, FALSE, <<>>)>> : a, b \in Sizes}

MCInputs == [disks : OneDisk, width : OneDiskWidths] \cup [disks : Tiny, width : TinyWidths]
            \cup [disks : ManyDisks, width : ManyWidths] \cup [disks : SizedDisks, width : {0}]
=============================================================================
