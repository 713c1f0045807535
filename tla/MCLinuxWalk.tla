----------------------------- MODULE MCLinuxWalk -----------------------------
(***************************************************************************)
(* Small instances of the Linux backend.  Names are in byte order:         *)
(* 1 = dm-0, 2 = ram0, 3 = sda.  The bay of sda takes two media, so that   *)
(* one can replace the other during a call.                                *)
(***************************************************************************)
EXTENDS LinuxWalkProps, TLC

CONSTANTS ThumbDrive, \* sda: removable, 512-byte sectors, its table can change
          FixedDrive, \* sda: write-protected, 4096-byte sectors, one partition
          Lvm,        \* dm-0
          Ram         \* ram0

MCNames == 1 .. 3
MCVirtual == {2}
MCMapped == {1}
MCMedia == {ThumbDrive, FixedDrive, Lvm, Ram}
MCBay == (1 :> {Lvm}) @@ (2 :> {Ram}) @@ (3 :> {ThumbDrive, FixedDrive})

\* One disk that stays, for the instances about mounts.
OneName == {3}
OneBay == 3 :> {ThumbDrive}
OneMedium == {ThumbDrive}

Files(size, removable, ro, logical, physical, model) ==
  [size |-> size, removable |-> removable, ro |-> ro, logical |-> logical,
   physical |-> physical, model |-> model]
MCGeometry ==
  (ThumbDrive :> Files(20, 1, 0, 512, 0, Blank)) @@
  (FixedDrive :> Files(90, 0, 1, 512, 4096, 7)) @@
  (Lvm :> Files(9, 0, 0, NoFile, 65536, NoFile)) @@
  (Ram :> Files(4, 0, 0, 512, 512, NoFile))

Part(start, size) == [start |-> start, size |-> size]
MCLayouts ==
  (ThumbDrive :> {1 :> Part(1, 19), (1 :> Part(8, 4)) @@ (2 :> Part(2, 5))}) @@
  (FixedDrive :> {2 :> Part(1, 80)}) @@
  (Lvm :> {<<>>}) @@ (Ram :> {<<>>})
OneGeometry == ThumbDrive :> MCGeometry[ThumbDrive]
OneLayout == ThumbDrive :> MCLayouts[ThumbDrive]

\* Places to mount at: a name of the Latin-1 days, and one with a no-break space.
Latin1Point == <<Slash, 97, NotUtf8>>
SpacedPoint == <<Slash, 97, 160, 98>>
Latin1Points == {<<Slash, 97>>, Latin1Point}
SpacedPoints == {SpacedPoint}
=============================================================================
