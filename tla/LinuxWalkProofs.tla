--------------------------- MODULE LinuxWalkProofs ---------------------------
(***************************************************************************)
(* The Linux backend, for any number of disks, partitions and mounts, any  *)
(* files, any directory order and any number of kernel steps: its types;   *)
(* no phantoms, the documented order, usable sector sizes and explained    *)
(* failures; the refinement of the platform-independent promise; and that  *)
(* disks that held still are reported exactly as they are.                 *)
(*                                                                         *)
(* The safety invariant ties the walk's locals to the kernel: every name   *)
(* it has seen is still there or has moved, what it has gathered are       *)
(* exactly the disks among those names, and a stream can only die with its *)
(* disk.                                                                   *)
(***************************************************************************)
EXTENDS LinuxWalkProps, StableSortProofs, SequenceTheorems

-----------------------------------------------------------------------------
(* Types. *)

\* Where the walk is in a disk's directory, and what its locals then hold.
Place ==
  /\ pc \in {"open", "sub", "probe", "psize", "pstart", "attrs"} => cur \in Targets
  /\ pc \in {"idle", "dir", "mounts"} => cur = NoName
  /\ pc \in {"probe", "psize", "pstart"} => part.no \in PartNos

TypeInv == TypeOK /\ Place

\* A string that was parsed is a natural number.
LEMMA ParseType ==
  ASSUME NEW f \in File
  PROVE  Parse(f) \in Nat
BY DEF Parse, File, NoFile

\* Every file that is read is a File.
LEMMA FileTypes ==
  ASSUME KernelTypeOK, NEW n \in Names
  PROVE  /\ \A a \in AttrSet : AttrFile(n, a) \in File
         /\ \A k : PartFile(n, k, "size") \in File /\ PartFile(n, k, "start") \in File
         /\ PartsOf(n) \subseteq PartNos
<1>1. ASSUME Attached(n)
      PROVE  disk[n] \in Media
  BY <1>1 DEF KernelTypeOK, Attached
<1>2. ASSUME Attached(n)
      PROVE  DOMAIN TableOf(n) \subseteq PartNos /\ TableOf(n) \in [DOMAIN TableOf(n) -> Extent]
  BY <1>1, <1>2, MediaAssumption DEF KernelTypeOK, TableOf
<1>3. PartsOf(n) \subseteq PartNos
  BY <1>2 DEF PartsOf
<1>4. \A a \in AttrSet : AttrFile(n, a) \in File
  BY <1>1, MediaAssumption DEF AttrFile, File
<1>5. ASSUME NEW k
      PROVE  PartFile(n, k, "size") \in File /\ PartFile(n, k, "start") \in File
  <2>1. CASE k \in PartsOf(n)
    <3>1. Attached(n) /\ k \in DOMAIN TableOf(n)
      BY <2>1 DEF PartsOf
    <3>2. TableOf(n)[k] \in Extent
      BY <1>2, <3>1
    <3> QED
      BY <2>1, <3>2 DEF PartFile, Extent
  <2>2. CASE k \notin PartsOf(n)
    BY <2>2 DEF PartFile, File
  <2> QED
    BY <2>1, <2>2
<1> QED
  BY <1>3, <1>4, <1>5

\* The sector sizes of a disk are positive, whatever was read.
LEMMA SectorSizesPositive ==
  ASSUME NEW a \in AllAttributes
  PROVE  Logical(a) \in Nat \ {0} /\ Physical(a) \in Nat \ {0}
<1>1. a \in Seq(File) /\ Len(a) = 6
  BY DEF AllAttributes, Attributes
<1>2. a[4] \in File /\ a[5] \in File
  BY <1>1
<1>3. \A x \in Nat : AsU32(x) \in Nat
  BY WordAssumption DEF AsU32
<1> QED
  BY <1>2, <1>3, ParseType DEF Logical, Physical, OrDefault

\* The lines of /proc/mounts as they are read.
ReadLine == [dev : Names \X ({Whole} \cup PartNos), src : {"kernel", "alias"},
             point : ReadPoints]

LEMMA ParsedType == ASSUME KernelTypeOK PROVE ParsedMounts \in Seq(ReadLine)
<1>1. MountsContent \in Seq(MountLine)
  BY DEF MountsContent, KernelTypeOK
<1>2. Len(MountsContent) \in Nat /\ DOMAIN MountsContent = 1 .. Len(MountsContent)
  BY <1>1
<1>3. ASSUME NEW i \in 1 .. Len(MountsContent)
      PROVE  [MountsContent[i] EXCEPT !.point = PointRead(@)] \in ReadLine
  <2>1. MountsContent[i] \in MountLine
    BY <1>1, <1>2, <1>3
  <2> QED
    BY <2>1 DEF MountLine, ReadLine, ReadPoints
<1> QED
  BY <1>2, <1>3 DEF ParsedMounts, parse_mounts

\* A partition record is well formed.
LEMMA BuildPartType ==
  ASSUME NEW n \in Names, NEW p \in RawPart, NEW lines \in Seq(ReadLine)
  PROVE  BuildPart(n, p, lines) \in Partition
<1>1. Parse(p.start) * SYSFS_SECTOR \in Nat /\ Parse(p.size) * SYSFS_SECTOR \in Nat
  BY ParseType DEF RawPart, SYSFS_SECTOR
<1>2. Lookup(lines, <<n, p.no>>) \in ReadPoints \cup {NoMount}
  <2> DEFINE named == {i \in DOMAIN lines : lines[i].src = "kernel"
                                            /\ lines[i].dev = <<n, p.no>>}
             first == CHOOSE i \in named : \A j \in named : i =< j
  <2>1. CASE named = {}
    BY <2>1 DEF Lookup
  <2>2. CASE named # {}
    <3>1. named \subseteq 1 .. Len(lines) /\ Len(lines) \in Nat
      OBVIOUS
    <3>2. \E i \in named : \A j \in named : i =< j
      BY <2>2, <3>1, FirstPosition
    <3>3. first \in named
      BY <3>2
    <3>4. lines[first] \in ReadLine
      BY <3>1, <3>3, SMTT(30)
    <3> QED
      BY <2>2, <3>4 DEF Lookup, ReadLine
  <2> QED
    BY <2>1, <2>2
<1> QED
  BY <1>1, <1>2 DEF BuildPart, RawPart, Partition

\* A disk's partitions, in order, are partition records.
LEMMA PartitionsType ==
  ASSUME NEW n \in Names, NEW ps \in Seq(RawPart), NEW lines \in Seq(ReadLine)
  PROVE  LET built == [i \in DOMAIN ps |-> BuildPart(n, ps[i], lines)]
         IN  /\ built \in Seq(Partition)
             /\ Len(built) = Len(ps)
             /\ KeysOf([i \in DOMAIN built |-> built[i].start], Len(built))
             /\ ByStart(built) \in Seq(Partition)
             /\ Len(ByStart(built)) = Len(ps)
<1> DEFINE built == [i \in DOMAIN ps |-> BuildPart(n, ps[i], lines)]
           key == [i \in DOMAIN built |-> built[i].start]
<1>1. Len(ps) \in Nat /\ DOMAIN ps = 1 .. Len(ps)
  OBVIOUS
<1>2. \A i \in 1 .. Len(ps) : BuildPart(n, ps[i], lines) \in Partition
  BY <1>1, BuildPartType
<1>3. built \in Seq(Partition) /\ Len(built) = Len(ps)
  BY <1>1, <1>2
<1>4. KeysOf(key, Len(built))
  BY <1>1, <1>2, <1>3 DEF KeysOf, Partition
<1>5. SortedBy(built, key) \in Seq(Partition) /\ Len(SortedBy(built, key)) = Len(built)
  BY <1>3, <1>4, SortedByType
<1> QED
  BY <1>3, <1>4, <1>5 DEF ByStart

\* A disk record is well formed.
LEMMA BuildDiskType ==
  ASSUME NEW d \in RawDisk, NEW lines \in Seq(ReadLine)
  PROVE  BuildDisk(d, lines) \in PhysicalDisk
<1>1. d.name \in Targets /\ d.name \in Names /\ d.parts \in Seq(RawPart)
      /\ d.attrs \in AllAttributes
  BY DEF RawDisk, Targets
<1>2. \A i \in 1 .. 6 : d.attrs[i] \in File
  <2>1. d.attrs \in Seq(File) /\ Len(d.attrs) = 6
    BY <1>1 DEF AllAttributes, Attributes
  <2> QED
    BY <2>1
<1>3. Parse(d.attrs[1]) * SYSFS_SECTOR \in Nat
  BY <1>2, ParseType DEF SYSFS_SECTOR
<1>4. Logical(d.attrs) \in Nat /\ Physical(d.attrs) \in Nat
  BY <1>1, SectorSizesPositive
<1>5. (IF d.attrs[6] = Blank THEN NoFile ELSE d.attrs[6]) \in File
  BY <1>2 DEF File
<1>6. ByStart([i \in DOMAIN d.parts |-> BuildPart(d.name, d.parts[i], lines)])
        \in Seq(Partition)
  BY <1>1, PartitionsType
<1> QED
  BY <1>1, <1>3, <1>4, <1>5, <1>6 DEF BuildDisk, PhysicalDisk, Targets

\* The list is well formed, and holds each raw disk, built, at one place.
LEMMA BuildType ==
  ASSUME NEW ds \in Seq(RawDisk), NEW lines \in Seq(ReadLine)
  PROVE  /\ Build(ds, lines) \in Seq(PhysicalDisk)
         /\ Len(Build(ds, lines)) = Len(ds)
         /\ KeysOf([i \in DOMAIN ds |-> ds[i].name], Len(ds))
<1> DEFINE built == [i \in DOMAIN ds |-> BuildDisk(ds[i], lines)]
           key == [i \in DOMAIN ds |-> ds[i].name]
<1>1. Len(ds) \in Nat /\ DOMAIN ds = 1 .. Len(ds)
  OBVIOUS
<1>2. \A i \in 1 .. Len(ds) : ds[i] \in RawDisk
  BY <1>1
<1>3. built \in Seq(PhysicalDisk) /\ Len(built) = Len(ds)
  BY <1>1, <1>2, BuildDiskType
<1>4. KeysOf(key, Len(ds))
  <2>1. \A i \in 1 .. Len(ds) : ds[i].name \in Int
    <3> SUFFICES ASSUME NEW d \in RawDisk PROVE d.name \in Int
      BY <1>2
    <3>1. d.name \in Names
      BY DEF RawDisk
    <3>2. Names \subseteq Int
      BY NamesAssumption
    <3> QED
      BY <3>1, <3>2
  <2> QED
    BY <1>1, <2>1 DEF KeysOf
<1>5. SortedBy(built, key) \in Seq(PhysicalDisk) /\ Len(SortedBy(built, key)) = Len(built)
  BY <1>3, <1>4, SortedByType
<1> QED
  BY <1>3, <1>4, <1>5 DEF Build

LEMMA ReturnType ==
  ASSUME TypeInv, NEW status \in {"ok", "err"}, NEW disks \in Seq(PhysicalDisk),
         Return(status, disks)
  PROVE  WalkTypeOK' /\ Place'
BY DEF Return, DropLocals, WalkTypeOK, Place, NoSub, NoPart, NoName, File, TypeInv, TypeOK,
       AllAttributes

\* What is behind the names is always something the history can hold.
LEMMA HeldTypes ==
  ASSUME KernelTypeOK
  PROVE  \A h \in HeldNow :
           \E n \in Names, m \in Media : \E t \in Layouts[m] : h = Behind(n, m, t)
<1> SUFFICES ASSUME NEW n \in Names, Attached(n)
             PROVE  disk[n] \in Media /\ TableOf(n) \in Layouts[disk[n]]
  BY DEF HeldNow
<1> QED
  BY DEF KernelTypeOK, Attached, TableOf

\* The kernel's steps keep everything well formed.
LEMMA KernelKeepsTypes ==
  ASSUME TypeInv, Kernel
  PROVE  TypeInv'
<1> USE DEF TypeInv, TypeOK
<1>1. ASSUME NEW n \in Names, NEW m \in Media, Attach(n, m)
      PROVE  TypeInv'
  <2>1. KernelTypeOK'
    BY <1>1 DEF Attach, KernelTypeOK
  <2>0. table[m] \in Layouts[m]
    BY DEF KernelTypeOK
  <2>2. HistoryTypeOK'
    BY <1>1, <2>0 DEF Attach, Stir, HistoryTypeOK
  <2>3. WalkTypeOK' /\ Place'
    BY <1>1 DEF Attach, WalkTypeOK, Place, walk
  <2> QED
    BY <2>1, <2>2, <2>3
<1>2. ASSUME NEW n \in Names, Detach(n)
      PROVE  TypeInv'
  <2>1. KernelTypeOK'
    BY <1>2 DEF Detach, KernelTypeOK
  <2>2. HistoryTypeOK'
    BY <1>2 DEF Detach, Stir, HistoryTypeOK
  <2>3. WalkTypeOK' /\ Place'
    BY <1>2 DEF Detach, WalkTypeOK, Place
  <2> QED
    BY <2>1, <2>2, <2>3
<1>3. ASSUME NEW n \in Names, Attached(n), NEW t \in Layouts[disk[n]], Repartition(n, t)
      PROVE  TypeInv'
  <2>1. disk[n] \in Media
    BY <1>3 DEF Attached, KernelTypeOK
  <2>2. KernelTypeOK'
    BY <1>3, <2>1 DEF Repartition, KernelTypeOK
  <2>3. DOMAIN t \subseteq PartNos
    BY <2>1, MediaAssumption
  <2>4. sub' \in [live : BOOLEAN, must : SUBSET ({Queue} \cup PartNos),
                  may : SUBSET ({Queue} \cup PartNos), seen : SUBSET ({Queue} \cup PartNos)]
    BY <1>3, <2>3 DEF Repartition, WalkTypeOK
  <2>5. HistoryTypeOK'
    BY <1>3, <2>1 DEF Repartition, Stir, HistoryTypeOK
  <2> QED
    BY <1>3, <2>2, <2>4, <2>5 DEF Repartition, WalkTypeOK, Place
<1>4. ASSUME NEW n \in Names, NEW k \in {Whole} \cup PartNos,
             NEW src \in {"kernel", "alias"}, NEW pt \in MountPoints, Mount(n, k, src, pt)
      PROVE  TypeInv'
  <2>1. [dev |-> <<n, k>>, src |-> src, point |-> pt] \in MountLine
    BY DEF MountLine
  <2>2. KernelTypeOK'
    BY <1>4, <2>1 DEF Mount, KernelTypeOK
  <2> QED
    BY <1>4, <2>2 DEF Mount, Stir, HistoryTypeOK, WalkTypeOK, Place, walk, Device
<1>5. ASSUME NEW i \in 1 .. MaxMounts, Unmount(i)
      PROVE  TypeInv'
  <2>1. mounts \in Seq(MountLine) /\ i \in 1 .. Len(mounts) /\ Len(mounts) \in Nat
    BY <1>5 DEF Unmount, KernelTypeOK
  <2>2. \A j \in 1 .. Len(mounts) : mounts[j] \in MountLine
    BY <2>1
  <2>3. SubSeq(mounts, 1, i - 1) \in Seq(MountLine)
        /\ SubSeq(mounts, i + 1, Len(mounts)) \in Seq(MountLine)
    BY <2>1, <2>2, SubSeqProperties
  <2>4. mounts' \in Seq(MountLine)
    BY <1>5, <2>3, ConcatProperties DEF Unmount
  <2>5. mounts[i].dev \in Device /\ mounts[i].point \in MountPoints
    BY <2>1, <2>2 DEF MountLine, Device
  <2> QED
    BY <1>5, <2>4, <2>5
       DEF Unmount, Stir, KernelTypeOK, HistoryTypeOK, WalkTypeOK, Place, walk
<1> QED
  BY <1>1, <1>2, <1>3, <1>4, <1>5 DEF Kernel

\* The backend's steps keep everything well formed.
LEMMA WalkKeepsTypes ==
  ASSUME TypeInv, Call \/ Walk
  PROVE  TypeInv'
<1> USE DEF TypeInv, TypeOK
<1>0. ASSUME UNCHANGED kernel, UNCHANGED history
      PROVE  KernelTypeOK' /\ HistoryTypeOK'
  BY <1>0 DEF kernel, history, KernelTypeOK, HistoryTypeOK
<1>e. <<>> \in Seq(PhysicalDisk)
  OBVIOUS
<1>1. CASE Call
  <2>1. HistoryTypeOK'
    BY <1>1, HeldTypes DEF Call, HistoryTypeOK
  <2>2. KernelTypeOK'
    BY <1>1 DEF Call, kernel, KernelTypeOK
  <2> QED
    BY <1>1, <2>1, <2>2 DEF Call, WalkTypeOK, Place, NoOutcome
<1>16. CASE Unreadable
  BY <1>0, <1>e, <1>16, ReturnType DEF Unreadable, Propagate
<1>3. ASSUME NEW n \in Names, SkipVirtual(n)
      PROVE  TypeInv'
  BY <1>0, <1>3 DEF SkipVirtual, is_virtual, WalkTypeOK, Place
<1>4. ASSUME NEW n \in Names, TakeEntry(n)
      PROVE  TypeInv'
  BY <1>0, <1>4 DEF TakeEntry, is_virtual, WalkTypeOK, Place, Targets
<1>5. CASE OpenDisk
  <2>1. CASE Attached(cur)
    <3>1. cur \in Names
      BY <1>5 DEF OpenDisk, Place, Targets
    <3>2. Children(cur) \subseteq {Queue} \cup PartNos
      BY <3>1, FileTypes DEF Children
    <3>3. sub' \in [live : BOOLEAN, must : SUBSET ({Queue} \cup PartNos),
                    may : SUBSET ({Queue} \cup PartNos),
                    seen : SUBSET ({Queue} \cup PartNos)]
      <4>1. sub' = [live |-> TRUE, must |-> Children(cur), may |-> Children(cur),
                    seen |-> {}]
        BY <1>5, <2>1 DEF OpenDisk
      <4> QED
        BY <3>2, <4>1
    <3> QED
      BY <1>0, <1>5, <2>1, <3>3 DEF OpenDisk, WalkTypeOK, Place
  <2>2. CASE ~Attached(cur)
    BY <1>0, <1>e, <1>5, <2>2, ReturnType DEF OpenDisk, Propagate
  <2> QED
    BY <2>1, <2>2
<1>6. ASSUME NEW k \in {Queue} \cup PartNos, NextSub(k)
      PROVE  TypeInv'
  BY <1>0, <1>6 DEF NextSub, After, WalkTypeOK, Place, NoPart, Queue, File
<1>7. CASE SubFails
  BY <1>0, <1>e, <1>7, ReturnType DEF SubFails, Propagate
<1>8. CASE Probe
  BY <1>0, <1>8 DEF Probe, PassOver, WalkTypeOK, Place
<1>9. CASE ReadPartSize
  <2>1. cur \in Names
    BY <1>9 DEF ReadPartSize, Place, Targets
  <2>2. PartFile(cur, part.no, "size") \in File
    BY <2>1, FileTypes
  <2> QED
    BY <1>0, <1>9, <2>2 DEF ReadPartSize, WalkTypeOK, Place
<1>10. CASE ReadPartStart
  <2>1. cur \in Names /\ part.no \in PartNos
    BY <1>10 DEF ReadPartStart, Place, Targets
  <2>2. PartFile(cur, part.no, "start") \in File
    BY <2>1, FileTypes
  <2>3. [no |-> part.no, size |-> part.size,
         start |-> PartFile(cur, part.no, "start")] \in RawPart
    BY <2>1, <2>2 DEF RawPart, WalkTypeOK
  <2>4. parts' \in Seq(RawPart)
    BY <1>10, <2>3 DEF ReadPartStart, WalkTypeOK
  <2> QED
    BY <1>0, <1>10, <2>4 DEF ReadPartStart, WalkTypeOK, Place, NoPart, File
<1>11. CASE EndSub
  BY <1>0, <1>11 DEF EndSub, WalkTypeOK, Place, NoSub, NoPart, File
<1>12. CASE ReadAttr
  <2>1. cur \in Names /\ attrs \in Seq(File)
    BY <1>12 DEF ReadAttr, Place, WalkTypeOK, Targets
  <2>2. Len(attrs) + 1 \in 1 .. 6
    BY <1>12, <2>1 DEF ReadAttr, Attributes
  <2>3. AttrFile(cur, Attributes[Len(attrs) + 1]) \in File
    BY <2>1, <2>2, FileTypes DEF Attributes, AttrSet
  <2>4. attrs' \in Seq(File)
    BY <1>12, <2>1, <2>3 DEF ReadAttr
  <2> QED
    BY <1>0, <1>12, <2>4 DEF ReadAttr, WalkTypeOK, Place
<1>13. CASE PushDisk
  <2> DEFINE all == Append(attrs, AttrFile(cur, Attributes[Len(attrs) + 1]))
  <2>1. cur \in Names /\ cur \in Names \ Virtual /\ attrs \in Seq(File)
        /\ parts \in Seq(RawPart)
    BY <1>13 DEF PushDisk, Place, WalkTypeOK, Targets
  <2>2. Len(attrs) + 1 = 6
    BY <1>13, <2>1 DEF PushDisk, Attributes
  <2>3. AttrFile(cur, Attributes[Len(attrs) + 1]) \in File
    BY <2>1, <2>2, FileTypes DEF Attributes, AttrSet
  <2>4. all \in AllAttributes
    BY <2>1, <2>2, <2>3 DEF AllAttributes, Attributes
  <2>5. [name |-> cur, parts |-> parts, attrs |-> all] \in RawDisk
    BY <2>1, <2>4 DEF RawDisk
  <2>6. raw' \in Seq(RawDisk)
    BY <1>13, <2>5 DEF PushDisk, WalkTypeOK
  <2> QED
    BY <1>0, <1>13, <2>6 DEF PushDisk, WalkTypeOK, Place
<1>14. CASE EndDir
  BY <1>0, <1>14 DEF EndDir, WalkTypeOK, Place
<1>15. CASE ReadMounts
  <2>1. ParsedMounts \in Seq(ReadLine)
    BY ParsedType
  <2>2. Build(raw, ParsedMounts) \in Seq(PhysicalDisk)
    BY <2>1, BuildType DEF WalkTypeOK
  <2> QED
    BY <1>0, <1>15, <2>2, ReturnType DEF ReadMounts
<1> QED
  BY <1>1, <1>3, <1>4, <1>5, <1>6, <1>7, <1>8, <1>9, <1>10, <1>11, <1>12,
     <1>13, <1>14, <1>15, <1>16 DEF Walk

LEMMA InitTypes == Init => TypeInv
<1> SUFFICES ASSUME Init PROVE TypeInv
  OBVIOUS
<1>1. KernelTypeOK
  BY MountAssumption DEF Init, KernelTypeOK
<1>2. HistoryTypeOK
  BY <1>1, HeldTypes DEF Init, HistoryTypeOK
<1>3. WalkTypeOK /\ Place
  BY DEF Init, WalkTypeOK, Place, NoSub, NoPart, NoOutcome, File, NoName
<1> QED
  BY <1>1, <1>2, <1>3 DEF TypeInv, TypeOK

\* A step that changes nothing keeps everything well formed.
LEMMA StutterTypes == TypeInv /\ UNCHANGED vars => TypeInv'
BY DEF vars, kernel, history, walk, TypeInv, TypeOK, KernelTypeOK, HistoryTypeOK,
       WalkTypeOK, Place

\* The state of the backend and of the kernel is always well formed, and so is
\* every list a call returns (linux.rs:21-68, sysfs.rs:62-126).
THEOREM TypeCorrect == Spec => []TypeOK
<1>1. TypeInv /\ [Next]_vars => TypeInv'
  BY KernelKeepsTypes, WalkKeepsTypes, StutterTypes DEF Next
<1>2. TypeInv => TypeOK
  BY DEF TypeInv
<1> QED
  BY InitTypes, <1>1, <1>2, PTL DEF Spec

-----------------------------------------------------------------------------
(* Safety. *)

NamesOf(ds) == {ds[i].name : i \in DOMAIN ds}
Numbers(ps) == {ps[i].no : i \in DOMAIN ps}
DistinctNames(ds) == \A i, j \in DOMAIN ds : ds[i].name = ds[j].name => i = j
DistinctNumbers(ps) == \A i, j \in DOMAIN ps : ps[i].no = ps[j].no => i = j
There(n) == Attached(n) \/ n \in moved
InDirectory == {"sub", "probe", "psize", "pstart"}

\* What the outer loop has gathered, against the names its stream yielded.
Gathered ==
  /\ pc = "idle" => seen = {}
  /\ \A n \in seen : There(n)
  /\ NamesOf(raw) \cup ({cur} \ {NoName}) = seen \ Virtual
  /\ cur \notin NamesOf(raw)
  /\ DistinctNames(raw)
  /\ pc = "mounts" => \A n \in Names : Attached(n) /\ n \notin moved => n \in seen

\* What the inner loop has gathered, against its own stream.
GatheredParts ==
  /\ DistinctNumbers(parts)
  /\ pc \in InDirectory => Numbers(parts) \subseteq sub.seen
  /\ pc \in InDirectory \ {"sub"} => part.no \in sub.seen /\ part.no \notin Numbers(parts)
  /\ \A i \in DOMAIN raw : DistinctNumbers(raw[i].parts)

\* What a failure would have to be explained by.
Reasons ==
  /\ pc = "mounts" => sysfs
  /\ pc \in InDirectory /\ ~sub.live => cur \in moved
  /\ outcome.status = "err" => ~sysfs \/ moved \cap Targets # {}

\* A disk and a list as the documentation describes them.
WellDisk(d) ==
  /\ d.logical > 0 /\ d.physical > 0
  /\ \A a, b \in DOMAIN d.partitions :
       a < b => d.partitions[a].start =< d.partitions[b].start
  /\ \A a, b \in DOMAIN d.partitions :
       /\ d.partitions[a].dev[1] = d.name
       /\ d.partitions[a].dev = d.partitions[b].dev => a = b
WellListed(ds) ==
  /\ \A i, j \in DOMAIN ds : i < j => ds[i].name < ds[j].name
  /\ \A i \in DOMAIN ds : WellDisk(ds[i])

\* What was returned, against the disks there are.
Delivered ==
  outcome.status = "ok" =>
    /\ WellListed(outcome.disks)
    /\ \A n \in Listed : n \in Targets /\ There(n)
    /\ \A n \in Targets : Attached(n) /\ n \notin moved => n \in Listed

WalkInv == TypeInv /\ Gathered /\ GatheredParts /\ Reasons /\ Delivered

-----------------------------------------------------------------------------
(* What sysfs::build makes of raw disks with distinct names and numbers. *)

LEMMA BuildDiskWell ==
  ASSUME NEW d \in RawDisk, NEW lines \in Seq(ReadLine), DistinctNumbers(d.parts)
  PROVE  WellDisk(BuildDisk(d, lines)) /\ BuildDisk(d, lines).name = d.name
<1> DEFINE ps == d.parts
           built == [i \in DOMAIN ps |-> BuildPart(d.name, ps[i], lines)]
           key == [i \in DOMAIN built |-> built[i].start]
           sorted == SortedBy(built, key)
<1>1. d.name \in Names /\ ps \in Seq(RawPart) /\ d.attrs \in AllAttributes
  BY DEF RawDisk
<1>2. Logical(d.attrs) > 0 /\ Physical(d.attrs) > 0
  BY <1>1, SectorSizesPositive
<1>3. /\ built \in Seq(Partition) /\ Len(built) = Len(ps)
      /\ KeysOf(key, Len(built))
  BY <1>1, PartitionsType, ZenonT(40)
<1>n. Len(ps) \in Nat /\ DOMAIN ps = 1 .. Len(ps) /\ DOMAIN built = 1 .. Len(ps)
  BY <1>1
<1>b. \A i \in 1 .. Len(ps) : /\ built[i].dev = <<d.name, ps[i].no>>
                              /\ key[i] = built[i].start
  BY <1>n DEF BuildPart
<1>9. BuildDisk(d, lines).partitions = sorted
  BY DEF BuildDisk, ByStart
<1>s. DOMAIN sorted = 1 .. Len(ps)
  BY <1>n DEF SortedBy
<1>4. /\ \A r \in 1 .. Len(built) : /\ AtRank(key, r) \in 1 .. Len(built)
                                    /\ Rank(key, AtRank(key, r)) = r
                                    /\ sorted[r] = built[AtRank(key, r)]
      /\ \A q, r \in 1 .. Len(built) :
           q < r => key[AtRank(key, q)] =< key[AtRank(key, r)]
  <2> HIDE DEF built, key
  <2> QED
    BY <1>3, SortedByPermutes
<1> HIDE DEF built, key, sorted
<1>6. \A q, r \in 1 .. Len(ps) : q < r => sorted[q].start =< sorted[r].start
  <2>1. \A r \in 1 .. Len(ps) : sorted[r].start = key[AtRank(key, r)]
    BY <1>3, <1>4, <1>b
  <2> QED
    BY <1>3, <1>4, <2>1
<1>7. \A r \in 1 .. Len(ps) : sorted[r].dev = <<d.name, ps[AtRank(key, r)].no>>
  BY <1>3, <1>4, <1>b
<1>8. \A q, r \in 1 .. Len(ps) : sorted[q].dev = sorted[r].dev => q = r
  <2> SUFFICES ASSUME NEW q \in 1 .. Len(ps), NEW r \in 1 .. Len(ps),
                      sorted[q].dev = sorted[r].dev
               PROVE  q = r
    OBVIOUS
  <2>1. AtRank(key, q) \in DOMAIN ps /\ AtRank(key, r) \in DOMAIN ps
    BY <1>3, <1>4, <1>n
  <2>2. <<d.name, ps[AtRank(key, q)].no>> = <<d.name, ps[AtRank(key, r)].no>>
    BY <1>7
  <2>3. ps[AtRank(key, q)].no = ps[AtRank(key, r)].no
    BY <2>2
  <2>4. AtRank(key, q) = AtRank(key, r)
    BY <2>1, <2>3 DEF DistinctNumbers
  <2>5. Rank(key, AtRank(key, q)) = q /\ Rank(key, AtRank(key, r)) = r
    BY <1>3, <1>4
  <2> QED
    BY <2>4, <2>5
<1>10. /\ BuildDisk(d, lines).name = d.name
       /\ BuildDisk(d, lines).logical = Logical(d.attrs)
       /\ BuildDisk(d, lines).physical = Physical(d.attrs)
  BY DEF BuildDisk
<1>11. \A r \in 1 .. Len(ps) : sorted[r].dev[1] = d.name
  BY <1>7
<1> QED
  BY <1>2, <1>s, <1>6, <1>8, <1>9, <1>10, <1>11 DEF WellDisk

LEMMA BuildWell ==
  ASSUME NEW ds \in Seq(RawDisk), NEW lines \in Seq(ReadLine), DistinctNames(ds),
         \A i \in DOMAIN ds : DistinctNumbers(ds[i].parts)
  PROVE  WellListed(Build(ds, lines)) /\ NamesOf(Build(ds, lines)) = NamesOf(ds)
<1> DEFINE n == Len(ds)
           built == [i \in DOMAIN ds |-> BuildDisk(ds[i], lines)]
           key == [i \in DOMAIN ds |-> ds[i].name]
           sorted == SortedBy(built, key)
<1>1. n \in Nat /\ DOMAIN ds = 1 .. n /\ \A i \in 1 .. n : ds[i] \in RawDisk
  OBVIOUS
<1>2. \A i \in 1 .. n : built[i] \in PhysicalDisk
  BY <1>1, BuildDiskType
<1>3. built \in Seq(PhysicalDisk) /\ Len(built) = n
  BY <1>1, <1>2
<1>4. KeysOf(key, n)
  BY BuildType
<1>5. \A i \in 1 .. n : WellDisk(built[i]) /\ built[i].name = ds[i].name
  BY <1>1, BuildDiskWell
<1>6. /\ \A i \in 1 .. Len(built) : /\ Rank(key, i) \in 1 .. Len(built)
                                    /\ sorted[Rank(key, i)] = built[i]
      /\ \A r \in 1 .. Len(built) : /\ AtRank(key, r) \in 1 .. Len(built)
                                    /\ Rank(key, AtRank(key, r)) = r
                                    /\ sorted[r] = built[AtRank(key, r)]
      /\ \A q, r \in 1 .. Len(built) :
           q < r => key[AtRank(key, q)] =< key[AtRank(key, r)]
  <2> HIDE DEF built, key
  <2> QED
    BY <1>3, <1>4, SortedByPermutes
<1>7. DOMAIN sorted = 1 .. n /\ Build(ds, lines) = sorted
  BY <1>1, <1>3 DEF SortedBy, Build
<1>k. \A i \in 1 .. n : key[i] = ds[i].name /\ key[i] \in Int
  BY <1>1, <1>4 DEF KeysOf
<1> HIDE DEF built, key, sorted
<1>8. \A r \in 1 .. n : WellDisk(sorted[r]) /\ sorted[r].name = ds[AtRank(key, r)].name
  BY <1>3, <1>5, <1>6
<1>9. \A q, r \in 1 .. n : q < r => sorted[q].name < sorted[r].name
  <2> SUFFICES ASSUME NEW q \in 1 .. n, NEW r \in 1 .. n, q < r
               PROVE  sorted[q].name < sorted[r].name
    OBVIOUS
  <2>1. PICK a \in 1 .. n : a = AtRank(key, q) /\ Rank(key, a) = q
    BY <1>3, <1>6
  <2>2. PICK b \in 1 .. n : b = AtRank(key, r) /\ Rank(key, b) = r
    BY <1>3, <1>6
  <2>3. a # b
    BY <2>1, <2>2
  <2>4. key[a] =< key[b]
    BY <1>3, <1>6, <2>1, <2>2
  <2>5. ds[a].name # ds[b].name
    BY <1>1, <2>3 DEF DistinctNames
  <2>6. key[a] < key[b]
    BY <1>k, <2>4, <2>5
  <2> QED
    BY <1>8, <1>k, <2>1, <2>2, <2>6
<1>10. NamesOf(sorted) = NamesOf(ds)
  <2>1. ASSUME NEW r \in 1 .. n
        PROVE  sorted[r].name \in NamesOf(ds)
    BY <1>1, <1>3, <1>6, <1>8 DEF NamesOf
  <2>2. ASSUME NEW i \in 1 .. n
        PROVE  ds[i].name \in NamesOf(sorted)
    <3>1. Rank(key, i) \in 1 .. n /\ sorted[Rank(key, i)].name = ds[i].name
      BY <1>3, <1>5, <1>6
    <3> QED
      BY <1>7, <3>1 DEF NamesOf
  <2> QED
    BY <1>1, <1>7, <2>1, <2>2 DEF NamesOf
<1> QED
  BY <1>7, <1>8, <1>9, <1>10 DEF WellListed

-----------------------------------------------------------------------------
(* The kernel's steps. *)

\* Nothing the kernel does takes a name away from the ones that were there.
KernelMoves ==
  /\ moved \subseteq moved'
  /\ \A n \in Names : n \in moved' \/ (Attached(n)' <=> Attached(n))
  /\ sysfs' = sysfs
  /\ UNCHANGED <<pc, seen, cur, part, parts, attrs, raw, outcome>>
  /\ sub'.seen = sub.seen
  /\ sub'.live = sub.live \/ cur \in moved'

LEMMA KernelOnlyMoves ==
  ASSUME TypeInv, Kernel
  PROVE  KernelMoves
<1>t. KernelTypeOK /\ HistoryTypeOK /\ WalkTypeOK
  BY DEF TypeInv, TypeOK
<1>1. ASSUME NEW n \in Names, NEW m \in Media, Attach(n, m)
      PROVE  KernelMoves
  BY <1>t, <1>1
     DEF Attach, walk, KernelMoves, Attached, KernelTypeOK, HistoryTypeOK, WalkTypeOK
<1>2. ASSUME NEW n \in Names, Detach(n)
      PROVE  KernelMoves
  BY <1>t, <1>2
     DEF Detach, KernelMoves, Attached, KernelTypeOK, HistoryTypeOK, WalkTypeOK
<1>3. ASSUME NEW n \in Names, Attached(n), NEW t \in Layouts[disk[n]], Repartition(n, t)
      PROVE  KernelMoves
  BY <1>t, <1>3
     DEF Repartition, KernelMoves, Attached, KernelTypeOK, HistoryTypeOK, WalkTypeOK
<1>4. ASSUME NEW n \in Names, NEW k \in {Whole} \cup PartNos,
             NEW src \in {"kernel", "alias"}, NEW pt \in MountPoints, Mount(n, k, src, pt)
      PROVE  KernelMoves
  BY <1>t, <1>4
     DEF Mount, walk, KernelMoves, Attached, KernelTypeOK, HistoryTypeOK, WalkTypeOK
<1>5. ASSUME NEW i \in 1 .. MaxMounts, Unmount(i)
      PROVE  KernelMoves
  BY <1>t, <1>5
     DEF Unmount, walk, KernelMoves, Attached, KernelTypeOK, HistoryTypeOK, WalkTypeOK
<1> QED
  BY <1>1, <1>2, <1>3, <1>4, <1>5 DEF Kernel

LEMMA KernelKeepsSafety ==
  ASSUME WalkInv, Kernel
  PROVE  WalkInv'
<1> USE DEF WalkInv
<1>1. TypeInv'
  BY KernelKeepsTypes
<1>2. KernelMoves
  BY KernelOnlyMoves
<1>3. seen \subseteq Names /\ moved \subseteq Names
  BY DEF TypeInv, TypeOK, WalkTypeOK, HistoryTypeOK
<1>4. \A n \in Names : There(n) => There(n)'
  BY <1>2 DEF KernelMoves, There
<1>5. \A n \in Names : Attached(n)' /\ n \notin moved' => Attached(n) /\ n \notin moved
  BY <1>2 DEF KernelMoves
<1>6. Gathered'
  BY <1>2, <1>3, <1>4, <1>5 DEF Gathered, KernelMoves, NamesOf, DistinctNames
<1>7. GatheredParts'
  BY <1>2 DEF GatheredParts, KernelMoves, DistinctNumbers, Numbers
<1>8. Reasons'
  BY <1>2 DEF Reasons, KernelMoves
<1>9. Delivered'
  <2>1. outcome' = outcome /\ Listed' = Listed
    BY <1>2 DEF KernelMoves, Listed
  <2>2. Targets \subseteq Names
    BY DEF Targets
  <2> QED
    BY <1>4, <1>5, <2>1, <2>2 DEF Delivered, WellListed, WellDisk
<1> QED
  BY <1>1, <1>6, <1>7, <1>8, <1>9

-----------------------------------------------------------------------------
(* The backend's steps. *)

\* With the kernel at rest, what there is does not change.
LEMMA RestKeeps ==
  ASSUME UNCHANGED <<kernel, history>>
  PROVE  /\ sysfs' = sysfs /\ moved' = moved
         /\ \A n : Attached(n)' = Attached(n) /\ There(n)' = There(n)
BY DEF kernel, history, Attached, There

\* A call may only fail for a reason.
LEMMA FailureKeeps ==
  ASSUME WalkInv, UNCHANGED <<kernel, history>>, Propagate,
         ~sysfs \/ moved \cap Targets # {}
  PROVE  Gathered' /\ GatheredParts' /\ Reasons' /\ Delivered'
<1>1. sysfs' = sysfs /\ moved' = moved
  BY RestKeeps
<1> USE DEF Propagate, Return, DropLocals
<1>2. Gathered'
  BY DEF Gathered, NamesOf, DistinctNames, NoName
<1>3. GatheredParts'
  BY DEF GatheredParts, DistinctNumbers, Numbers, InDirectory
<1>4. Reasons'
  BY <1>1 DEF Reasons, InDirectory
<1>5. Delivered'
  BY DEF Delivered
<1> QED
  BY <1>2, <1>3, <1>4, <1>5

\* The name the walk is at is one it has seen.
LEMMA CurrentSeen ==
  ASSUME WalkInv, cur # NoName
  PROVE  cur \in seen /\ cur \in Targets /\ There(cur) /\ cur \notin NamesOf(raw)
<1>1. cur \in seen \ Virtual /\ cur \notin NamesOf(raw) /\ There(cur)
  BY DEF WalkInv, Gathered
<1>2. cur \in Targets
  BY <1>1 DEF WalkInv, TypeInv, TypeOK, WalkTypeOK, Targets
<1> QED
  BY <1>1, <1>2

LEMMA CallKeepsSafety ==
  ASSUME WalkInv, Call
  PROVE  Gathered' /\ GatheredParts' /\ Reasons' /\ Delivered'
<1> USE DEF Call, WalkInv
<1>t. pc = "idle" /\ cur = NoName /\ seen = {}
  BY DEF TypeInv, Place, Gathered
<1>1. Gathered'
  BY <1>t DEF Gathered, NamesOf, DistinctNames
<1>2. GatheredParts'
  BY <1>t DEF GatheredParts, DistinctNumbers, Numbers, InDirectory
<1>3. Reasons'
  BY DEF Reasons, NoOutcome, InDirectory
<1>4. Delivered'
  BY DEF Delivered, NoOutcome
<1> QED
  BY <1>1, <1>2, <1>3, <1>4

\* The outer loop.
LEMMA OuterKeepsSafety ==
  ASSUME WalkInv, \/ Unreadable \/ EndDir \/ OpenDisk
                  \/ \E n \in Names : SkipVirtual(n) \/ TakeEntry(n)
  PROVE  Gathered' /\ GatheredParts' /\ Reasons' /\ Delivered'
<1> USE DEF WalkInv
<1>r. ASSUME UNCHANGED <<kernel, history>>, UNCHANGED outcome
      PROVE  Delivered'
  <2>1. Listed' = Listed
    BY <1>r DEF Listed
  <2> QED
    BY <1>r, <2>1, RestKeeps DEF Delivered, WellListed, WellDisk
<1>2. CASE Unreadable
  BY <1>2, FailureKeeps DEF Unreadable
<1>3. CASE EndDir
  <2> USE <1>3 DEF EndDir
  <2>1. Gathered'
    BY RestKeeps DEF Gathered, NamesOf, DistinctNames
  <2>2. GatheredParts'
    BY DEF GatheredParts, DistinctNumbers, Numbers, InDirectory
  <2>3. Reasons'
    BY RestKeeps DEF Reasons, InDirectory
  <2> QED
    BY <1>r, <2>1, <2>2, <2>3
<1>4. CASE OpenDisk /\ Attached(cur)
  <2> USE <1>4 DEF OpenDisk
  <2>1. Gathered'
    BY RestKeeps DEF Gathered, NamesOf, DistinctNames
  <2>2. GatheredParts'
    BY DEF GatheredParts, DistinctNumbers, Numbers, InDirectory
  <2>3. Reasons'
    BY RestKeeps DEF Reasons, InDirectory
  <2> QED
    BY <1>r, <2>1, <2>2, <2>3
<1>5. CASE OpenDisk /\ ~Attached(cur)
  <2>1. cur # NoName
    BY <1>5, NamesAssumption DEF OpenDisk, TypeInv, Place, Targets
  <2>2. cur \in moved \cap Targets
    BY <1>5, <2>1, CurrentSeen DEF There
  <2> QED
    BY <1>5, <2>2, FailureKeeps DEF OpenDisk
<1>6. ASSUME NEW n \in Names, SkipVirtual(n)
      PROVE  Gathered' /\ GatheredParts' /\ Reasons' /\ Delivered'
  <2> USE <1>6 DEF SkipVirtual, is_virtual
  <2>1. There(n)
    BY DEF Yieldable, There
  <2>2. Gathered'
    BY <2>1, RestKeeps DEF Gathered, NamesOf, DistinctNames
  <2>3. GatheredParts'
    BY DEF GatheredParts, DistinctNumbers, Numbers, InDirectory
  <2>4. Reasons'
    BY RestKeeps DEF Reasons, InDirectory
  <2> QED
    BY <1>r, <2>2, <2>3, <2>4
<1>7. ASSUME NEW n \in Names, TakeEntry(n)
      PROVE  Gathered' /\ GatheredParts' /\ Reasons' /\ Delivered'
  <2> USE <1>7 DEF TakeEntry, is_virtual
  <2>1. There(n) /\ n \notin seen /\ n # NoName
    BY NamesAssumption DEF Yieldable, There
  <2>2. cur = NoName
    BY DEF TypeInv, Place
  <2>3. NamesOf(raw)' = NamesOf(raw) /\ DistinctNames(raw)' = DistinctNames(raw)
    BY DEF NamesOf, DistinctNames
  <2>4. NamesOf(raw) = seen \ Virtual
    BY <2>2 DEF Gathered
  <2>5. Gathered'
    BY <2>1, <2>3, <2>4, RestKeeps DEF Gathered
  <2>6. GatheredParts'
    BY DEF GatheredParts, DistinctNumbers, Numbers, InDirectory
  <2>7. Reasons'
    BY RestKeeps DEF Reasons, InDirectory
  <2> QED
    BY <1>r, <2>5, <2>6, <2>7
<1> QED
  BY <1>2, <1>3, <1>4, <1>5, <1>6, <1>7

\* The loop over a disk's directory, and the disk's attributes.
LEMMA InnerKeepsSafety ==
  ASSUME WalkInv, \/ SubFails \/ Probe \/ ReadPartSize \/ ReadPartStart \/ EndSub
                  \/ ReadAttr \/ \E k \in {Queue} \cup PartNos : NextSub(k)
  PROVE  Gathered' /\ GatheredParts' /\ Reasons' /\ Delivered'
<1> USE DEF WalkInv
<1>t. parts \in Seq(RawPart) /\ part \in [no : PartNos \cup {0}, size : File]
  BY DEF TypeInv, TypeOK, WalkTypeOK
<1>r. ASSUME UNCHANGED <<kernel, history, seen, cur, raw, outcome>>,
             pc # "idle", pc' \notin {"idle", "mounts"}
      PROVE  Gathered' /\ Delivered'
  <2>1. Listed' = Listed
    BY <1>r DEF Listed
  <2>2. Delivered'
    BY <1>r, <2>1, RestKeeps DEF Delivered, WellListed, WellDisk
  <2>3. Gathered'
    BY <1>r, RestKeeps DEF Gathered, NamesOf, DistinctNames
  <2> QED
    BY <2>2, <2>3
<1>1. CASE SubFails
  <2>1. cur # NoName
    BY <1>1, NamesAssumption DEF SubFails, TypeInv, Place, Targets
  <2>2. cur \in moved \cap Targets
    BY <1>1, <2>1, CurrentSeen DEF SubFails, Reasons, InDirectory
  <2> QED
    BY <1>1, <2>2, FailureKeeps DEF SubFails
<1>2. CASE Probe
  <2> USE <1>2 DEF Probe, PassOver
  <2>1. GatheredParts'
    BY DEF GatheredParts, DistinctNumbers, Numbers, InDirectory
  <2>2. Reasons'
    BY RestKeeps DEF Reasons, InDirectory
  <2> QED
    BY <1>r, <2>1, <2>2
<1>3. CASE ReadPartSize
  <2> USE <1>3 DEF ReadPartSize
  <2>0. part'.no = part.no
    BY <1>t
  <2>1. GatheredParts'
    BY <2>0 DEF GatheredParts, DistinctNumbers, Numbers, InDirectory
  <2>2. Reasons'
    BY RestKeeps DEF Reasons, InDirectory
  <2> QED
    BY <1>r, <2>1, <2>2
<1>4. CASE ReadPartStart
  <2> USE <1>4 DEF ReadPartStart
  <2>1. Numbers(parts') = Numbers(parts) \cup {part.no}
    BY <1>t DEF Numbers
  <2>2. part.no \in sub.seen /\ part.no \notin Numbers(parts)
    BY DEF GatheredParts, InDirectory
  <2>3. DistinctNumbers(parts')
    BY <1>t, <2>2 DEF GatheredParts, DistinctNumbers, Numbers
  <2>4. GatheredParts'
    BY <2>1, <2>2, <2>3 DEF GatheredParts, InDirectory, Numbers, DistinctNumbers
  <2>5. Reasons'
    BY RestKeeps DEF Reasons, InDirectory
  <2> QED
    BY <1>r, <2>4, <2>5
<1>5. CASE EndSub
  <2> USE <1>5 DEF EndSub
  <2>1. GatheredParts'
    BY DEF GatheredParts, DistinctNumbers, Numbers, InDirectory
  <2>2. Reasons'
    BY RestKeeps DEF Reasons, InDirectory
  <2> QED
    BY <1>r, <2>1, <2>2
<1>6. CASE ReadAttr
  <2> USE <1>6 DEF ReadAttr
  <2>1. GatheredParts'
    BY DEF GatheredParts, DistinctNumbers, Numbers, InDirectory
  <2>2. Reasons'
    BY RestKeeps DEF Reasons, InDirectory
  <2> QED
    BY <1>r, <2>1, <2>2
<1>7. ASSUME NEW k \in {Queue} \cup PartNos, NextSub(k)
      PROVE  Gathered' /\ GatheredParts' /\ Reasons' /\ Delivered'
  <2> USE <1>7 DEF NextSub, After
  <2>1. k \notin sub.seen /\ sub'.seen = sub.seen \cup {k} /\ sub'.live = sub.live
    BY DEF TypeInv, TypeOK, WalkTypeOK
  <2>2. Numbers(parts) \subseteq sub.seen
    BY DEF GatheredParts, InDirectory
  <2>3. k # Queue => part'.no = k
    BY DEF NoPart
  <2>4. Numbers(parts)' = Numbers(parts) /\ DistinctNumbers(parts)' = DistinctNumbers(parts)
    BY DEF Numbers, DistinctNumbers
  <2>5. GatheredParts'
    BY <2>1, <2>2, <2>3, <2>4 DEF GatheredParts, InDirectory, DistinctNumbers
  <2>6. Reasons'
    BY <2>1, RestKeeps DEF Reasons, InDirectory
  <2> QED
    BY <1>r, <2>5, <2>6
<1> QED
  BY <1>1, <1>2, <1>3, <1>4, <1>5, <1>6, <1>7

\* The disk is complete.
LEMMA PushKeepsSafety ==
  ASSUME WalkInv, PushDisk
  PROVE  Gathered' /\ GatheredParts' /\ Reasons' /\ Delivered'
<1> USE DEF WalkInv, PushDisk
<1> DEFINE d == [name |-> cur, parts |-> parts,
                 attrs |-> Append(attrs, AttrFile(cur, Attributes[Len(attrs) + 1]))]
<1>t. raw \in Seq(RawDisk) /\ Len(raw) \in Nat /\ cur # NoName
  BY NamesAssumption DEF TypeInv, TypeOK, WalkTypeOK, Place, Targets
<1>1. /\ raw' = Append(raw, d) /\ d.name = cur /\ d.parts = parts
  OBVIOUS
<1>2. /\ DOMAIN raw = 1 .. Len(raw) /\ DOMAIN raw' = 1 .. Len(raw) + 1
      /\ \A i \in 1 .. Len(raw) : raw'[i] = raw[i]
      /\ raw'[Len(raw) + 1] = d
  <2> HIDE DEF d
  <2> QED
    BY <1>t, <1>1
<1> HIDE DEF d
<1>3. cur \notin NamesOf(raw)
  BY DEF Gathered
<1>4. NamesOf(raw') = NamesOf(raw) \cup {cur}
  <2>1. \A i \in DOMAIN raw : i \in DOMAIN raw' /\ raw'[i].name = raw[i].name
    BY <1>t, <1>2
  <2>2. \A i \in DOMAIN raw' : i \in DOMAIN raw \/ i = Len(raw) + 1
    BY <1>t, <1>2
  <2>3. Len(raw) + 1 \in DOMAIN raw' /\ raw'[Len(raw) + 1].name = cur
    BY <1>t, <1>1, <1>2
  <2> QED
    BY <2>1, <2>2, <2>3 DEF NamesOf
<1>5. DistinctNames(raw')
  BY <1>t, <1>1, <1>2, <1>3 DEF DistinctNames, NamesOf, Gathered
<1>6. \A i \in DOMAIN raw' : DistinctNumbers(raw'[i].parts)
  BY <1>t, <1>1, <1>2 DEF GatheredParts
<1>7. Gathered'
  <2>1. NamesOf(raw) \cup {cur} = seen \ Virtual
    BY <1>t DEF Gathered
  <2>2. cur' = NoName /\ NoName \notin Names /\ seen \subseteq Names
    BY NamesAssumption DEF TypeInv, TypeOK, WalkTypeOK
  <2>3. cur' \notin NamesOf(raw')
    BY <1>4, <2>1, <2>2
  <2> QED
    BY <1>4, <1>5, <2>1, <2>2, <2>3, RestKeeps DEF Gathered, NamesOf, DistinctNames
<1>8. GatheredParts'
  BY <1>6 DEF GatheredParts, DistinctNumbers, Numbers, InDirectory
<1>9. Reasons'
  BY RestKeeps DEF Reasons, InDirectory
<1>10. Listed' = Listed
  BY DEF Listed
<1>11. Delivered'
  BY <1>10, RestKeeps DEF Delivered, WellListed, WellDisk
<1> QED
  BY <1>7, <1>8, <1>9, <1>11

\* The call returns the list.
LEMMA ReadMountsKeepsSafety ==
  ASSUME WalkInv, ReadMounts
  PROVE  Gathered' /\ GatheredParts' /\ Reasons' /\ Delivered'
<1> USE DEF WalkInv, ReadMounts, Return, DropLocals
<1>t. raw \in Seq(RawDisk) /\ ParsedMounts \in Seq(ReadLine) /\ cur = NoName
      /\ seen \subseteq Names
  BY ParsedType DEF TypeInv, TypeOK, WalkTypeOK, Place
<1>1. WellListed(Build(raw, ParsedMounts)) /\ NamesOf(Build(raw, ParsedMounts)) = NamesOf(raw)
  BY <1>t, BuildWell DEF Gathered, GatheredParts
<1>2. outcome'.disks = Build(raw, ParsedMounts)
  OBVIOUS
<1>3. Listed' = seen \ Virtual
  <2>1. Listed' = NamesOf(outcome'.disks)
    BY DEF Listed, NamesOf
  <2>2. NamesOf(raw) = seen \ Virtual
    BY <1>t DEF Gathered
  <2> QED
    BY <1>1, <1>2, <2>1, <2>2
<1>4. WellListed(outcome'.disks)
  BY <1>1, <1>2
<1>5. \A n \in Listed' : n \in Targets /\ There(n)
  BY <1>t, <1>3 DEF Gathered, Targets
<1>6. \A n \in Targets : Attached(n) /\ n \notin moved => n \in Listed'
  BY <1>3 DEF Gathered, Targets
<1>7. Delivered'
  <2>1. WellListed(outcome.disks)'
    BY <1>4 DEF WellListed, WellDisk
  <2> QED
    BY <1>5, <1>6, <2>1, RestKeeps DEF Delivered
<1>8. Gathered'
  BY DEF Gathered, NamesOf, DistinctNames, NoName
<1>9. GatheredParts'
  BY DEF GatheredParts, DistinctNumbers, Numbers, InDirectory
<1>10. Reasons'
  BY RestKeeps DEF Reasons, InDirectory
<1> QED
  BY <1>7, <1>8, <1>9, <1>10

-----------------------------------------------------------------------------
(* The theorems. *)

LEMMA InitSafety == Init => WalkInv
<1> SUFFICES ASSUME Init PROVE WalkInv
  OBVIOUS
<1>1. TypeInv
  BY InitTypes
<1>2. Gathered
  BY DEF Init, Gathered, NamesOf, DistinctNames, NoName
<1>3. GatheredParts
  BY DEF Init, GatheredParts, DistinctNumbers, Numbers, InDirectory
<1>4. Reasons
  BY DEF Init, Reasons, NoOutcome, InDirectory
<1>5. Delivered
  BY DEF Init, Delivered, NoOutcome
<1> QED
  BY <1>1, <1>2, <1>3, <1>4, <1>5 DEF WalkInv

LEMMA StepSafety == WalkInv /\ [Next]_vars => WalkInv'
<1> SUFFICES ASSUME WalkInv, [Next]_vars PROVE WalkInv'
  OBVIOUS
<1>t. ASSUME Call \/ Walk
      PROVE  TypeInv'
  BY <1>t, WalkKeepsTypes DEF WalkInv
<1>1. CASE Kernel
  BY <1>1, KernelKeepsSafety
<1>2. CASE Call
  BY <1>2, <1>t, CallKeepsSafety DEF WalkInv
<1>3. CASE Walk
  BY <1>3, <1>t, OuterKeepsSafety, InnerKeepsSafety, PushKeepsSafety,
     ReadMountsKeepsSafety DEF WalkInv, Walk
<1>4. CASE UNCHANGED vars
  <2> USE <1>4 DEF vars, kernel, history, walk
  <2>1. TypeInv'
    BY StutterTypes DEF WalkInv
  <2>2. Gathered'
    BY RestKeeps DEF WalkInv, Gathered, NamesOf, DistinctNames
  <2>3. GatheredParts'
    BY DEF WalkInv, GatheredParts, DistinctNumbers, Numbers, InDirectory
  <2>4. Reasons'
    BY DEF WalkInv, Reasons, InDirectory
  <2>5. Listed' = Listed
    BY DEF Listed
  <2>6. Delivered'
    BY <2>5, RestKeeps DEF WalkInv, Delivered, WellListed, WellDisk
  <2> QED
    BY <2>1, <2>2, <2>3, <2>4, <2>6 DEF WalkInv
<1> QED
  BY <1>1, <1>2, <1>3, <1>4 DEF Next

\* At every step the walk has gathered exactly the disks among the names its
\* directory stream yielded, each of them there or gone since the call began
\* (linux.rs:28-63).
THEOREM WalkInvariant == Spec => []WalkInv
BY InitSafety, StepSafety, PTL DEF Spec

\* Every list is in the documented order (sysfs.rs:102 and 124, lib.rs:112).
THEOREM ListsInOrder == Spec => []OnDiskOrder
<1>1. WalkInv => OnDiskOrder
  BY DEF WalkInv, Delivered, WellListed, WellDisk, Returned, OnDiskOrder
<1> QED
  BY WalkInvariant, <1>1, PTL

\* No listed disk has a sector size of zero (sysfs.rs:74-81).
THEOREM SectorSizesAlwaysUsable == Spec => []SectorSizesUsable
<1>1. WalkInv => SectorSizesUsable
  BY DEF WalkInv, Delivered, WellListed, WellDisk, Returned, SectorSizesUsable
<1> QED
  BY WalkInvariant, <1>1, PTL

\* A call that fails has a reason (linux.rs:25, 35-36).
THEOREM FailuresExplained == Spec => []ErrorsExplained
<1>1. WalkInv => ErrorsExplained
  BY DEF WalkInv, Reasons, ErrorsExplained
<1> QED
  BY WalkInvariant, <1>1, PTL

-----------------------------------------------------------------------------
(* The backend implements the platform-independent promise. *)

PresentNow == {n \in Targets : Attached(n)}
StatusNow == IF Running THEN "running" ELSE outcome.status
ListedNow == IF Running THEN {} ELSE Listed

LEMMA InitPromise == Init => Promise!Init
<1> SUFFICES ASSUME Init PROVE Promise!Init
  OBVIOUS
<1>1. Listed = {}
  BY DEF Init, NoOutcome, Listed
<1> QED
  BY <1>1 DEF Init, NoOutcome, Running, Promise!Init

\* What the kernel does is Move, or nothing the promise is about.
LEMMA KernelPromise ==
  ASSUME WalkInv, Kernel
  PROVE  Promise!Move \/ UNCHANGED Promise!vars
<1>t. /\ disk \in [Names -> Media \cup {NoMedium}] /\ Targets \subseteq Names
      /\ NoMedium \notin Media
  BY MediaAssumption DEF WalkInv, TypeInv, TypeOK, KernelTypeOK, Targets
<1>r. StatusNow' = StatusNow /\ ListedNow' = ListedNow /\ sysfs' = sysfs
  BY KernelOnlyMoves DEF WalkInv, KernelMoves, StatusNow, ListedNow, Running, Listed
<1>s. ASSUME disk' = disk, moved' = moved
      PROVE  UNCHANGED Promise!vars
  <2>1. PresentNow' = PresentNow
    BY <1>s DEF PresentNow, Attached
  <2> QED
    BY <1>r, <1>s, <2>1 DEF Promise!vars, StatusNow, ListedNow, PresentNow
<1>m. ASSUME NEW n \in Names, moved' = moved \cup {n},
             PresentNow' = IF n \notin Targets THEN PresentNow
                           ELSE IF n \in PresentNow THEN PresentNow \ {n}
                           ELSE PresentNow \cup {n}
      PROVE  Promise!Move \/ UNCHANGED Promise!vars
  <2>1. CASE n \in Targets
    <3>1. (moved \cap Targets)' = (moved \cap Targets) \cup {n}
      BY <1>m, <2>1 DEF Targets
    <3> QED
      BY <1>r, <1>m, <2>1, <3>1 DEF Promise!Move, StatusNow, ListedNow, PresentNow
  <2>2. CASE n \notin Targets
    <3>1. (moved \cap Targets)' = moved \cap Targets
      BY <1>m, <2>2 DEF Targets
    <3> QED
      BY <1>r, <1>m, <2>2, <3>1 DEF Promise!vars, StatusNow, ListedNow, PresentNow
  <2> QED
    BY <2>1, <2>2
<1>1. ASSUME NEW n \in Names, NEW m \in Media, Attach(n, m)
      PROVE  Promise!Move \/ UNCHANGED Promise!vars
  <2>1. /\ disk' = [disk EXCEPT ![n] = m] /\ m # NoMedium /\ disk[n] = NoMedium
        /\ moved' = moved \cup {n}
    BY <1>t, <1>1 DEF Attach, Attached
  <2>2. PresentNow' = IF n \notin Targets THEN PresentNow ELSE PresentNow \cup {n}
    BY <1>t, <2>1 DEF PresentNow, Attached, Targets
  <2>3. n \notin PresentNow
    BY <2>1 DEF PresentNow, Attached
  <2> QED
    BY <1>m, <2>1, <2>2, <2>3
<1>2. ASSUME NEW n \in Names, Detach(n)
      PROVE  Promise!Move \/ UNCHANGED Promise!vars
  <2>1. /\ disk' = [disk EXCEPT ![n] = NoMedium] /\ disk[n] # NoMedium
        /\ moved' = moved \cup {n}
    BY <1>2 DEF Detach, Attached
  <2>2. PresentNow' = IF n \notin Targets THEN PresentNow ELSE PresentNow \ {n}
    BY <1>t, <2>1 DEF PresentNow, Attached, Targets
  <2>3. n \in Targets => n \in PresentNow
    BY <2>1 DEF PresentNow, Attached
  <2> QED
    BY <1>m, <2>1, <2>2, <2>3
<1>3. ASSUME NEW n \in Names, Attached(n), NEW t \in Layouts[disk[n]], Repartition(n, t)
      PROVE  UNCHANGED Promise!vars
  BY <1>3, <1>s DEF Repartition
<1>4. ASSUME NEW n \in Names, NEW k \in {Whole} \cup PartNos,
             NEW src \in {"kernel", "alias"}, NEW pt \in MountPoints, Mount(n, k, src, pt)
      PROVE  UNCHANGED Promise!vars
  BY <1>4, <1>s DEF Mount
<1>5. ASSUME NEW i \in 1 .. MaxMounts, Unmount(i)
      PROVE  UNCHANGED Promise!vars
  BY <1>5, <1>s DEF Unmount
<1> QED
  BY <1>1, <1>2, <1>3, <1>4, <1>5 DEF Kernel

LEMMA CallPromise ==
  ASSUME WalkInv, Call
  PROVE  Promise!Begin
<1>1. pc = "idle" /\ outcome.status \in {"none", "ok", "err"}
  BY DEF Call, WalkInv, TypeInv, TypeOK, WalkTypeOK
<1>2. ~Running /\ Running'
  BY DEF Call, Running
<1>3. PresentNow' = PresentNow
  BY DEF Call, kernel, PresentNow, Attached
<1> QED
  BY <1>1, <1>2, <1>3 DEF Call, kernel, Promise!Begin, PresentNow

\* A step of the walk that does not end the call is invisible; one that does
\* fails for a reason, or delivers what the promise asks for.
LEMMA WalkPromise ==
  ASSUME WalkInv, WalkInv', Walk
  PROVE  Promise!Succeed \/ Promise!Fail \/ UNCHANGED Promise!vars
<1>1. Running /\ UNCHANGED <<kernel, history>>
  BY DEF Running, Walk, Unreadable, SkipVirtual, TakeEntry, OpenDisk, NextSub, After, PassOver, SubFails,
         Probe, ReadPartSize, ReadPartStart, EndSub, ReadAttr, PushDisk, EndDir, ReadMounts
<1>2. PresentNow' = PresentNow /\ sysfs' = sysfs /\ moved' = moved
  BY <1>1, RestKeeps DEF PresentNow
<1>3. CASE Running'
  BY <1>1, <1>2, <1>3 DEF Promise!vars, PresentNow
<1>4. CASE Propagate
  <2>1. ~Running' /\ outcome' = [status |-> "err", disks |-> <<>>]
    BY <1>4 DEF Propagate, Return, DropLocals, Running
  <2>2. ~sysfs \/ moved \cap Targets # {}
    BY <1>2, <2>1 DEF WalkInv, Reasons
  <2>3. Listed' = {}
    BY <2>1 DEF Listed
  <2> QED
    BY <1>1, <1>2, <2>1, <2>2, <2>3 DEF Promise!Fail, PresentNow
<1>5. CASE ReadMounts
  <2>1. ~Running' /\ outcome'.status = "ok" /\ sysfs
    BY <1>5 DEF ReadMounts, Return, DropLocals, Running, WalkInv, Reasons
  <2>2. /\ \A n \in Listed' : n \in Targets /\ There(n)
        /\ \A n \in Targets : Attached(n) /\ n \notin moved => n \in Listed'
    BY <1>1, <2>1, RestKeeps DEF WalkInv, Delivered
  <2>3. Listed' \subseteq PresentNow \cup (moved \cap Targets)
    BY <2>2 DEF PresentNow, There
  <2>4. PresentNow \ (moved \cap Targets) \subseteq Listed'
    BY <2>2 DEF PresentNow
  <2> QED
    BY <1>1, <1>2, <2>1, <2>3, <2>4 DEF Promise!Succeed, PresentNow
<1>6. Running' \/ Propagate \/ ReadMounts
  BY DEF Running, Walk, Unreadable, SkipVirtual, TakeEntry, OpenDisk, NextSub, After, PassOver, SubFails,
         Probe, ReadPartSize, ReadPartStart, EndSub, ReadAttr, PushDisk, EndDir
<1> QED
  BY <1>3, <1>4, <1>5, <1>6

\* Whatever disks come and go during a call, a call of the Linux backend does
\* what `enumerate()` promises: it lists every disk that was there throughout
\* and no disk that never was, or it fails and can say why (lib.rs:152-177).
THEOREM LinuxImplementsPromise == Spec => ImplementsPromise
<1>1. WalkInv /\ WalkInv' /\ [Next]_vars => [Promise!Next]_(Promise!vars)
  <2> SUFFICES ASSUME WalkInv, WalkInv', [Next]_vars
               PROVE  Promise!Next \/ UNCHANGED Promise!vars
    OBVIOUS
  <2>1. CASE UNCHANGED vars
    BY <2>1 DEF vars, kernel, history, walk, Promise!vars, Attached, Running, Listed
  <2> QED
    BY <2>1, KernelPromise, CallPromise, WalkPromise DEF Next, Promise!Next
<1> QED
  BY InitPromise, WalkInvariant, <1>1, PTL DEF Spec, ImplementsPromise, Promise!Spec

-----------------------------------------------------------------------------
(* Exactness.  The walk reads a disk in many steps, so the invariant says   *)
(* of every local what it has to be while its disk holds still: each string *)
(* read so far is the file's, the stream of the disk's directory yields     *)
(* exactly the children there are, and every partition the stream has       *)
(* yielded is either pushed or the one at hand.                             *)

\* No medium is behind two names.
NamedOnce == \A n, o \in Names : disk[n] = disk[o] /\ Attached(n) => n = o

\* Strings and partitions read are what the disk's files say.
AttrsTrue(n, as) == \A j \in DOMAIN as : as[j] = AttrFile(n, Attributes[j])
PartTrue(n, p) == /\ p.no \in PartsOf(n)
                  /\ p.size = PartFile(n, p.no, "size")
                  /\ p.start = PartFile(n, p.no, "start")
PartsTrue(n, ps) == \A j \in DOMAIN ps : PartTrue(n, ps[j])
TableTrue(n, ps) == PartsTrue(n, ps) /\ PartsOf(n) \subseteq Numbers(ps)

\* The disk whose directory is read.
FoundTrue ==
  /\ PartsTrue(cur, parts)
  /\ sub.must = Children(cur) /\ sub.may = Children(cur)
  /\ pc = "sub" => sub.seen \subseteq Numbers(parts) \cup {Queue}
  /\ pc # "sub" => /\ sub.seen \subseteq Numbers(parts) \cup {Queue, part.no}
                   /\ part.no \in PartsOf(cur)
  /\ pc = "pstart" => part.size = PartFile(cur, part.no, "size")
DirectoryTrue == pc \in InDirectory /\ Still(cur) => FoundTrue

\* The disk whose attributes are read, and those that are complete.  A table
\* that is reread changes none of the attributes.
AttributesTrue ==
  pc = "attrs" => /\ cur \notin moved => AttrsTrue(cur, attrs)
                  /\ Still(cur) => TableTrue(cur, parts)
DiskTrue(d) == /\ d.name \notin moved => AttrsTrue(d.name, d.attrs)
               /\ Still(d.name) => TableTrue(d.name, d.parts)
RawTrue == \A d \in {raw[j] : j \in DOMAIN raw} : DiskTrue(d)

\* What was returned.
Reported(d) == /\ d.name \notin moved => ReportsGeometry(d)
               /\ Still(d.name) => ReportsTable(d)
ReportTrue == outcome.status = "ok" =>
                \A d \in {outcome.disks[j] : j \in DOMAIN outcome.disks} : Reported(d)

ExactInv == /\ WalkInv /\ NamedOnce
            /\ DirectoryTrue /\ AttributesTrue /\ RawTrue /\ ReportTrue

-----------------------------------------------------------------------------
(* What sysfs::build makes of a disk that was read faithfully. *)

LEMMA GeometryExact ==
  ASSUME NEW d \in RawDisk, NEW lines \in Seq(ReadLine), AttrsTrue(d.name, d.attrs)
  PROVE  ReportsGeometry(BuildDisk(d, lines))
<1> DEFINE built == BuildDisk(d, lines)
           a == d.attrs
<1>1. d.name \in Names /\ a \in Seq(File) /\ Len(a) = 6 /\ DOMAIN a = 1 .. 6
  BY DEF RawDisk, AllAttributes, Attributes
<1>2. /\ a[1] = AttrFile(d.name, "size") /\ a[2] = AttrFile(d.name, "removable")
      /\ a[3] = AttrFile(d.name, "ro") /\ a[4] = AttrFile(d.name, "logical")
      /\ a[5] = AttrFile(d.name, "physical") /\ a[6] = AttrFile(d.name, "model")
  BY <1>1 DEF AttrsTrue, Attributes
<1>3. Parse(a[4]) \in Nat /\ Parse(a[5]) \in Nat
  BY <1>1, ParseType
<1>4. \A x \in 1 .. U32 - 1 : AsU32(x) = x
  BY WordAssumption DEF AsU32
<1>5. /\ Parse(a[4]) \in 1 .. U32 - 1 => Logical(a) = Parse(a[4])
      /\ Parse(a[5]) \in 1 .. U32 - 1 => Physical(a) = Parse(a[5])
  BY <1>3, <1>4 DEF Logical, Physical, OrDefault
<1>6. /\ built.name = d.name
      /\ built.size = Parse(a[1]) * SYSFS_SECTOR
      /\ built.removable = (Parse(a[2]) = 1)
      /\ built.read_only = (Parse(a[3]) = 1)
      /\ built.logical = Logical(a) /\ built.physical = Physical(a)
      /\ built.synthesized = (d.name \in Mapped)
      /\ built.model = (IF a[6] = Blank THEN NoFile ELSE a[6])
  BY DEF BuildDisk
<1> QED
  BY <1>2, <1>5, <1>6 DEF ReportsGeometry, Says

\* A sequence without repetitions has as many elements as places.
LEMMA DistinctCounted ==
  ASSUME NEW ps \in Seq(RawPart), DistinctNumbers(ps)
  PROVE  Len(ps) = Cardinality(Numbers(ps))
<1> DEFINE f == [j \in 1 .. Len(ps) |-> ps[j].no]
<1>1. Len(ps) \in Nat /\ DOMAIN ps = 1 .. Len(ps)
  OBVIOUS
<1>2. f \in Bijection(1 .. Len(ps), Numbers(ps))
  <2>1. f \in [1 .. Len(ps) -> Numbers(ps)]
    BY <1>1 DEF Numbers
  <2>2. \A j, l \in 1 .. Len(ps) : f[j] = f[l] => j = l
    BY <1>1 DEF DistinctNumbers
  <2>3. \A x \in Numbers(ps) : \E j \in 1 .. Len(ps) : f[j] = x
    BY <1>1 DEF Numbers
  <2> QED
    BY <2>1, <2>2, <2>3 DEF Bijection, Injection, Surjection, IsInjective
<1>3. ExistsBijection(1 .. Len(ps), Numbers(ps))
  BY <1>2 DEF ExistsBijection
<1>4. IsFiniteSet(1 .. Len(ps)) /\ Cardinality(1 .. Len(ps)) = Len(ps)
  BY <1>1, FS_Interval
<1>5. Cardinality(Numbers(ps)) = Cardinality(1 .. Len(ps))
  BY <1>3, <1>4, FS_Bijection
<1> QED
  BY <1>4, <1>5

LEMMA TableExact ==
  ASSUME NEW d \in RawDisk, NEW lines \in Seq(ReadLine), DistinctNumbers(d.parts),
         TableTrue(d.name, d.parts)
  PROVE  ReportsTable(BuildDisk(d, lines))
<1> DEFINE n == d.name
           ps == d.parts
           rows == [j \in DOMAIN ps |-> BuildPart(n, ps[j], lines)]
           key == [j \in DOMAIN rows |-> rows[j].start]
           sorted == SortedBy(rows, key)
           Row(p) == [no |-> p.dev[2], start |-> p.start, size |-> p.size]
           Says3(k) == [no |-> k, start |-> Parse(TableOf(n)[k].start) * SYSFS_SECTOR,
                        size |-> Parse(TableOf(n)[k].size) * SYSFS_SECTOR]
<1>1. n \in Names /\ ps \in Seq(RawPart) /\ Len(ps) \in Nat /\ DOMAIN ps = 1 .. Len(ps)
  BY DEF RawDisk
<1>2. rows \in Seq(Partition) /\ Len(rows) = Len(ps) /\ KeysOf(key, Len(rows))
  BY <1>1, PartitionsType, ZenonT(40)
<1>3. Numbers(ps) = PartsOf(n)
  BY DEF TableTrue, PartsTrue, PartTrue, Numbers
<1>4. \A j \in 1 .. Len(ps) : Row(rows[j]) = Says3(ps[j].no)
  BY <1>1 DEF BuildPart, TableTrue, PartsTrue, PartTrue, PartFile
<1>5. /\ BuildDisk(d, lines).partitions = sorted /\ BuildDisk(d, lines).name = n
      /\ DOMAIN sorted = 1 .. Len(ps) /\ Len(sorted) = Len(ps)
  <2>1. BuildDisk(d, lines).partitions = sorted /\ BuildDisk(d, lines).name = n
    BY DEF BuildDisk, ByStart
  <2>2. DOMAIN rows = 1 .. Len(ps)
    BY <1>1
  <2>3. DOMAIN sorted = 1 .. Len(ps)
    BY <2>2 DEF SortedBy
  <2>4. Len(sorted) = Len(ps)
    <3> HIDE DEF rows, key
    <3> QED BY <1>2, SortedByType
  <2> QED
    BY <2>1, <2>3, <2>4
<1>6. /\ \A j \in 1 .. Len(ps) : /\ Rank(key, j) \in 1 .. Len(ps)
                                 /\ sorted[Rank(key, j)] = rows[j]
      /\ \A r \in 1 .. Len(ps) : /\ AtRank(key, r) \in 1 .. Len(ps)
                                 /\ sorted[r] = rows[AtRank(key, r)]
  <2> HIDE DEF rows, key
  <2> QED
    BY <1>2, SortedByPermutes
<1> HIDE DEF rows, key, sorted
<1>7. {Row(p) : p \in {sorted[r] : r \in DOMAIN sorted}} = {Says3(k) : k \in PartsOf(n)}
  <2>1. ASSUME NEW r \in 1 .. Len(ps)
        PROVE  \E k \in PartsOf(n) : Row(sorted[r]) = Says3(k)
    <3>1. PICK j \in 1 .. Len(ps) : sorted[r] = rows[j]
      BY <1>6
    <3>2. ps[j].no \in PartsOf(n)
      BY <1>1, <1>3 DEF Numbers
    <3>3. Row(sorted[r]) = Says3(ps[j].no)
      BY <1>4, <3>1
    <3> HIDE DEF Row, Says3
    <3> QED
      BY <3>2, <3>3
  <2>2. ASSUME NEW k \in PartsOf(n)
        PROVE  \E r \in 1 .. Len(ps) : Row(sorted[r]) = Says3(k)
    <3>1. PICK j \in 1 .. Len(ps) : ps[j].no = k
      BY <1>1, <1>3 DEF Numbers
    <3>2. Row(sorted[Rank(key, j)]) = Says3(k)
      BY <1>4, <1>6, <3>1
    <3> QED
      BY <1>6, <3>2
  <2> HIDE DEF Row, Says3
  <2> QED
    BY <1>5, <2>1, <2>2
<1>8. Len(sorted) = Cardinality(PartsOf(n))
  BY <1>1, <1>3, <1>5, DistinctCounted
<1> QED
  BY <1>5, <1>7, <1>8 DEF ReportsTable, TableSays

\* Every element of the list is what one of the raw disks is built to.
LEMMA BuildMembers ==
  ASSUME NEW ds \in Seq(RawDisk), NEW lines \in Seq(ReadLine)
  PROVE  \A r \in DOMAIN Build(ds, lines) :
           \E j \in DOMAIN ds : Build(ds, lines)[r] = BuildDisk(ds[j], lines)
<1> DEFINE built == [j \in DOMAIN ds |-> BuildDisk(ds[j], lines)]
           key == [j \in DOMAIN ds |-> ds[j].name]
<1>1. Len(ds) \in Nat /\ DOMAIN ds = 1 .. Len(ds) /\ \A j \in 1 .. Len(ds) : ds[j] \in RawDisk
  OBVIOUS
<1>2. built \in Seq(PhysicalDisk) /\ Len(built) = Len(ds)
  BY <1>1, BuildDiskType
<1>3. KeysOf(key, Len(ds))
  BY BuildType
<1>4. \A r \in 1 .. Len(ds) : /\ AtRank(key, r) \in 1 .. Len(ds)
                              /\ SortedBy(built, key)[r] = built[AtRank(key, r)]
  <2> HIDE DEF built, key
  <2> QED
    BY <1>2, <1>3, SortedByPermutes
<1>5. DOMAIN SortedBy(built, key) = 1 .. Len(ds) /\ Build(ds, lines) = SortedBy(built, key)
  BY <1>1 DEF SortedBy, Build
<1> QED
  BY <1>1, <1>4, <1>5

-----------------------------------------------------------------------------
(* The kernel's steps leave the files of every other disk alone. *)

\* A disk that has not moved keeps its attributes, and one that still holds
\* still has held still and keeps all its files.
FilesKept ==
  /\ \A n \in Names : n \notin moved' =>
       n \notin moved /\ \A a : AttrFile(n, a)' = AttrFile(n, a)
  /\ \A n \in Names : Still(n)' =>
       /\ Still(n)
       /\ PartsOf(n)' = PartsOf(n)
       /\ \A k, f : PartFile(n, k, f)' = PartFile(n, k, f)
       /\ TableSays(n)' = TableSays(n)

\* ... because its medium and its table are the same.
SameMedia ==
  \A n \in Names : /\ n \notin moved' => n \notin moved /\ disk'[n] = disk[n]
                   /\ Still(n)' => /\ Still(n) /\ disk'[n] = disk[n]
                                   /\ Attached(n) => table'[disk[n]] = table[disk[n]]

LEMMA SameMedium ==
  ASSUME SameMedia
  PROVE  FilesKept
<1>1. ASSUME NEW n \in Names, n \notin moved'
      PROVE  n \notin moved /\ \A a : AttrFile(n, a)' = AttrFile(n, a)
  BY <1>1 DEF SameMedia, AttrFile, Attached
<1>2. ASSUME NEW n \in Names, Still(n)'
      PROVE  /\ Still(n)
             /\ PartsOf(n)' = PartsOf(n)
             /\ \A k, f : PartFile(n, k, f)' = PartFile(n, k, f)
             /\ TableSays(n)' = TableSays(n)
  <2>1. /\ Still(n) /\ Attached(n)' = Attached(n) /\ disk'[n] = disk[n]
        /\ Attached(n) => table'[disk[n]] = table[disk[n]]
    BY <1>2 DEF SameMedia, Attached
  <2>2. Attached(n) => TableOf(n)' = TableOf(n)
    BY <2>1 DEF TableOf
  <2>3. PartsOf(n)' = PartsOf(n)
    BY <2>1, <2>2 DEF PartsOf
  <2>4. \A k, f : PartFile(n, k, f)' = PartFile(n, k, f)
    BY <2>1, <2>2, <2>3 DEF PartFile, PartsOf
  <2>5. TableSays(n)' = TableSays(n)
    BY <2>1, <2>2, <2>3 DEF TableSays, PartsOf
  <2> QED
    BY <2>1, <2>3, <2>4, <2>5
<1> QED
  BY <1>1, <1>2 DEF FilesKept

LEMMA KernelKeepsFiles ==
  ASSUME TypeInv, NamedOnce, Kernel
  PROVE  NamedOnce' /\ SameMedia /\ FilesKept /\ (cur \in Names /\ Still(cur)' => sub' = sub)
<1>t. KernelTypeOK /\ HistoryTypeOK /\ WalkTypeOK
  BY DEF TypeInv, TypeOK
<1> DEFINE Stays == cur \in Names /\ Still(cur)' => sub' = sub
<1>1. ASSUME NEW n \in Names, NEW m \in Media, Attach(n, m)
      PROVE  NamedOnce' /\ SameMedia /\ Stays
  BY <1>t, <1>1 DEF SameMedia, Attach, walk, NamedOnce, Attached, Still, KernelTypeOK, HistoryTypeOK
<1>2. ASSUME NEW n \in Names, Detach(n)
      PROVE  NamedOnce' /\ SameMedia /\ Stays
  BY <1>t, <1>2 DEF SameMedia, Detach, NamedOnce, Attached, Still, KernelTypeOK, HistoryTypeOK
<1>3. ASSUME NEW n \in Names, Attached(n), NEW t \in Layouts[disk[n]], Repartition(n, t)
      PROVE  NamedOnce' /\ SameMedia /\ Stays
  <2>1. \A o \in Names : o # n /\ Attached(o) => disk[o] # disk[n]
    BY <1>3 DEF NamedOnce, Attached
  <2>2. disk' = disk /\ moved' = moved /\ retabled' = retabled \cup {n} /\ cur' = cur
        /\ table' = [table EXCEPT ![disk[n]] = t]
    BY <1>3 DEF Repartition
  <2>3. SameMedia
    BY <1>t, <2>1, <2>2 DEF SameMedia, Still, KernelTypeOK, Attached
  <2>4. NamedOnce'
    BY <2>2 DEF NamedOnce, Attached
  <2>5. Stays
    BY <1>3, <2>2 DEF Repartition, Still
  <2> QED
    BY <2>3, <2>4, <2>5
<1>4. ASSUME NEW n \in Names, NEW k \in {Whole} \cup PartNos,
             NEW src \in {"kernel", "alias"}, NEW pt \in MountPoints, Mount(n, k, src, pt)
      PROVE  NamedOnce' /\ SameMedia /\ Stays
  BY <1>4 DEF SameMedia, Mount, walk, NamedOnce, Attached, Still
<1>5. ASSUME NEW i \in 1 .. MaxMounts, Unmount(i)
      PROVE  NamedOnce' /\ SameMedia /\ Stays
  BY <1>5 DEF SameMedia, Unmount, walk, NamedOnce, Attached, Still
<1>6. NamedOnce' /\ SameMedia /\ Stays
  BY <1>1, <1>2, <1>3, <1>4, <1>5 DEF Kernel
<1> QED
  BY <1>6, SameMedium

\* With the kernel at rest, every file stays as it is.
LEMMA RestSame ==
  ASSUME UNCHANGED <<kernel, history>>
  PROVE  /\ NamedOnce' = NamedOnce
         /\ \A n : /\ Still(n)' = Still(n) /\ PartsOf(n)' = PartsOf(n)
                   /\ Children(n)' = Children(n)
                   /\ \A as : AttrsTrue(n, as)' = AttrsTrue(n, as)
                   /\ \A p : PartTrue(n, p)' = PartTrue(n, p)
                   /\ \A ps : /\ PartsTrue(n, ps)' = PartsTrue(n, ps)
                              /\ TableTrue(n, ps)' = TableTrue(n, ps)
                   /\ \A k, f : PartFile(n, k, f)' = PartFile(n, k, f)
         /\ \A d : Reported(d)' = Reported(d) /\ DiskTrue(d)' = DiskTrue(d)
<1> USE DEF kernel, history
<1>1. \A n : /\ Still(n)' = Still(n) /\ PartsOf(n)' = PartsOf(n)
             /\ \A a : AttrFile(n, a)' = AttrFile(n, a)
             /\ \A k, f : PartFile(n, k, f)' = PartFile(n, k, f)
             /\ TableSays(n)' = TableSays(n)
  BY DEF Still, PartsOf, Attached, TableOf, AttrFile, PartFile, TableSays
<1>2. NamedOnce' = NamedOnce
  BY DEF NamedOnce, Attached
<1>3. \A n : \A ps : PartsTrue(n, ps)' = PartsTrue(n, ps)
  BY <1>1 DEF PartTrue, PartsTrue
<1>4. \A d : Reported(d)' = Reported(d)
  BY <1>1 DEF Reported, ReportsGeometry, ReportsTable, Says
<1> QED
  BY <1>1, <1>2, <1>3, <1>4
     DEF Children, AttrsTrue, PartTrue, TableTrue, DiskTrue, Numbers

\* What is known of one disk carries over a step that changes none of its
\* files.
LEMMA AttrsKept ==
  ASSUME FilesKept, NEW n \in Names, n \notin moved'
  PROVE  n \notin moved /\ \A as : AttrsTrue(n, as)' = AttrsTrue(n, as)
BY DEF FilesKept, AttrsTrue

LEMMA TrueKept ==
  ASSUME FilesKept, NEW n \in Names, Still(n)'
  PROVE  /\ Still(n) /\ Children(n)' = Children(n)
         /\ \A p : PartTrue(n, p)' = PartTrue(n, p)
         /\ \A ps : /\ PartsTrue(n, ps)' = PartsTrue(n, ps)
                    /\ TableTrue(n, ps)' = TableTrue(n, ps)
BY DEF FilesKept, Children, PartTrue, PartsTrue, TableTrue, Numbers

LEMMA DiskKept ==
  ASSUME FilesKept, NEW d, d.name \in Names, DiskTrue(d)
  PROVE  DiskTrue(d)'
BY AttrsKept, TrueKept DEF DiskTrue

LEMMA ReportKept ==
  ASSUME FilesKept, NEW d \in PhysicalDisk, Reported(d)
  PROVE  Reported(d)'
<1>1. d.name \in Names
  BY DEF PhysicalDisk
<1>2. ASSUME d.name \notin moved'
      PROVE  ReportsGeometry(d)'
  <2>1. /\ ReportsGeometry(d) /\ \A a : Says(d.name, a)' = Says(d.name, a)
        /\ AttrFile(d.name, "model")' = AttrFile(d.name, "model")
    BY <1>1, <1>2 DEF FilesKept, Reported, Says
  <2> QED
    BY <2>1 DEF ReportsGeometry
<1>3. ASSUME Still(d.name)'
      PROVE  ReportsTable(d)'
  <2>1. /\ ReportsTable(d)
        /\ TableSays(d.name)' = TableSays(d.name) /\ PartsOf(d.name)' = PartsOf(d.name)
    BY <1>1, <1>3 DEF FilesKept, Reported
  <2> QED
    BY <2>1 DEF ReportsTable
<1> QED
  BY <1>2, <1>3 DEF Reported

LEMMA KernelKeepsExact ==
  ASSUME ExactInv, Kernel
  PROVE  ExactInv'
<1> USE DEF ExactInv
<1>1. WalkInv'
  BY KernelKeepsSafety
<1>2. TypeInv /\ KernelMoves
  BY KernelOnlyMoves DEF WalkInv
<1>3. NamedOnce' /\ FilesKept /\ (cur \in Names /\ Still(cur)' => sub' = sub)
  BY <1>2, KernelKeepsFiles
<1>4. UNCHANGED <<pc, seen, cur, part, parts, attrs, raw, outcome>>
  BY <1>2 DEF KernelMoves
<1>c. pc \in InDirectory \cup {"attrs"} => cur \in Names
  BY <1>2 DEF TypeInv, Place, Targets, InDirectory
<1>5. DirectoryTrue'
  <2> SUFFICES ASSUME pc \in InDirectory, Still(cur)'
               PROVE  DirectoryTrue'
    BY <1>4 DEF DirectoryTrue, FoundTrue
  <2>1. cur \in Names /\ sub' = sub
    BY <1>3, <1>4, <1>c
  <2>2. /\ Still(cur) /\ Children(cur)' = Children(cur)
        /\ PartsTrue(cur, parts)' = PartsTrue(cur, parts)
        /\ PartsOf(cur)' = PartsOf(cur)
        /\ PartFile(cur, part.no, "size")' = PartFile(cur, part.no, "size")
    BY <1>3, <1>4, <2>1, TrueKept DEF FilesKept
  <2>3. Numbers(parts)' = Numbers(parts)
    BY <1>4 DEF Numbers
  <2> QED
    BY <1>4, <2>1, <2>2, <2>3 DEF DirectoryTrue, FoundTrue
<1>6. AttributesTrue'
  <2> SUFFICES ASSUME pc = "attrs"
               PROVE  AttributesTrue'
    BY <1>4 DEF AttributesTrue
  <2>1. cur \in Names
    BY <1>c
  <2>2. ASSUME cur \notin moved'
        PROVE  cur \notin moved /\ AttrsTrue(cur, attrs)' = AttrsTrue(cur, attrs)
    BY <1>3, <1>4, <2>1, <2>2, AttrsKept
  <2>3. ASSUME Still(cur)'
        PROVE  Still(cur) /\ TableTrue(cur, parts)' = TableTrue(cur, parts)
    BY <1>3, <1>4, <2>1, <2>3, TrueKept
  <2> QED
    BY <1>4, <2>2, <2>3 DEF AttributesTrue
<1>7. RawTrue'
  <2> SUFFICES ASSUME NEW d \in {raw[j] : j \in DOMAIN raw}
               PROVE  DiskTrue(d)'
    BY <1>4 DEF RawTrue
  <2>1. raw \in Seq(RawDisk)
    BY <1>2 DEF TypeInv, TypeOK, WalkTypeOK
  <2>2. d \in RawDisk
    BY <2>1
  <2>3. d.name \in Names
    BY <2>2 DEF RawDisk
  <2> QED
    BY <1>3, <2>3, DiskKept DEF RawTrue
<1>8. ReportTrue'
  <2> SUFFICES ASSUME outcome.status = "ok",
                      NEW d \in {outcome.disks[j] : j \in DOMAIN outcome.disks}
               PROVE  Reported(d)'
    BY <1>4 DEF ReportTrue
  <2>1. outcome.disks \in Seq(PhysicalDisk)
    BY <1>2 DEF TypeInv, TypeOK, WalkTypeOK
  <2>2. d \in PhysicalDisk /\ Reported(d)
    BY <2>1 DEF ReportTrue
  <2> QED
    BY <1>3, <2>2, ReportKept
<1> QED
  BY <1>1, <1>3, <1>5, <1>6, <1>7, <1>8

-----------------------------------------------------------------------------
(* The backend's steps. *)

\* Between calls, and after a call has ended, nothing is being read.
LEMMA NothingRead ==
  ASSUME WalkInv, pc = "idle"
  PROVE  DOMAIN raw = {}
<1>1. NamesOf(raw) = {}
  BY DEF WalkInv, Gathered
<1> QED
  BY <1>1 DEF NamesOf

\* The call ends with a list, or with none.
LEMMA EndKeepsExact ==
  ASSUME ExactInv, UNCHANGED <<kernel, history>>, Propagate \/ ReadMounts
  PROVE  DirectoryTrue' /\ AttributesTrue' /\ RawTrue' /\ ReportTrue'
<1> USE DEF ExactInv, ReadMounts, Propagate, Return, DropLocals
<1>1. DirectoryTrue' /\ AttributesTrue' /\ RawTrue'
  BY DEF DirectoryTrue, AttributesTrue, RawTrue, InDirectory
<1>2. ASSUME ReadMounts
      PROVE  ReportTrue'
  <2> DEFINE list == Build(raw, ParsedMounts)
  <2>1. raw \in Seq(RawDisk) /\ ParsedMounts \in Seq(ReadLine)
    BY ParsedType DEF WalkInv, TypeInv, TypeOK, WalkTypeOK
  <2>2. outcome'.disks = list
    BY <1>2
  <2>3. ASSUME NEW d \in {list[r] : r \in DOMAIN list}
        PROVE  Reported(d)
    <3>1. PICK j \in DOMAIN raw : d = BuildDisk(raw[j], ParsedMounts)
      BY <2>1, BuildMembers
    <3>2. raw[j] \in RawDisk /\ DistinctNumbers(raw[j].parts) /\ DiskTrue(raw[j])
      BY <2>1 DEF WalkInv, GatheredParts, RawTrue
    <3>3. d.name = raw[j].name
      BY <3>1 DEF BuildDisk
    <3>4. d.name \notin moved => ReportsGeometry(d)
      BY <2>1, <3>1, <3>2, <3>3, GeometryExact DEF DiskTrue
    <3>5. Still(d.name) => ReportsTable(d)
      BY <2>1, <3>1, <3>2, <3>3, TableExact DEF DiskTrue
    <3> QED
      BY <3>4, <3>5 DEF Reported
  <2> HIDE DEF list
  <2> QED
    BY <2>2, <2>3, RestSame DEF ReportTrue
<1>3. ASSUME Propagate
      PROVE  ReportTrue'
  BY <1>3 DEF ReportTrue
<1> QED
  BY <1>1, <1>2, <1>3

\* What is complete stays as it is in every other step.
LEMMA CompleteKept ==
  ASSUME ExactInv, UNCHANGED <<kernel, history>>, UNCHANGED outcome
  PROVE  ReportTrue' /\ (UNCHANGED raw => RawTrue')
BY RestSame DEF ExactInv, ReportTrue, RawTrue

\* The outer loop.
LEMMA OuterKeepsExact ==
  ASSUME ExactInv, \/ EndDir
                   \/ OpenDisk /\ Attached(cur)
                   \/ \E n \in Names : SkipVirtual(n) \/ TakeEntry(n)
  PROVE  DirectoryTrue' /\ AttributesTrue' /\ RawTrue' /\ ReportTrue'
<1>1. UNCHANGED <<kernel, history, raw, outcome>> /\ pc' \notin {"probe", "psize", "pstart", "attrs"}
  BY DEF EndDir, OpenDisk, SkipVirtual, TakeEntry
<1>2. RawTrue' /\ ReportTrue'
  BY <1>1, CompleteKept
<1>3. AttributesTrue'
  BY <1>1 DEF AttributesTrue
<1>4. CASE pc' # "sub"
  BY <1>1, <1>2, <1>3, <1>4 DEF DirectoryTrue, InDirectory
<1>5. CASE OpenDisk /\ Attached(cur)
  <2> USE <1>5 DEF OpenDisk
  <2>1. /\ sub'.must = Children(cur) /\ sub'.may = Children(cur) /\ sub'.seen = {}
        /\ parts' = <<>> /\ cur' = cur /\ pc' = "sub"
    OBVIOUS
  <2>2. PartsTrue(cur, parts)'
    BY <2>1 DEF PartsTrue
  <2>3. Children(cur)' = Children(cur)
    BY <1>1, <2>1 DEF Children, PartsOf, Attached, TableOf, kernel
  <2>4. DirectoryTrue'
    BY <2>1, <2>2, <2>3 DEF DirectoryTrue, FoundTrue
  <2> QED
    BY <1>2, <1>3, <2>4
<1>6. pc' = "sub" => OpenDisk
  BY DEF EndDir, SkipVirtual, TakeEntry
<1> QED
  BY <1>4, <1>5, <1>6 DEF OpenDisk, EndDir, SkipVirtual, TakeEntry

\* The loop over a disk's directory, and the disk's attributes.
LEMMA InnerKeepsExact ==
  ASSUME ExactInv, \/ Probe \/ ReadPartSize \/ ReadPartStart \/ EndSub \/ ReadAttr
                   \/ \E k \in {Queue} \cup PartNos : NextSub(k)
  PROVE  DirectoryTrue' /\ AttributesTrue' /\ RawTrue' /\ ReportTrue'
<1> USE DEF ExactInv
<1>t. /\ parts \in Seq(RawPart) /\ attrs \in Seq(File)
      /\ part \in [no : PartNos \cup {0}, size : File]
      /\ sub \in [live : BOOLEAN, must : SUBSET ({Queue} \cup PartNos),
              may : SUBSET ({Queue} \cup PartNos), seen : SUBSET ({Queue} \cup PartNos)]
      /\ Queue \notin PartNos
  BY MediaAssumption DEF WalkInv, TypeInv, TypeOK, WalkTypeOK, Queue, Whole
<1>1. UNCHANGED <<kernel, history, cur, raw, outcome>>
  BY DEF Probe, PassOver, ReadPartSize, ReadPartStart, EndSub, ReadAttr, NextSub
<1>2. RawTrue' /\ ReportTrue'
  BY <1>1, CompleteKept
<1> SUFFICES DirectoryTrue' /\ AttributesTrue'
  BY <1>2
\* With the kernel and the disk at hand the same, what is true of it is.
<1>s. /\ Still(cur)' = Still(cur) /\ (cur \notin moved)' = (cur \notin moved)
      /\ PartsOf(cur)' = PartsOf(cur)
      /\ Children(cur)' = Children(cur)
      /\ UNCHANGED parts => /\ PartsTrue(cur, parts)' = PartsTrue(cur, parts)
                            /\ TableTrue(cur, parts)' = TableTrue(cur, parts)
                            /\ Numbers(parts)' = Numbers(parts)
      /\ UNCHANGED attrs => AttrsTrue(cur, attrs)' = AttrsTrue(cur, attrs)
  BY <1>1 DEF kernel, history, Still, PartsOf, Children, Attached, TableOf, PartsTrue, PartTrue,
     PartFile, TableTrue, Numbers, AttrsTrue, AttrFile
<1>p. pc \in InDirectory /\ Still(cur) => FoundTrue
  BY DEF DirectoryTrue
\* It is enough to look at disks that hold still, where the step leads.
<1>d. ASSUME pc' \in InDirectory, Still(cur) => FoundTrue'
      PROVE  DirectoryTrue' /\ AttributesTrue'
  BY <1>d, <1>s DEF DirectoryTrue, AttributesTrue, InDirectory
<1>a. ASSUME pc' = "attrs", Still(cur) => TableTrue(cur, parts)',
             cur \notin moved => AttrsTrue(cur, attrs)'
      PROVE  DirectoryTrue' /\ AttributesTrue'
  BY <1>a, <1>s DEF DirectoryTrue, AttributesTrue, InDirectory
<1>3. CASE Probe
  <2> USE <1>3 DEF Probe, PassOver
  <2>1. pc = "probe" /\ UNCHANGED <<cur, sub, part, parts>> /\ pc' \in {"psize", "sub"}
    OBVIOUS
  <2>2. ASSUME Still(cur)
        PROVE  FoundTrue'
    <3>1. FoundTrue /\ part.no \in PartsOf(cur)
      BY <1>p, <2>1, <2>2 DEF FoundTrue, InDirectory
    <3>2. pc' = "psize"
      BY <3>1
    <3> QED
      BY <1>s, <2>1, <3>1, <3>2 DEF FoundTrue
  <2> QED
    BY <1>d, <2>1, <2>2 DEF InDirectory
<1>4. CASE ReadPartSize
  <2> USE <1>4 DEF ReadPartSize
  <2>1. /\ pc = "psize" /\ pc' = "pstart" /\ UNCHANGED <<cur, sub, parts>>
        /\ part'.no = part.no /\ part'.size = PartFile(cur, part.no, "size")
    BY <1>t
  <2>2. PartFile(cur, part.no, "size")' = PartFile(cur, part.no, "size")
    BY <1>1, <2>1 DEF PartFile, PartsOf, Attached, TableOf, kernel
  <2>3. Still(cur) => FoundTrue'
    BY <1>p, <1>s, <2>1, <2>2 DEF FoundTrue, InDirectory
  <2> QED
    BY <1>d, <2>1, <2>3 DEF InDirectory
<1>5. CASE ReadPartStart
  <2> USE <1>5 DEF ReadPartStart
  <2> DEFINE p == [no |-> part.no, size |-> part.size,
                   start |-> PartFile(cur, part.no, "start")]
  <2>1. pc = "pstart" /\ pc' = "sub" /\ UNCHANGED <<cur, sub>> /\ parts' = Append(parts, p)
    OBVIOUS
  <2>2. /\ DOMAIN parts' = 1 .. Len(parts) + 1 /\ parts'[Len(parts) + 1] = p
        /\ DOMAIN parts = 1 .. Len(parts) /\ \A j \in 1 .. Len(parts) : parts'[j] = parts[j]
    <3> HIDE DEF p
    <3> QED
      BY <1>t, <2>1
  <2>3. Numbers(parts)' = Numbers(parts) \cup {part.no}
    <3>1. Len(parts) \in Nat /\ p.no = part.no
      BY <1>t
    <3> HIDE DEF p
    <3>2. \A x : (\E j \in DOMAIN parts' : x = parts'[j].no)
                  <=> (\E j \in DOMAIN parts : x = parts[j].no) \/ x = part.no
      BY <2>2, <3>1
    <3> QED
      BY <3>2 DEF Numbers
  <2>4. ASSUME Still(cur)
        PROVE  FoundTrue'
    <3>1. FoundTrue
      BY <1>p, <2>1, <2>4 DEF InDirectory
    <3>2. PartTrue(cur, p)
      BY <2>1, <3>1 DEF FoundTrue, PartTrue
    <3>3. \A j \in DOMAIN parts' : PartTrue(cur, parts'[j])
      <4> HIDE DEF p
      <4> QED
        BY <1>t, <2>2, <3>1, <3>2 DEF FoundTrue, PartsTrue
    <3>4. PartsTrue(cur, parts)'
      BY <1>1, <3>3, SMTT(60) DEF PartsTrue, PartTrue, PartFile, PartsOf, Attached, TableOf, kernel
    <3> QED
      BY <1>s, <2>1, <2>3, <3>1, <3>4 DEF FoundTrue
  <2> QED
    BY <1>d, <2>1, <2>4 DEF InDirectory
<1>6. CASE EndSub
  <2> USE <1>6 DEF EndSub
  <2>1. pc = "sub" /\ pc' = "attrs" /\ attrs' = <<>> /\ UNCHANGED <<cur, parts>>
        /\ sub.must \subseteq sub.seen
    OBVIOUS
  <2>2. AttrsTrue(cur, attrs)'
    BY <2>1 DEF AttrsTrue
  <2>3. ASSUME Still(cur)
        PROVE  TableTrue(cur, parts)'
    <3>1. FoundTrue
      BY <1>p, <2>1, <2>3 DEF InDirectory
    <3>2. PartsOf(cur) \subseteq Numbers(parts) \cup {Queue}
      BY <2>1, <3>1 DEF FoundTrue, Children
    <3>3. Queue \notin PartsOf(cur)
      BY <1>t, <2>1, FileTypes
         DEF WalkInv, TypeInv, TypeOK, Place, Targets
    <3> QED
      BY <1>s, <2>1, <3>1, <3>2, <3>3 DEF FoundTrue, TableTrue
  <2> QED
    BY <1>a, <2>1, <2>2, <2>3
<1>7. CASE ReadAttr
  <2> USE <1>7 DEF ReadAttr
  <2> DEFINE f == AttrFile(cur, Attributes[Len(attrs) + 1])
  <2>1. pc = "attrs" /\ pc' = "attrs" /\ UNCHANGED <<cur, parts>> /\ attrs' = Append(attrs, f)
    OBVIOUS
  <2>2. /\ DOMAIN attrs' = 1 .. Len(attrs) + 1 /\ attrs'[Len(attrs) + 1] = f
        /\ DOMAIN attrs = 1 .. Len(attrs) /\ \A j \in 1 .. Len(attrs) : attrs'[j] = attrs[j]
    <3> HIDE DEF f
    <3> QED
      BY <1>t, <2>1
  <2>3. Still(cur) => TableTrue(cur, parts)'
    BY <1>s, <2>1 DEF AttributesTrue
  <2>4. ASSUME cur \notin moved
        PROVE  AttrsTrue(cur, attrs)'
    <3>1. AttrsTrue(cur, attrs)
      BY <2>1, <2>4 DEF AttributesTrue
    <3>2. \A j \in DOMAIN attrs' : attrs'[j] = AttrFile(cur, Attributes[j])
      BY <1>t, <2>2, <3>1 DEF AttrsTrue
    <3> QED
      BY <1>1, <3>2 DEF AttrsTrue, AttrFile, Attached, kernel
  <2> QED
    BY <1>a, <2>1, <2>3, <2>4
<1>8. ASSUME NEW k \in {Queue} \cup PartNos, NextSub(k)
      PROVE  DirectoryTrue' /\ AttributesTrue'
  <2> USE <1>8 DEF NextSub, After
  <2>1. /\ pc = "sub" /\ UNCHANGED <<cur, parts>> /\ k \in sub.may
        /\ sub' = [sub EXCEPT !.seen = @ \cup {k}]
        /\ part'.no = k /\ pc' = IF k = Queue THEN "sub" ELSE "probe"
    BY DEF NoPart
  <2>2. sub'.seen = sub.seen \cup {k} /\ sub'.must = sub.must /\ sub'.may = sub.may
    BY <1>t, <2>1
  <2>3. Still(cur) => FoundTrue'
    BY <1>p, <1>s, <2>1, <2>2 DEF FoundTrue, InDirectory, Children
  <2> QED
    BY <1>d, <2>1, <2>3 DEF InDirectory
<1> QED
  BY <1>3, <1>4, <1>5, <1>6, <1>7, <1>8

\* The disk is complete.
LEMMA PushKeepsExact ==
  ASSUME ExactInv, PushDisk
  PROVE  DirectoryTrue' /\ AttributesTrue' /\ RawTrue' /\ ReportTrue'
<1> USE DEF ExactInv, PushDisk
<1> DEFINE as == Append(attrs, AttrFile(cur, Attributes[Len(attrs) + 1]))
           d == [name |-> cur, parts |-> parts, attrs |-> as]
<1>1. /\ UNCHANGED <<kernel, history, outcome>> /\ pc = "attrs" /\ pc' = "dir"
      /\ raw' = Append(raw, d) /\ raw \in Seq(RawDisk) /\ attrs \in Seq(File)
  BY DEF WalkInv, TypeInv, TypeOK, WalkTypeOK
<1>2. DirectoryTrue' /\ AttributesTrue' /\ ReportTrue'
  BY <1>1, CompleteKept DEF DirectoryTrue, AttributesTrue, InDirectory
<1>3. DiskTrue(d)
  <2>1. /\ cur \notin moved => AttrsTrue(cur, attrs)
        /\ Still(cur) => TableTrue(cur, parts)
    BY <1>1 DEF AttributesTrue
  <2>2. AttrsTrue(cur, attrs) => AttrsTrue(cur, as)
    BY <1>1 DEF AttrsTrue
  <2> QED
    BY <2>1, <2>2 DEF DiskTrue
<1> HIDE DEF d
<1>4. {raw'[j] : j \in DOMAIN raw'} = {raw[j] : j \in DOMAIN raw} \cup {d}
  <2>1. /\ DOMAIN raw' = 1 .. Len(raw) + 1 /\ raw'[Len(raw) + 1] = d
        /\ DOMAIN raw = 1 .. Len(raw) /\ \A j \in 1 .. Len(raw) : raw'[j] = raw[j]
        /\ Len(raw) \in Nat
    BY <1>1
  <2> QED
    BY <2>1, SMTT(30)
<1>5. \A e \in {raw[j] : j \in DOMAIN raw} \cup {d} : DiskTrue(e)
  BY <1>3 DEF RawTrue
<1>6. RawTrue'
  BY <1>1, <1>4, <1>5, RestSame DEF RawTrue
<1> QED
  BY <1>2, <1>6

LEMMA CallKeepsExact ==
  ASSUME ExactInv, Call
  PROVE  NamedOnce' /\ DirectoryTrue' /\ AttributesTrue' /\ RawTrue' /\ ReportTrue'
<1>1. DOMAIN raw = {} /\ NamedOnce
  BY NothingRead DEF ExactInv, Call
<1>2. pc' = "dir" /\ UNCHANGED <<kernel, raw>> /\ outcome'.status = "none"
  BY DEF Call, NoOutcome
<1>3. NamedOnce'
  BY <1>1, <1>2 DEF NamedOnce, Attached, kernel
<1> QED
  BY <1>1, <1>2, <1>3
     DEF DirectoryTrue, AttributesTrue, RawTrue, ReportTrue, InDirectory

LEMMA InitExact == Init => ExactInv
<1> SUFFICES ASSUME Init PROVE ExactInv
  OBVIOUS
<1>1. NamedOnce
  BY DEF Init, NamedOnce
<1>2. pc = "idle" /\ raw = <<>> /\ outcome.status = "none"
  BY DEF Init, NoOutcome
<1>3. WalkInv
  BY InitSafety
<1> QED
  BY <1>1, <1>2, <1>3
     DEF ExactInv, DirectoryTrue, AttributesTrue, RawTrue, ReportTrue, InDirectory

LEMMA WalkKeepsExact ==
  ASSUME ExactInv, Walk
  PROVE  NamedOnce' /\ DirectoryTrue' /\ AttributesTrue' /\ RawTrue' /\ ReportTrue'
<1>1. UNCHANGED <<kernel, history>>
  BY DEF Walk, Unreadable, SkipVirtual, TakeEntry, OpenDisk, NextSub, SubFails, Probe,
     ReadPartSize, ReadPartStart, EndSub, ReadAttr, PushDisk, EndDir, ReadMounts
<1>2. NamedOnce'
  BY <1>1, RestSame DEF ExactInv
<1>3. CASE Propagate \/ ReadMounts
  BY <1>1, <1>2, <1>3, EndKeepsExact
<1>4. CASE \/ EndDir
           \/ OpenDisk /\ Attached(cur)
           \/ \E n \in Names : SkipVirtual(n) \/ TakeEntry(n)
  BY <1>2, <1>4, OuterKeepsExact
<1>5. CASE \/ Probe \/ ReadPartSize \/ ReadPartStart \/ EndSub \/ ReadAttr
           \/ \E k \in {Queue} \cup PartNos : NextSub(k)
  BY <1>2, <1>5, InnerKeepsExact
<1>6. CASE PushDisk
  BY <1>2, <1>6, PushKeepsExact
<1>7. /\ Unreadable => Propagate
      /\ OpenDisk => Attached(cur) \/ Propagate
      /\ SubFails => Propagate
  BY DEF Unreadable, OpenDisk, SubFails
<1>8. \/ Propagate \/ ReadMounts
      \/ EndDir
      \/ OpenDisk /\ Attached(cur)
      \/ \E n \in Names : SkipVirtual(n) \/ TakeEntry(n)
      \/ Probe \/ ReadPartSize \/ ReadPartStart \/ EndSub \/ ReadAttr
      \/ \E k \in {Queue} \cup PartNos : NextSub(k)
      \/ PushDisk
  BY <1>7 DEF Walk
<1> QED
  BY <1>3, <1>4, <1>5, <1>6, <1>8

LEMMA StutterKeepsExact == ExactInv /\ UNCHANGED vars => ExactInv'
<1> SUFFICES ASSUME ExactInv, UNCHANGED vars PROVE ExactInv'
  OBVIOUS
<1>1. /\ UNCHANGED <<kernel, history>> /\ UNCHANGED outcome /\ UNCHANGED raw
      /\ UNCHANGED <<pc, cur, sub, part, parts, attrs>>
  BY DEF vars, walk
<1>2. WalkInv'
  BY StepSafety DEF ExactInv
<1>3. NamedOnce' /\ RawTrue' /\ ReportTrue'
  BY <1>1, RestSame, CompleteKept DEF ExactInv
<1>4. /\ Still(cur)' = Still(cur) /\ PartsOf(cur)' = PartsOf(cur)
      /\ Children(cur)' = Children(cur) /\ Numbers(parts)' = Numbers(parts)
      /\ PartsTrue(cur, parts)' = PartsTrue(cur, parts)
      /\ TableTrue(cur, parts)' = TableTrue(cur, parts)
      /\ AttrsTrue(cur, attrs)' = AttrsTrue(cur, attrs)
      /\ PartFile(cur, part.no, "size")' = PartFile(cur, part.no, "size")
  BY <1>1 DEF kernel, history, Still, PartsOf, Children, Attached, TableOf, PartsTrue, PartTrue,
     PartFile, TableTrue, Numbers, AttrsTrue, AttrFile
<1>5. DirectoryTrue'
  BY <1>1, <1>4 DEF ExactInv, DirectoryTrue, FoundTrue
<1>6. AttributesTrue'
  BY <1>1, <1>4 DEF ExactInv, AttributesTrue, history
<1> QED
  BY <1>2, <1>3, <1>5, <1>6 DEF ExactInv

LEMMA StepExact == ExactInv /\ [Next]_vars => ExactInv'
<1> SUFFICES ASSUME ExactInv, [Next]_vars PROVE ExactInv'
  OBVIOUS
<1>1. WalkInv'
  BY StepSafety DEF ExactInv
<1>2. CASE Kernel
  BY <1>2, KernelKeepsExact
<1>3. CASE Call
  BY <1>1, <1>3, CallKeepsExact DEF ExactInv
<1>4. CASE Walk
  BY <1>1, <1>4, WalkKeepsExact DEF ExactInv
<1>5. CASE UNCHANGED vars
  BY <1>5, StutterKeepsExact
<1> QED
  BY <1>2, <1>3, <1>4, <1>5 DEF Next

\* At every step, what was read of a disk that has not moved since the call
\* began is what its attribute files say, and if it has held still, also what
\* its table says, partition by partition (linux.rs:33-61).
THEOREM ExactInvariant == Spec => []ExactInv
BY InitExact, StepExact, PTL DEF Spec

\* A disk that held still while the call ran is listed if and only if it is
\* there, with its own geometry and exactly its own partitions, whatever
\* happened to other disks meanwhile (linux.rs:25-64, sysfs.rs:71-122).
THEOREM ListsStableDisksExactly == Spec => []StableDisksExact
<1>1. ExactInv => StableDisksExact
  <2> SUFFICES ASSUME ExactInv, Returned PROVE StableDisksExact
    BY DEF StableDisksExact
  <2>1. outcome.status = "ok" /\ Delivered /\ ReportTrue
    BY DEF ExactInv, WalkInv, Returned
  <2>2. \A n \in Targets : Still(n) => (n \in Listed <=> Attached(n))
    BY <2>1 DEF Delivered, There, Still
  <2>3. \A i \in DOMAIN outcome.disks : Reported(outcome.disks[i])
    BY <2>1 DEF ReportTrue
  <2> QED
    BY <2>2, <2>3 DEF StableDisksExact, Reported, Still
<1> QED
  BY ExactInvariant, <1>1, PTL

-----------------------------------------------------------------------------
(* Provenance.  Every string read so far, if it is not the default, is a    *)
(* file of something that was behind the disk's name since the call began,  *)
(* and every partition's number was in a table of its disk's.               *)

AttrSourced(n, a, f) == f # NoFile => \E h \in Held(n) : f = Geometry[h.medium][a]
FieldSourced(n, k, field, f) ==
  f # NoFile => \E h \in HeldWith(n, k) : f = h.table[k][field]
PartSourced(n, p) == /\ HeldWith(n, p.no) # {}
                     /\ FieldSourced(n, p.no, "size", p.size)
                     /\ FieldSourced(n, p.no, "start", p.start)
AttrsSourced(n, as) == \A j \in DOMAIN as : AttrSourced(n, Attributes[j], as[j])
PartsSourced(n, ps) == \A j \in DOMAIN ps : PartSourced(n, ps[j])
DiskSourced(d) == AttrsSourced(d.name, d.attrs) /\ PartsSourced(d.name, d.parts)

\* The history has whatever is behind a name, and was.
Remembered == HeldNow \subseteq held /\ \A n \in moved : Held(n) # {}

\* The partition at hand, and the disk whose directory or attributes are read.
AtHandSourced ==
  /\ pc \in {"psize", "pstart"} => HeldWith(cur, part.no) # {}
  /\ pc = "pstart" => FieldSourced(cur, part.no, "size", part.size)
ReadSourced ==
  /\ pc \in InDirectory \cup {"attrs"} => PartsSourced(cur, parts)
  /\ pc = "attrs" => AttrsSourced(cur, attrs)
RawSourced == \A d \in {raw[j] : j \in DOMAIN raw} : DiskSourced(d)
ListSourced == outcome.status = "ok" =>
                 \A d \in {outcome.disks[j] : j \in DOMAIN outcome.disks} : DiskWasThere(d)

Sourced == AtHandSourced /\ ReadSourced /\ RawSourced /\ ListSourced
SourceInv == ExactInv /\ Remembered /\ Sourced

\* What is read now is of something the history has.
LEMMA ReadsSourced ==
  ASSUME Remembered, NEW n \in Names
  PROVE  /\ \A a : AttrSourced(n, a, AttrFile(n, a))
         /\ \A k \in PartsOf(n) : HeldWith(n, k) # {}
         /\ \A k, field : FieldSourced(n, k, field, PartFile(n, k, field))
<1> DEFINE now == Behind(n, disk[n], TableOf(n))
<1>1. Attached(n) => now \in Held(n)
  BY DEF Remembered, HeldNow, Held, Behind
<1>2. now.medium = disk[n] /\ now.table = TableOf(n)
  BY DEF Behind
<1>3. \A k \in PartsOf(n) : Attached(n) /\ now \in HeldWith(n, k)
  BY <1>1, <1>2 DEF PartsOf, HeldWith
<1> HIDE DEF now
<1>4. \A a : AttrSourced(n, a, AttrFile(n, a))
  BY <1>1, <1>2 DEF AttrSourced, AttrFile
<1>5. \A k, field : FieldSourced(n, k, field, PartFile(n, k, field))
  BY <1>2, <1>3 DEF FieldSourced, PartFile
<1> QED
  BY <1>3, <1>4, <1>5

\* What is known to have a source keeps it while the history grows.
LEMMA SourcesKept ==
  ASSUME held \subseteq held'
  PROVE  /\ \A n : Held(n) # {} => Held(n)' # {}
         /\ \A n, k : HeldWith(n, k) # {} => HeldWith(n, k)' # {}
         /\ \A n, k, field, f : FieldSourced(n, k, field, f) => FieldSourced(n, k, field, f)'
         /\ \A n, as : AttrsSourced(n, as) => AttrsSourced(n, as)'
         /\ \A n, ps : PartsSourced(n, ps) => PartsSourced(n, ps)'
         /\ \A d : DiskSourced(d) => DiskSourced(d)'
         /\ \A d : DiskWasThere(d) => DiskWasThere(d)'
<1>1. \A n : Held(n) \subseteq Held(n)'
  BY DEF Held
<1>2. \A n, k : HeldWith(n, k) \subseteq HeldWith(n, k)'
  BY <1>1 DEF HeldWith
<1>3. \A n, k, field, f : FieldSourced(n, k, field, f) => FieldSourced(n, k, field, f)'
  BY <1>2 DEF FieldSourced
<1>4. \A n, as : AttrsSourced(n, as) => AttrsSourced(n, as)'
  BY <1>1 DEF AttrsSourced, AttrSourced
<1>5. \A n, ps : PartsSourced(n, ps) => PartsSourced(n, ps)'
  BY <1>2, <1>3 DEF PartsSourced, PartSourced
<1>6. \A d : DiskSourced(d) => DiskSourced(d)'
  BY <1>4, <1>5 DEF DiskSourced
<1>7. \A n, p : PartitionWasThere(n, p) => PartitionWasThere(n, p)'
  BY <1>2 DEF PartitionWasThere
<1>8. \A d : DiskWasThere(d) => DiskWasThere(d)'
  BY <1>1, <1>7 DEF DiskWasThere
<1> QED
  BY <1>1, <1>2, <1>3, <1>4, <1>5, <1>6, <1>8

\* What sysfs::build makes of a disk with a source has that source.
LEMMA BuildSourced ==
  ASSUME NEW d \in RawDisk, NEW lines \in Seq(ReadLine), DiskSourced(d), Held(d.name) # {}
  PROVE  DiskWasThere(BuildDisk(d, lines))
<1> DEFINE n == d.name
           ps == d.parts
           a == d.attrs
           rows == [j \in DOMAIN ps |-> BuildPart(n, ps[j], lines)]
           key == [j \in DOMAIN rows |-> rows[j].start]
           built == BuildDisk(d, lines)
<1>1. /\ n \in Names /\ ps \in Seq(RawPart) /\ Len(ps) \in Nat /\ DOMAIN ps = 1 .. Len(ps)
      /\ a \in Seq(File) /\ Len(a) = 6 /\ DOMAIN a = 1 .. 6
  BY DEF RawDisk, AllAttributes, Attributes
<1>2. rows \in Seq(Partition) /\ Len(rows) = Len(ps) /\ KeysOf(key, Len(rows))
  BY <1>1, PartitionsType, ZenonT(40)
<1>3. /\ built.name = n /\ built.partitions = SortedBy(rows, key)
      /\ built.size = Parse(a[1]) * SYSFS_SECTOR
      /\ built.removable = (Parse(a[2]) = 1)
      /\ built.read_only = (Parse(a[3]) = 1)
  BY DEF BuildDisk, ByStart
<1>4. \A r \in DOMAIN SortedBy(rows, key) :
        \E j \in 1 .. Len(ps) : SortedBy(rows, key)[r] = rows[j]
  <2>1. DOMAIN rows = 1 .. Len(ps)
    BY <1>1
  <2>2. /\ DOMAIN SortedBy(rows, key) = DOMAIN rows
        /\ \A r \in 1 .. Len(rows) : /\ AtRank(key, r) \in 1 .. Len(rows)
                                     /\ SortedBy(rows, key)[r] = rows[AtRank(key, r)]
    <3> HIDE DEF rows, key
    <3> QED
      BY <1>2, SortedByPermutes, SortedByMembers
  <2> QED
    BY <1>2, <2>1, <2>2
<1>5. ASSUME NEW j \in 1 .. Len(ps)
      PROVE  PartitionWasThere(n, rows[j])
  <2>1. PartSourced(n, ps[j])
    BY <1>1 DEF DiskSourced, PartsSourced
  <2>2. /\ rows[j].dev = <<n, ps[j].no>>
        /\ rows[j].start = Parse(ps[j].start) * SYSFS_SECTOR
        /\ rows[j].size = Parse(ps[j].size) * SYSFS_SECTOR
    BY <1>1 DEF BuildPart
  <2>3. 0 * SYSFS_SECTOR = 0 /\ Parse(NoFile) = 0
    BY DEF SYSFS_SECTOR, Parse
  <2> HIDE DEF rows
  <2>4. rows[j].dev[1] = n /\ rows[j].dev[2] = ps[j].no
    BY <2>2
  <2> QED
    BY <2>1, <2>2, <2>3, <2>4 DEF PartitionWasThere, PartSourced, FieldSourced
<1>6. \A r \in DOMAIN built.partitions : PartitionWasThere(n, built.partitions[r])
  <2> HIDE DEF rows, key
  <2> QED
    BY <1>3, <1>4, <1>5
<1>7. /\ AttrSourced(n, "size", a[1]) /\ AttrSourced(n, "removable", a[2])
      /\ AttrSourced(n, "ro", a[3])
  BY <1>1 DEF DiskSourced, AttrsSourced, Attributes
<1>8. Parse(NoFile) = 0 /\ 0 * SYSFS_SECTOR = 0
  BY DEF SYSFS_SECTOR, Parse
<1>9. built.size # 0 => \E h \in Held(n) :
                          built.size = Parse(Geometry[h.medium]["size"]) * SYSFS_SECTOR
  BY <1>3, <1>7, <1>8 DEF AttrSourced
<1>10. Parse(a[2]) = 1 => \E h \in Held(n) : Parse(Geometry[h.medium]["removable"]) = 1
  BY <1>7, <1>8 DEF AttrSourced
<1>11. Parse(a[3]) = 1 => \E h \in Held(n) : Parse(Geometry[h.medium]["ro"]) = 1
  BY <1>7, <1>8 DEF AttrSourced
<1>12. Held(n) # {}
  OBVIOUS
<1>13. (built.removable => Parse(a[2]) = 1) /\ (built.read_only => Parse(a[3]) = 1)
  BY DEF BuildDisk
<1> SUFFICES DiskWasThere(built)
  OBVIOUS
<1> HIDE DEF n, a, built
<1>14. /\ built.removable => \E h \in Held(n) : Parse(Geometry[h.medium]["removable"]) = 1
       /\ built.read_only => \E h \in Held(n) : Parse(Geometry[h.medium]["ro"]) = 1
  BY <1>10, <1>11, <1>13, Zenon
<1>15. built.name = n
  BY <1>3
<1> QED
  BY <1>6, <1>9, <1>12, <1>14, <1>15, Zenon DEF DiskWasThere

-----------------------------------------------------------------------------
(* The kernel's steps. *)

\* The history follows the kernel.
LEMMA KernelRemembers ==
  ASSUME TypeInv, NamedOnce, Remembered, Kernel
  PROVE  Remembered' /\ held \subseteq held'
<1>t. KernelTypeOK /\ HistoryTypeOK
  BY DEF TypeInv, TypeOK
<1>w. \A o \in Names : Attached(o) => Behind(o, disk[o], TableOf(o)) \in held
  BY DEF Remembered, HeldNow
<1>h. ASSUME held \subseteq held',
             \A o \in Names : Attached(o)' => Behind(o, disk'[o], table'[disk'[o]]) \in held',
             \A o \in moved' \ moved : \E m, t : Behind(o, m, t) \in held'
      PROVE  Remembered'
  <2>1. HeldNow' \subseteq held'
    BY <1>h DEF HeldNow, TableOf
  <2>2. ASSUME NEW o \in moved'
        PROVE  Held(o)' # {}
    <3>1. CASE o \in moved
      BY <1>h, <3>1, SourcesKept DEF Remembered
    <3>2. CASE o \notin moved
      <4>1. PICK m, t : Behind(o, m, t) \in held'
        BY <1>h, <3>2
      <4>2. Behind(o, m, t).name = o
        BY DEF Behind
      <4>3. Held(o)' = {h \in held' : h.name = o}
        BY DEF Held
      <4> QED
        BY <4>1, <4>2, <4>3
    <3> QED
      BY <3>1, <3>2
  <2> QED
    BY <2>1, <2>2 DEF Remembered
<1>1. ASSUME NEW n \in Names, NEW m \in Media, Attach(n, m)
      PROVE  Remembered' /\ held \subseteq held'
  <2>1. /\ held' = held \cup {Behind(n, m, table[m])} /\ disk' = [disk EXCEPT ![n] = m]
        /\ table' = table /\ moved' = moved \cup {n}
    BY <1>1 DEF Attach
  <2>2. \A o \in Names : Attached(o)' => Behind(o, disk'[o], table'[disk'[o]]) \in held'
    BY <1>t, <1>w, <2>1 DEF Attached, TableOf, KernelTypeOK
  <2> QED
    BY <1>h, <2>1, <2>2
<1>2. ASSUME NEW n \in Names, Detach(n)
      PROVE  Remembered' /\ held \subseteq held'
  <2>1. /\ held' = held /\ disk' = [disk EXCEPT ![n] = NoMedium] /\ Attached(n)
        /\ table' = table /\ moved' = moved \cup {n}
    BY <1>2 DEF Detach
  <2>2. \A o \in Names : Attached(o)' => Behind(o, disk'[o], table'[disk'[o]]) \in held'
    BY <1>t, <1>w, <2>1 DEF Attached, TableOf, KernelTypeOK
  <2>3. Behind(n, disk[n], TableOf(n)) \in held'
    BY <1>w, <2>1
  <2> QED
    BY <1>h, <2>1, <2>2, <2>3
<1>3. ASSUME NEW n \in Names, Attached(n), NEW t \in Layouts[disk[n]], Repartition(n, t)
      PROVE  Remembered' /\ held \subseteq held'
  <2>1. /\ held' = held \cup {Behind(n, disk[n], t)} /\ disk' = disk
        /\ table' = [table EXCEPT ![disk[n]] = t] /\ moved' = moved
    BY <1>3 DEF Repartition
  <2>2. ASSUME NEW o \in Names, Attached(o)'
        PROVE  Behind(o, disk'[o], table'[disk'[o]]) \in held'
    <3>1. disk[o] \in Media /\ disk[n] \in Media
      BY <1>t, <1>3, <2>1, <2>2 DEF KernelTypeOK, Attached
    <3>2. CASE o = n
      BY <1>t, <2>1, <3>1, <3>2 DEF KernelTypeOK
    <3>3. CASE o # n
      <4>1. disk[o] # disk[n] /\ Attached(o)
        BY <1>3, <2>1, <2>2, <3>3 DEF NamedOnce, Attached
      <4> QED
        BY <1>t, <1>w, <2>1, <3>1, <4>1 DEF TableOf, KernelTypeOK
    <3> QED
      BY <3>2, <3>3
  <2> QED
    BY <1>h, <2>1, <2>2
<1>4. ASSUME NEW n \in Names, NEW k \in {Whole} \cup PartNos,
             NEW src \in {"kernel", "alias"}, NEW pt \in MountPoints, Mount(n, k, src, pt)
      PROVE  Remembered' /\ held \subseteq held'
  BY <1>h, <1>w, <1>4 DEF Mount, Attached, TableOf
<1>5. ASSUME NEW i \in 1 .. MaxMounts, Unmount(i)
      PROVE  Remembered' /\ held \subseteq held'
  BY <1>h, <1>w, <1>5 DEF Unmount, Attached, TableOf
<1> QED
  BY <1>1, <1>2, <1>3, <1>4, <1>5 DEF Kernel

LEMMA KernelKeepsSources ==
  ASSUME SourceInv, Kernel
  PROVE  SourceInv'
<1>1. ExactInv'
  BY KernelKeepsExact DEF SourceInv
<1>2. Remembered' /\ held \subseteq held'
  BY KernelRemembers DEF SourceInv, ExactInv, WalkInv
<1>3. UNCHANGED <<pc, cur, part, parts, attrs, raw, outcome>>
  BY KernelOnlyMoves DEF SourceInv, ExactInv, WalkInv, KernelMoves
<1>4. AtHandSourced'
  BY <1>2, <1>3, SourcesKept DEF SourceInv, Sourced, AtHandSourced
<1>5. ReadSourced'
  BY <1>2, <1>3, SourcesKept DEF SourceInv, Sourced, ReadSourced
<1>6. RawSourced'
  BY <1>2, <1>3, SourcesKept DEF SourceInv, Sourced, RawSourced
<1>7. ListSourced'
  BY <1>2, <1>3, SourcesKept DEF SourceInv, Sourced, ListSourced
<1> QED
  BY <1>1, <1>2, <1>4, <1>5, <1>6, <1>7 DEF SourceInv, Sourced

-----------------------------------------------------------------------------
(* The backend's steps. *)

\* A call begins its history with what is there.
LEMMA CallRemembers ==
  ASSUME SourceInv, Call
  PROVE  Remembered' /\ Sourced'
<1>1. Remembered'
  BY DEF Call, kernel, Remembered, HeldNow, Attached, TableOf
<1>2. DOMAIN raw = {} /\ raw' = raw
  BY NothingRead DEF Call, SourceInv, ExactInv
<1>3. pc' = "dir" /\ outcome' = NoOutcome
  BY DEF Call
<1>4. RawSourced'
  BY <1>2 DEF RawSourced
<1>5. AtHandSourced' /\ ReadSourced' /\ ListSourced'
  BY <1>3 DEF AtHandSourced, ReadSourced, ListSourced, InDirectory, NoOutcome
<1> QED
  BY <1>1, <1>4, <1>5 DEF Sourced

\* With the kernel at rest, the history and every source stay as they are.
LEMMA RestRemembers ==
  ASSUME UNCHANGED <<kernel, history>>
  PROVE  /\ Remembered' = Remembered /\ held \subseteq held'
BY DEF kernel, history, Remembered, HeldNow, Held, Attached, TableOf

\* Steps that complete no disk.
LEMMA WalkKeepsSources ==
  ASSUME SourceInv, UNCHANGED <<kernel, history>>, UNCHANGED <<raw, outcome>>, AtHandSourced',
         ReadSourced'
  PROVE  Remembered' /\ Sourced'
<1>1. Remembered' /\ held \subseteq held'
  BY RestRemembers DEF SourceInv
<1>2. RawSourced' /\ ListSourced'
  BY <1>1, SourcesKept DEF SourceInv, Sourced, RawSourced, ListSourced
<1> QED
  BY <1>1, <1>2 DEF Sourced

\* The outer loop.
LEMMA OuterKeepsSources ==
  ASSUME SourceInv, \/ EndDir
                    \/ OpenDisk /\ Attached(cur)
                    \/ \E n \in Names : SkipVirtual(n) \/ TakeEntry(n)
  PROVE  Remembered' /\ Sourced'
<1>1. /\ UNCHANGED <<kernel, history>> /\ UNCHANGED <<raw, outcome>>
      /\ pc' \notin {"probe", "psize", "pstart", "attrs"}
      /\ pc' = "sub" => parts' = <<>>
  BY DEF EndDir, OpenDisk, SkipVirtual, TakeEntry
<1>2. AtHandSourced' /\ ReadSourced'
  BY <1>1 DEF AtHandSourced, ReadSourced, InDirectory, PartsSourced
<1> QED
  BY <1>1, <1>2, WalkKeepsSources

\* The loop over a disk's directory, and the disk's attributes.
LEMMA InnerKeepsSources ==
  ASSUME SourceInv, \/ Probe \/ ReadPartSize \/ ReadPartStart \/ EndSub \/ ReadAttr
                    \/ \E k \in {Queue} \cup PartNos : NextSub(k)
  PROVE  Remembered' /\ Sourced'
<1>t. /\ parts \in Seq(RawPart) /\ attrs \in Seq(File) /\ cur \in Names
      /\ part \in [no : PartNos \cup {0}, size : File]
  BY DEF Probe, ReadPartSize, ReadPartStart, EndSub, ReadAttr, NextSub, SourceInv, ExactInv,
         WalkInv, TypeInv, TypeOK, WalkTypeOK, Place, Targets
<1>1. /\ UNCHANGED <<kernel, history>> /\ UNCHANGED <<raw, outcome>> /\ cur' = cur
  BY DEF Probe, PassOver, ReadPartSize, ReadPartStart, EndSub, ReadAttr, NextSub
<1>2. held \subseteq held'
  BY <1>1, RestRemembers
<1> SUFFICES AtHandSourced' /\ ReadSourced'
  BY <1>1, WalkKeepsSources
<1>p. pc \in InDirectory \cup {"attrs"} => PartsSourced(cur, parts)
  BY DEF SourceInv, Sourced, ReadSourced
<1>r. /\ \A a : AttrSourced(cur, a, AttrFile(cur, a))
      /\ \A k \in PartsOf(cur) : HeldWith(cur, k) # {}
      /\ \A k, field : FieldSourced(cur, k, field, PartFile(cur, k, field))
  BY <1>t, ReadsSourced DEF SourceInv
<1>h. /\ \A k : HeldWith(cur, k)' = HeldWith(cur, k)
      /\ \A k, field, f : FieldSourced(cur, k, field, f)' = FieldSourced(cur, k, field, f)
      /\ \A ps : PartsSourced(cur, ps)' = PartsSourced(cur, ps)
      /\ \A as : AttrsSourced(cur, as)' = AttrsSourced(cur, as)
  BY <1>1 DEF history, HeldWith, Held, FieldSourced, PartsSourced, PartSourced, AttrsSourced,
              AttrSourced
<1>3. CASE Probe
  <2> USE <1>3 DEF Probe, PassOver
  <2>1. AtHandSourced'
    BY <1>1, <1>h, <1>r DEF AtHandSourced
  <2>2. ReadSourced'
    BY <1>1, <1>h, <1>p DEF ReadSourced, InDirectory
  <2> QED
    BY <2>1, <2>2
<1>4. CASE ReadPartSize
  <2> USE <1>4 DEF ReadPartSize
  <2>1. /\ part'.no = part.no /\ part'.size = PartFile(cur, part.no, "size")
        /\ HeldWith(cur, part.no) # {}
    BY <1>t DEF SourceInv, Sourced, AtHandSourced
  <2>2. AtHandSourced'
    BY <1>1, <1>h, <1>r, <2>1 DEF AtHandSourced
  <2>3. ReadSourced'
    BY <1>1, <1>h, <1>p DEF ReadSourced, InDirectory
  <2> QED
    BY <2>2, <2>3
<1>5. CASE ReadPartStart
  <2> USE <1>5 DEF ReadPartStart
  <2> DEFINE p == [no |-> part.no, size |-> part.size, start |-> PartFile(cur, part.no, "start")]
  <2>1. parts' = Append(parts, p) /\ pc' = "sub"
    OBVIOUS
  <2>2. PartSourced(cur, p)
    BY <1>r DEF SourceInv, Sourced, AtHandSourced, PartSourced
  <2>3. PartsSourced(cur, parts)
    BY <1>p DEF InDirectory
  <2> HIDE DEF p
  <2>4. PartsSourced(cur, Append(parts, p))
    BY <1>t, <2>2, <2>3 DEF PartsSourced
  <2> QED
    BY <1>1, <1>h, <2>1, <2>4 DEF AtHandSourced, ReadSourced
<1>6. CASE EndSub
  <2> USE <1>6 DEF EndSub
  <2>1. AttrsSourced(cur, <<>>)
    BY DEF AttrsSourced
  <2> QED
    BY <1>1, <1>h, <1>p, <2>1 DEF AtHandSourced, ReadSourced, InDirectory
<1>7. CASE ReadAttr
  <2> USE <1>7 DEF ReadAttr
  <2> DEFINE a == Attributes[Len(attrs) + 1]
  <2>1. attrs' = Append(attrs, AttrFile(cur, a)) /\ pc = "attrs" /\ pc' = pc /\ parts' = parts
    OBVIOUS
  <2>2. AttrsSourced(cur, attrs)
    BY <2>1 DEF SourceInv, Sourced, ReadSourced
  <2>3. AttrsSourced(cur, Append(attrs, AttrFile(cur, a)))
    BY <1>t, <1>r, <2>2 DEF AttrsSourced
  <2> HIDE DEF a
  <2> QED
    BY <1>1, <1>h, <1>p, <2>1, <2>3 DEF AtHandSourced, ReadSourced, InDirectory
<1>8. ASSUME NEW k \in {Queue} \cup PartNos, NextSub(k)
      PROVE  AtHandSourced' /\ ReadSourced'
  <2>1. pc = "sub" /\ pc' \in {"sub", "probe"} /\ parts' = parts
    BY <1>8 DEF NextSub, After
  <2> QED
    BY <1>1, <1>h, <1>p, <2>1 DEF AtHandSourced, ReadSourced, InDirectory
<1> QED
  BY <1>3, <1>4, <1>5, <1>6, <1>7, <1>8

\* The disk is complete.
LEMMA PushKeepsSources ==
  ASSUME SourceInv, PushDisk
  PROVE  Remembered' /\ Sourced'
<1> USE DEF PushDisk
<1> DEFINE a == Attributes[Len(attrs) + 1]
           d == [name |-> cur, parts |-> parts, attrs |-> Append(attrs, AttrFile(cur, a))]
<1>t. raw \in Seq(RawDisk) /\ attrs \in Seq(File) /\ cur \in Names
  BY DEF SourceInv, ExactInv, WalkInv, TypeInv, TypeOK, WalkTypeOK, Place, Targets
<1>1. raw' = Append(raw, d) /\ pc = "attrs" /\ pc' = "dir"
      /\ UNCHANGED <<kernel, history>> /\ outcome' = outcome
  OBVIOUS
<1>2. Remembered' /\ held \subseteq held'
  BY <1>1, RestRemembers DEF SourceInv
<1>3. AttrsSourced(cur, attrs) /\ PartsSourced(cur, parts)
  BY <1>1 DEF SourceInv, Sourced, ReadSourced
<1>4. AttrsSourced(cur, Append(attrs, AttrFile(cur, a)))
  BY <1>t, <1>3, ReadsSourced DEF AttrsSourced, SourceInv
<1>5. DiskSourced(d)
  BY <1>3, <1>4 DEF DiskSourced
<1> HIDE DEF d
<1>6. \A e \in {raw'[j] : j \in DOMAIN raw'} : e = d \/ e \in {raw[j] : j \in DOMAIN raw}
  BY <1>t, <1>1, SMTT(30)
<1>7. \A e \in {raw'[j] : j \in DOMAIN raw'} : DiskSourced(e)
  BY <1>5, <1>6 DEF SourceInv, Sourced, RawSourced
<1>8. RawSourced'
  BY <1>2, <1>7, SourcesKept DEF RawSourced
<1>9. ListSourced'
  BY <1>1, <1>2, SourcesKept DEF SourceInv, Sourced, ListSourced
<1>10. AtHandSourced' /\ ReadSourced'
  BY <1>1 DEF AtHandSourced, ReadSourced, InDirectory
<1> QED
  BY <1>2, <1>8, <1>9, <1>10 DEF Sourced

\* The call ends with a list, or with none.
LEMMA EndKeepsSources ==
  ASSUME SourceInv, UNCHANGED <<kernel, history>>, Propagate \/ ReadMounts
  PROVE  Remembered' /\ Sourced'
<1> USE DEF ReadMounts, Propagate, Return, DropLocals
<1>1. Remembered' /\ held \subseteq held'
  BY RestRemembers DEF SourceInv
<1>2. AtHandSourced' /\ ReadSourced' /\ RawSourced'
  BY DEF AtHandSourced, ReadSourced, RawSourced, InDirectory
<1>3. ASSUME ReadMounts
      PROVE  ListSourced'
  <2> DEFINE list == Build(raw, ParsedMounts)
  <2>1. raw \in Seq(RawDisk) /\ ParsedMounts \in Seq(ReadLine)
    BY ParsedType DEF SourceInv, ExactInv, WalkInv, TypeInv, TypeOK, WalkTypeOK
  <2>2. outcome'.disks = list
    BY <1>3
  <2>3. ASSUME NEW d \in {list[r] : r \in DOMAIN list}
        PROVE  DiskWasThere(d)
    <3>1. PICK j \in DOMAIN raw : d = BuildDisk(raw[j], ParsedMounts)
      BY <2>1, BuildMembers
    <3>2. raw[j] \in RawDisk /\ DiskSourced(raw[j])
      BY <2>1 DEF SourceInv, Sourced, RawSourced
    <3>3. raw[j].name \in seen /\ seen \subseteq Names
      BY DEF SourceInv, ExactInv, WalkInv, Gathered, NamesOf, TypeInv, TypeOK, WalkTypeOK
    <3>4. There(raw[j].name)
      BY <3>3 DEF SourceInv, ExactInv, WalkInv, Gathered
    <3>5. Held(raw[j].name) # {}
      <4>1. CASE Attached(raw[j].name)
        <5> DEFINE h == Behind(raw[j].name, disk[raw[j].name], TableOf(raw[j].name))
        <5>1. h \in held
          BY <3>3, <4>1 DEF SourceInv, Remembered, HeldNow
        <5>2. h.name = raw[j].name
          BY DEF Behind
        <5> HIDE DEF h
        <5> QED
          BY <5>1, <5>2 DEF Held
      <4>2. CASE raw[j].name \in moved
        BY <4>2 DEF SourceInv, Remembered
      <4> QED
        BY <3>4, <4>1, <4>2 DEF There
    <3> QED
      BY <2>1, <3>1, <3>2, <3>5, BuildSourced
  <2> HIDE DEF list
  <2> QED
    BY <1>1, <2>2, <2>3, SourcesKept DEF ListSourced
<1>4. ASSUME Propagate
      PROVE  ListSourced'
  BY <1>4 DEF ListSourced
<1> QED
  BY <1>1, <1>2, <1>3, <1>4 DEF Sourced

-----------------------------------------------------------------------------
(* The theorems. *)

LEMMA InitSources == Init => SourceInv
<1> SUFFICES ASSUME Init PROVE SourceInv
  OBVIOUS
<1>1. ExactInv
  BY InitExact
<1>2. Remembered
  BY DEF Init, Remembered
<1>3. Sourced
  BY DEF Init, Sourced, AtHandSourced, ReadSourced, RawSourced, ListSourced, InDirectory,
         NoOutcome
<1> QED
  BY <1>1, <1>2, <1>3 DEF SourceInv

LEMMA StepSources == SourceInv /\ [Next]_vars => SourceInv'
<1> SUFFICES ASSUME SourceInv, [Next]_vars PROVE SourceInv'
  OBVIOUS
<1>e. ExactInv'
  BY StepExact DEF SourceInv
<1>1. CASE Kernel
  BY <1>1, KernelKeepsSources
<1>2. CASE Call
  BY <1>2, <1>e, CallRemembers DEF SourceInv
<1>3. CASE Walk
  <2>1. UNCHANGED <<kernel, history>>
    BY <1>3 DEF Walk, Unreadable, SkipVirtual, TakeEntry, OpenDisk, NextSub,
       SubFails, Probe, ReadPartSize, ReadPartStart, EndSub, ReadAttr, PushDisk, EndDir, ReadMounts
  <2>2. CASE Propagate \/ ReadMounts
    BY <1>e, <2>1, <2>2, EndKeepsSources DEF SourceInv
  <2>3. CASE \/ EndDir
             \/ OpenDisk /\ Attached(cur)
             \/ \E n \in Names : SkipVirtual(n) \/ TakeEntry(n)
    BY <1>e, <2>3, OuterKeepsSources DEF SourceInv
  <2>4. CASE \/ Probe \/ ReadPartSize \/ ReadPartStart \/ EndSub \/ ReadAttr
             \/ \E k \in {Queue} \cup PartNos : NextSub(k)
    BY <1>e, <2>4, InnerKeepsSources DEF SourceInv
  <2>5. CASE PushDisk
    BY <1>e, <2>5, PushKeepsSources DEF SourceInv
  <2>6. /\ Unreadable => Propagate
        /\ OpenDisk => Attached(cur) \/ Propagate
        /\ SubFails => Propagate
    BY DEF Unreadable, OpenDisk, SubFails
  <2> QED
    BY <1>3, <2>2, <2>3, <2>4, <2>5, <2>6 DEF Walk
<1>4. CASE UNCHANGED vars
  <2>1. UNCHANGED <<kernel, history>> /\ UNCHANGED <<raw, outcome>>
        /\ UNCHANGED <<pc, cur, part, parts, attrs>>
    BY <1>4 DEF vars, walk
  <2>2. held \subseteq held'
    BY <2>1, RestRemembers
  <2>3. AtHandSourced'
    BY <2>1, <2>2, SourcesKept DEF SourceInv, Sourced, AtHandSourced
  <2>4. ReadSourced'
    BY <2>1, <2>2, SourcesKept DEF SourceInv, Sourced, ReadSourced
  <2> QED
    BY <1>e, <2>1, <2>3, <2>4, WalkKeepsSources DEF SourceInv
<1> QED
  BY <1>1, <1>2, <1>3, <1>4 DEF Next

\* At every step, whatever was read of a disk is a file of something that was
\* behind its name since the call began, or a default (linux.rs:33-61).
THEOREM SourceInvariant == Spec => []SourceInv
BY InitSources, StepSources, PTL DEF Spec

\* However torn the reads were, no disk and no partition is listed twice, and
\* every number of the list is one that was there, in the geometry of a device
\* that was behind the name or in a table it had, or the default of a file that
\* was gone (linux.rs:25-64, sysfs.rs:71-122).
THEOREM ListsNoPhantoms == Spec => []NoPhantoms
<1>1. SourceInv => NoPhantoms
  <2> SUFFICES ASSUME SourceInv, Returned PROVE NoPhantoms
    BY DEF NoPhantoms
  <2>1. Delivered /\ outcome.status = "ok" /\ outcome.disks \in Seq(PhysicalDisk)
    BY DEF SourceInv, ExactInv, WalkInv, Returned, TypeInv, TypeOK, WalkTypeOK
  <2>2. \A i \in DOMAIN outcome.disks : outcome.disks[i].name \in Targets
    BY <2>1 DEF Delivered, Listed
  <2>3. \A i \in DOMAIN outcome.disks : outcome.disks[i].name \in Int
    <3>1. Targets \subseteq Int
      BY NamesAssumption DEF Targets
    <3> QED
      BY <2>2, <3>1
  <2>4. DOMAIN outcome.disks \subseteq Int
    BY <2>1
  <2>5. \A i, j \in DOMAIN outcome.disks :
          outcome.disks[i].name = outcome.disks[j].name => i = j
    <3> SUFFICES ASSUME NEW i \in DOMAIN outcome.disks, NEW j \in DOMAIN outcome.disks,
                        i # j
                 PROVE  outcome.disks[i].name # outcome.disks[j].name
      OBVIOUS
    <3>1. i < j \/ j < i
      BY <2>4
    <3> QED
      BY <2>1, <2>3, <3>1 DEF Delivered, WellListed
  <2>6. \A i \in DOMAIN outcome.disks : WellDisk(outcome.disks[i])
    BY <2>1 DEF Delivered, WellListed
  <2>7. \A i \in DOMAIN outcome.disks : DiskWasThere(outcome.disks[i])
    BY <2>1 DEF SourceInv, Sourced, ListSourced
  <2> QED
    BY <2>2, <2>5, <2>6, <2>7 DEF NoPhantoms, WellDisk
<1> QED
  BY SourceInvariant, <1>1, PTL
=============================================================================
