--------------------------- MODULE LinuxWalkProps ---------------------------
(***************************************************************************)
(* What the Linux backend must guarantee, whatever the kernel does while   *)
(* it walks.  The properties compare the list a call returned with the     *)
(* kernel's state, and use the history variables to tell the disks that    *)
(* held still since the call began from those that did not.                *)
(***************************************************************************)
EXTENDS LinuxWalk

RawPart == [no : PartNos, size : File, start : File]
AllAttributes == {a \in Seq(File) : Len(a) = Len(Attributes)}
RawDisk == [name : Names \ Virtual, parts : Seq(RawPart), attrs : AllAttributes]
ReadPoints == {PointRead(pt) : pt \in MountPoints}
Partition == [dev : Names \X PartNos, start : Nat, size : Nat,
              mount : ReadPoints \cup {NoMount}]
PhysicalDisk == [name : Names \ Virtual, size : Nat, removable : BOOLEAN,
                 read_only : BOOLEAN, logical : Nat, physical : Nat, model : File,
                 synthesized : BOOLEAN, partitions : Seq(Partition)]
Device == Names \X ({Whole} \cup PartNos)

KernelTypeOK ==
  /\ disk \in [Names -> Media \cup {NoMedium}]
  /\ DOMAIN table = Media
  /\ \A m \in Media : table[m] \in Layouts[m]
  /\ mounts \in Seq(MountLine)
  /\ sysfs \in BOOLEAN
  /\ procfs \in BOOLEAN

HistoryTypeOK ==
  /\ moved \subseteq Names
  /\ \A h \in held : \E n \in Names, m \in Media : \E t \in Layouts[m] : h = Behind(n, m, t)
  /\ retabled \subseteq Names
  /\ remounted \subseteq [dev : Device, point : MountPoints]
  /\ changes \in Nat

WalkTypeOK ==
  /\ pc \in {"idle", "dir", "open", "sub", "probe", "psize", "pstart",
             "attrs", "mounts"}
  /\ seen \subseteq Names
  /\ cur \in (Names \ Virtual) \cup {NoName}
  /\ sub \in [live : BOOLEAN, must : SUBSET ({Queue} \cup PartNos),
              may : SUBSET ({Queue} \cup PartNos), seen : SUBSET ({Queue} \cup PartNos)]
  /\ part \in [no : PartNos \cup {0}, size : File]
  /\ parts \in Seq(RawPart)
  /\ attrs \in Seq(File)
  /\ raw \in Seq(RawDisk)
  /\ outcome \in [status : {"none", "ok", "err"}, disks : Seq(PhysicalDisk)]

\* The type invariant of the backend and of the kernel it reads.
TypeOK == KernelTypeOK /\ HistoryTypeOK /\ WalkTypeOK

-----------------------------------------------------------------------------
Targets == Names \ Virtual
Returned == pc = "idle" /\ outcome.status = "ok"
Listed == {outcome.disks[i].name : i \in DOMAIN outcome.disks}

\* Nobody touched the disk, or the place for one, since the call began.
Still(n) == n \notin moved \cup retabled

\* What the disk's files say, now.
Says(n, a) == Parse(AttrFile(n, a))
TableSays(n) ==
  {[no |-> k, start |-> Parse(TableOf(n)[k].start) * SYSFS_SECTOR,
    size |-> Parse(TableOf(n)[k].size) * SYSFS_SECTOR] : k \in PartsOf(n)}

ReportsGeometry(d) ==
  LET n == d.name IN
  /\ d.size = Says(n, "size") * SYSFS_SECTOR
  /\ d.removable = (Says(n, "removable") = 1)
  /\ d.read_only = (Says(n, "ro") = 1)
  /\ Says(n, "logical") \in 1 .. U32 - 1 => d.logical = Says(n, "logical")
  /\ Says(n, "physical") \in 1 .. U32 - 1 => d.physical = Says(n, "physical")
  /\ d.model = (IF AttrFile(n, "model") = Blank THEN NoFile ELSE AttrFile(n, "model"))
  /\ d.synthesized = (n \in Mapped)

ReportsTable(d) ==
  /\ {[no |-> p.dev[2], start |-> p.start, size |-> p.size] :
        p \in {d.partitions[i] : i \in DOMAIN d.partitions}} = TableSays(d.name)
  /\ Len(d.partitions) = Cardinality(PartsOf(d.name))

\* /proc/mounts could be read, and no mount point was other than UTF-8 since the
\* call began.
MountsReadable ==
  /\ procfs
  /\ \A i \in DOMAIN mounts : IsUtf8(mounts[i].point)
  /\ \A r \in remounted : IsUtf8(r.point)

\* The only white space in the path is what the kernel writes as escapes.
Unbroken(pt) == \A i \in DOMAIN pt : pt[i] \in White_Space => pt[i] \in Escaped

\* The lines that spell the partition's kernel name.
LinesOf(p) == {l \in DOMAIN mounts : mounts[l].src = "kernel" /\ mounts[l].dev = p.dev}
ReportsMount(p) ==
  IF LinesOf(p) = {} THEN p.mount = NoMount
  ELSE \E l \in LinesOf(p) : /\ \A m \in LinesOf(p) : l =< m
                            /\ Unbroken(mounts[l].point) => p.mount = mounts[l].point

\* The partitions in the last list that were neither mounted nor unmounted since
\* the call began, of disks that held still.
StillPartitions ==
  {p \in UNION {{d.partitions[a] : a \in DOMAIN d.partitions} :
                  d \in {outcome.disks[i] : i \in DOMAIN outcome.disks}} :
     Still(p.dev[1]) /\ p.dev \notin {r.dev : r \in remounted}}

\* A disk that held still while a call ran is listed if it is there and not if
\* it is not, and is described as it is: its own geometry and exactly its own
\* partitions, in whatever order the directories were read and whatever
\* happened to other disks meanwhile (linux.rs:25-64, sysfs.rs:71-122).
StableDisksExact ==
  Returned =>
    /\ \A n \in Targets : Still(n) => (n \in Listed <=> Attached(n))
    /\ \A i \in DOMAIN outcome.disks :
         LET d == outcome.disks[i] IN
         Still(d.name) => ReportsGeometry(d) /\ ReportsTable(d)

\* What was behind the name at some time since the call began.
Held(n) == {h \in held : h.name = n}
\* Those of the tables then that held partition number k.
HeldWith(n, k) == {h \in Held(n) : k \in DOMAIN h.table}

\* A number of the partition's record is the table's of that time, or 0: the
\* default of a file that was gone when it was read.
PartitionWasThere(n, p) ==
  /\ p.dev[1] = n
  /\ HeldWith(n, p.dev[2]) # {}
  /\ p.start # 0 => \E h \in HeldWith(n, p.dev[2]) :
                      p.start = Parse(h.table[p.dev[2]].start) * SYSFS_SECTOR
  /\ p.size # 0 => \E h \in HeldWith(n, p.dev[2]) :
                     p.size = Parse(h.table[p.dev[2]].size) * SYSFS_SECTOR

DiskWasThere(d) ==
  /\ Held(d.name) # {}
  /\ d.size # 0 => \E h \in Held(d.name) :
                     d.size = Parse(Geometry[h.medium]["size"]) * SYSFS_SECTOR
  /\ d.removable => \E h \in Held(d.name) : Parse(Geometry[h.medium]["removable"]) = 1
  /\ d.read_only => \E h \in Held(d.name) : Parse(Geometry[h.medium]["ro"]) = 1
  /\ \A a \in DOMAIN d.partitions : PartitionWasThere(d.name, d.partitions[a])

\* However torn the reads were, what is listed was there at some time during
\* the call.  No disk is listed twice, under a name that had none, or with a
\* size or a flag of a device that was never behind its name; no partition is
\* listed twice, for a child directory that is none, or with a start or a size
\* that no table the name had in that time gives its number.  A record may mix
\* what the disk was before and after it was replaced or repartitioned, and 0
\* stands for a file that was gone (linux.rs:25-64, sysfs.rs:71-122).
NoPhantoms ==
  Returned =>
    /\ \A i, j \in DOMAIN outcome.disks :
         outcome.disks[i].name = outcome.disks[j].name => i = j
    /\ \A i \in DOMAIN outcome.disks :
         LET d == outcome.disks[i] IN
         /\ d.name \in Targets
         /\ DiskWasThere(d)
         /\ \A a, b \in DOMAIN d.partitions :
              d.partitions[a].dev = d.partitions[b].dev => a = b

\* The list does not depend on the order of the directories: disks by name,
\* partitions in on-disk order, also when the files were torn by a hotplug
\* (sysfs.rs:102 and 124, lib.rs:112 "in on-disk order").
OnDiskOrder ==
  Returned =>
    /\ \A i, j \in DOMAIN outcome.disks :
         i < j => outcome.disks[i].name < outcome.disks[j].name
    /\ \A i \in DOMAIN outcome.disks :
         LET ps == outcome.disks[i].partitions IN
         \A a, b \in DOMAIN ps : a < b => ps[a].start =< ps[b].start

\* A call that fails has a reason: the registry could not be read, or a disk
\* that is not a RAM disk came or went since it began.  Repartitioning and
\* mounting never fail a call (linux.rs:25-26, 35-36; lib.rs:158-159).
ErrorsExplained ==
  pc = "idle" /\ outcome.status = "err" =>
    ~sysfs \/ moved \cap Targets # {}

\* However torn the reads were, a listed disk has usable sector sizes: a zero
\* would be divided by when imaging is aligned to it (sysfs.rs:74-81).
SectorSizesUsable ==
  Returned => \A i \in DOMAIN outcome.disks :
                outcome.disks[i].logical > 0 /\ outcome.disks[i].physical > 0

\* A partition of a disk that held still, not mounted or unmounted since the
\* call began, is reported at the very place the first line of /proc/mounts
\* that spells its kernel name gives, also where the path has blanks or
\* backslashes in it, even such as look like escapes; and as unmounted when no
\* line does.  As long as /proc/mounts can be read and is UTF-8, and the path has
\* no white space the kernel does not escape (linux.rs:66, sysfs.rs:48-69, 86-89,
\* 135-160).
MountsExact ==
  Returned /\ MountsReadable => \A p \in StillPartitions : ReportsMount(p)

\* A call ends, although disks come and go while it runs (up to MaxChanges times
\* in a run): nothing makes the walk start over (linux.rs:25-64).
CallReturns == []<>(pc = "idle")

-----------------------------------------------------------------------------
(* What the documentation says of a call, and the code does not do. *)

\* lib.rs:158-159: an I/O error only "when the OS device registry cannot be
\* read".  A disk that is gone when its own directory is opened also fails the
\* call, and with it the listing of every other disk (linux.rs:35).
FailsOnlyUnreadable == pc = "idle" /\ outcome.status = "err" => ~sysfs

\* lib.rs:130: "Current mount point, when the partition is mounted."  One mount
\* point that is not UTF-8 makes the read of /proc/mounts fail, and no
\* partition of any disk is then reported as mounted (linux.rs:66).
MountedPartitionsSayWhere ==
  Returned => \A p \in StillPartitions : LinesOf(p) # {} => p.mount # NoMount

\* lib.rs:130 again: what is reported is where the partition is mounted.  A
\* path with white space beyond ASCII, which the kernel does not escape, is cut
\* off there (sysfs.rs:52, `split_whitespace`).
MountPointsTrue ==
  Returned => \A p \in StillPartitions :
                p.mount # NoMount => \E l \in LinesOf(p) : p.mount = mounts[l].point

-----------------------------------------------------------------------------
(* The platform-independent promise. *)

Running == pc # "idle"
Promise == INSTANCE Enumeration
             WITH Targets <- Targets, Tolerant <- TRUE,
                  present <- {n \in Targets : Attached(n)},
                  readable <- sysfs,
                  moved <- moved \cap Targets,
                  status <- IF Running THEN "running" ELSE outcome.status,
                  listed <- IF Running THEN {} ELSE Listed

\* Every behaviour of the Linux backend is one the tolerant promise of
\* enumerate() allows (lib.rs:152-177).
ImplementsPromise == Promise!Spec
=============================================================================
