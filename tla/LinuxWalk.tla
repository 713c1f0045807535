------------------------------ MODULE LinuxWalk ------------------------------
(***************************************************************************)
(* The Linux backend: `linux::enumerate()` (core/src/linux.rs) reads       *)
(* /sys/block, one file at a time, while the kernel plugs and unplugs      *)
(* disks, rereads partition tables and mounts filesystems; then            *)
(* `sysfs::build` (core/src/sysfs.rs) turns what was read into the list.   *)
(* Every path is resolved afresh, so each read sees whatever disk has the  *)
(* name at that moment.                                                    *)
(*                                                                         *)
(* A disk NAME (sda) is a position in the byte order of names; a MEDIUM is *)
(* the device behind it.  A partition is a pair <<name, number>>, and      *)
(* <<name, 0>> is the whole disk.  A file is its parsed number, or NoFile  *)
(* when it is missing, unreadable or not a number: `read_to_string(..)     *)
(* .unwrap_or_default()` makes these alike.                                *)
(***************************************************************************)
EXTENDS StableSort, MountsText

CONSTANTS Names,        \* disk names the kernel may use, in byte order
          Virtual,      \* the names that start with "ram" or "zram"
          Mapped,       \* the names that start with "dm-"
          Media,        \* devices that can be behind a name
          NoMedium,     \* nothing is behind the name
          Bay,          \* Bay[n]: the media that can appear as n
          Geometry,     \* Geometry[m]: the attribute files of medium m
          Layouts,      \* Layouts[m]: the partition tables m can carry
          PartNos,      \* partition numbers
          MountPoints,  \* where filesystems can be mounted: paths
          MaxMounts,    \* bound on the lines of /proc/mounts
          Procs,        \* whether /proc/mounts can be read: the cases considered
          MaxChanges,   \* bound on the kernel's steps from one call to the next
          MaxBlind,     \* the same while directories cannot be read
          U32           \* 2^32 in the code: how far `as u32` counts

NoFile == -1
Blank == 0                        \* a model string of blanks only
File == Nat \cup {NoFile}
Whole == 0
NoMount == <<>>                   \* the empty text is no mount point
NoName == 0

\* The attribute files, in the order `enumerate` reads them.
Attributes == <<"size", "removable", "ro", "logical", "physical", "model">>
AttrSet == {"size", "removable", "ro", "logical", "physical", "model"}
Extent == [start : File, size : File]

ASSUME NamesAssumption ==
  /\ Names \subseteq Nat \ {NoName}
  /\ IsFiniteSet(Names)
  /\ Virtual \subseteq Names
  /\ Mapped \subseteq Names
ASSUME MediaAssumption ==
  /\ NoMedium \notin Media
  /\ Bay \in [Names -> SUBSET Media]
  /\ PartNos \subseteq Nat \ {Whole}
  /\ Geometry \in [Media -> [AttrSet -> File]]
  /\ DOMAIN Layouts = Media
  /\ \A m \in Media : \A t \in Layouts[m] :
       DOMAIN t \subseteq PartNos /\ t \in [DOMAIN t -> Extent]
ASSUME MountAssumption ==
  /\ \A pt \in MountPoints : IsPath(pt)
  /\ MaxMounts \in Nat
  /\ MaxChanges \in Nat
  /\ MaxBlind \in Nat
  /\ Procs \subseteq BOOLEAN
ASSUME WordAssumption == U32 \in Nat \ {0}

VARIABLES
  \* the kernel's side
  disk,       \* disk[n]: the medium behind name n, or NoMedium
  table,      \* table[m]: the partition table medium m carries
  mounts,     \* the lines of /proc/mounts that name a block device
  sysfs,      \* the directories under /sys/block can be read without an error
  procfs,     \* /proc/mounts can be read
  \* what happened since the last call began, kept for the properties
  moved,      \* names that were plugged or unplugged
  held,       \* what was behind which name, with which partition table
  retabled,   \* names whose table was reread
  remounted,  \* what was mounted or unmounted, and where
  changes,    \* how many steps the kernel took
  \* the backend's locals
  pc, seen, cur, sub, part, parts, attrs, raw,
  \* what the last call returned
  outcome

kernel == <<disk, table, mounts, sysfs, procfs>>
history == <<moved, held, retabled, remounted, changes>>
walk == <<pc, seen, cur, sub, part, parts, attrs, raw, outcome>>
vars == <<kernel, history, walk>>

-----------------------------------------------------------------------------
(* The file tree at this moment. *)

Attached(n) == disk[n] # NoMedium
TableOf(n) == table[disk[n]]
PartsOf(n) == IF Attached(n) THEN DOMAIN TableOf(n) ELSE {}

\* /sys/block/<n>/<attribute>
AttrFile(n, a) == IF Attached(n) THEN Geometry[disk[n]][a] ELSE NoFile

\* /sys/block/<n>/<n><k>/<field>
PartFile(n, k, field) == IF k \in PartsOf(n) THEN TableOf(n)[k][field] ELSE NoFile

\* The child directories of /sys/block/<n>; queue/ stands for the ones that
\* are not named after the disk.
Queue == 0
Children(n) == {Queue} \cup PartsOf(n)

\* A line of /proc/mounts starts with the kernel's name of the device or with
\* another name for it (/dev/mapper/..., /dev/root).
MountLine == [dev : Names \X ({Whole} \cup PartNos), src : {"kernel", "alias"},
              point : MountPoints]
Mounted(n) == \E i \in DOMAIN mounts : mounts[i].dev[1] = n

-----------------------------------------------------------------------------
(* sysfs::build: from raw strings to the list. *)

SYSFS_SECTOR == 512

\* parse_u64
Parse(f) == IF f = NoFile THEN 0 ELSE f
AsU32(x) == x % U32
\* Mutant of OrDefault: what was read is taken as it is.
AsRead(x, d) == x
OrDefault(x, d) == IF x = 0 THEN d ELSE x

\* read_to_string("/proc/mounts") fails as a whole, and the default is no line
\* at all, when the file cannot be read or any of its text is not UTF-8.
IsUtf8(s) == \A i \in DOMAIN s : s[i] # NotUtf8
MountsContent ==
  IF procfs /\ \A i \in DOMAIN mounts : IsUtf8(mounts[i].point) THEN mounts ELSE <<>>

parse_mounts(lines) ==
  [i \in DOMAIN lines |-> [lines[i] EXCEPT !.point = PointRead(@)]]
ParsedMounts == parse_mounts(MountsContent)

\* lookup: the first line whose device is spelled as the kernel names it.
Lookup(lines, dev) ==
  LET named == {i \in DOMAIN lines : lines[i].src = "kernel" /\ lines[i].dev = dev}
  IN  IF named = {} THEN NoMount
      ELSE lines[CHOOSE i \in named : \A j \in named : i =< j].point

BuildPart(n, p, lines) ==
  [dev |-> <<n, p.no>>,
   start |-> Parse(p.start) * SYSFS_SECTOR,
   size |-> Parse(p.size) * SYSFS_SECTOR,
   mount |-> Lookup(lines, <<n, p.no>>)]

\* Mutant of ByStart: directory order.
UnsortedParts(ps) == ps
ByStart(ps) == SortedBy(ps, [i \in DOMAIN ps |-> ps[i].start])

Logical(a) == OrDefault(AsU32(Parse(a[4])), 512)
Physical(a) == OrDefault(AsU32(Parse(a[5])), Logical(a))

BuildDisk(d, lines) ==
  [name |-> d.name,
   size |-> Parse(d.attrs[1]) * SYSFS_SECTOR,
   removable |-> Parse(d.attrs[2]) = 1,
   read_only |-> Parse(d.attrs[3]) = 1,
   logical |-> Logical(d.attrs),
   physical |-> Physical(d.attrs),
   model |-> IF d.attrs[6] = Blank THEN NoFile ELSE d.attrs[6],
   synthesized |-> d.name \in Mapped,
   partitions |-> ByStart([i \in DOMAIN d.parts |-> BuildPart(d.name, d.parts[i], lines)])]

Build(ds, lines) ==
  SortedBy([i \in DOMAIN ds |-> BuildDisk(ds[i], lines)],
           [i \in DOMAIN ds |-> ds[i].name])

-----------------------------------------------------------------------------
(* The kernel, and the people at the machine. *)

\* Every step of the kernel's is counted.
Stir == /\ changes < IF sysfs THEN MaxChanges ELSE MaxBlind
        /\ changes' = changes + 1

\* What is behind the names at this moment.
Behind(n, m, t) == [name |-> n, medium |-> m, table |-> t]
HeldNow == {Behind(n, disk[n], TableOf(n)) : n \in {o \in Names : Attached(o)}}

\* A disk is plugged in.  A name stays taken while something mounted under it
\* is still held, even after its disk is gone.
Attach(n, m) ==
  /\ Stir
  /\ ~Attached(n)
  /\ m \in Bay[n]
  /\ \A o \in Names : disk[o] # m
  /\ ~Mounted(n)
  /\ disk' = [disk EXCEPT ![n] = m]
  /\ moved' = moved \cup {n}
  /\ held' = held \cup {Behind(n, m, table[m])}
  /\ UNCHANGED <<table, mounts, sysfs, procfs, retabled, remounted, walk>>

\* A directory stream open on the disk goes dead with it.
Detach(n) ==
  /\ Stir
  /\ Attached(n)
  /\ n \in Mapped => ~Mounted(n)
  /\ disk' = [disk EXCEPT ![n] = NoMedium]
  /\ moved' = moved \cup {n}
  /\ sub' = IF cur = n THEN [sub EXCEPT !.live = FALSE, !.must = {}] ELSE sub
  /\ UNCHANGED <<table, mounts, sysfs, procfs, held, retabled, remounted,
                 pc, seen, cur, part, parts, attrs, raw, outcome>>

\* The partition table is rewritten and reread (refused while in use): every
\* partition's directory is removed and the new ones are made.
Repartition(n, t) ==
  /\ Stir
  /\ Attached(n)
  /\ ~Mounted(n)
  /\ t \in Layouts[disk[n]] \ {TableOf(n)}
  /\ table' = [table EXCEPT ![disk[n]] = t]
  /\ retabled' = retabled \cup {n}
  /\ held' = held \cup {Behind(n, disk[n], t)}
  /\ sub' = IF cur = n /\ sub.live
              THEN [sub EXCEPT !.must = @ \cap {Queue}, !.may = @ \cup DOMAIN t]
              ELSE sub
  /\ UNCHANGED <<disk, mounts, sysfs, procfs, moved, remounted,
                 pc, seen, cur, part, parts, attrs, raw, outcome>>

\* A whole disk and its partitions are not in use at once.
Mount(n, k, src, pt) ==
  /\ Stir
  /\ Len(mounts) < MaxMounts
  /\ Attached(n)
  /\ k \in {Whole} \cup PartsOf(n)
  /\ \A i \in DOMAIN mounts :
       mounts[i].dev[1] = n => (mounts[i].dev[2] = Whole) = (k = Whole)
  /\ mounts' = Append(mounts, [dev |-> <<n, k>>, src |-> src, point |-> pt])
  /\ remounted' = remounted \cup {[dev |-> <<n, k>>, point |-> pt]}
  /\ UNCHANGED <<disk, table, sysfs, procfs, moved, held, retabled, walk>>

Unmount(i) ==
  /\ Stir
  /\ i \in DOMAIN mounts
  /\ mounts' = SubSeq(mounts, 1, i - 1) \o SubSeq(mounts, i + 1, Len(mounts))
  /\ remounted' = remounted \cup {[dev |-> mounts[i].dev, point |-> mounts[i].point]}
  /\ UNCHANGED <<disk, table, sysfs, procfs, moved, held, retabled, walk>>

Kernel ==
  \/ \E n \in Names, m \in Media : Attach(n, m)
  \/ \E n \in Names : Detach(n)
  \/ \E n \in Names : Attached(n) /\ \E t \in Layouts[disk[n]] : Repartition(n, t)
  \/ \E n \in Names, k \in {Whole} \cup PartNos, src \in {"kernel", "alias"},
        pt \in MountPoints : Mount(n, k, src, pt)
  \/ \E i \in 1 .. MaxMounts : Unmount(i)

-----------------------------------------------------------------------------
(* The backend: one action per system call that can see the kernel move. *)

NoSub == [live |-> FALSE, must |-> {}, may |-> {}, seen |-> {}]
NoPart == [no |-> 0, size |-> NoFile]
NoOutcome == [status |-> "none", disks |-> <<>>]

\* The call ends: its locals are dropped.
DropLocals == /\ seen' = {} /\ cur' = NoName /\ sub' = NoSub /\ part' = NoPart
              /\ parts' = <<>> /\ attrs' = <<>> /\ raw' = <<>>
Return(status, disks) == /\ outcome' = [status |-> status, disks |-> disks]
                         /\ pc' = "idle"
                         /\ DropLocals

\* Mutants of Propagate: `break`, with what was gathered so far; and another
\* attempt from the start.
StopEarly == Return("ok", Build(raw, ParsedMounts))
StartOver == pc' = "dir" /\ DropLocals /\ UNCHANGED outcome

\* A `?` on an I/O error: everything gathered so far is dropped too.
Propagate == Return("err", <<>>)

\* The call's first step: fs::read_dir("/sys/block") opens the stream.
Call ==
  /\ pc = "idle"
  /\ pc' = "dir"
  /\ moved' = {} /\ held' = HeldNow
  /\ retabled' = {} /\ remounted' = {} /\ changes' = 0
  /\ outcome' = NoOutcome
  /\ UNCHANGED <<kernel, seen, cur, sub, part, parts, attrs, raw>>

\* Any `?` on a directory: opening /sys/block or reading its next entry, opening
\* a disk's directory or reading its next child.
Unreadable ==
  /\ pc \in {"dir", "open", "sub"}
  /\ ~sysfs
  /\ Propagate
  /\ UNCHANGED <<kernel, history>>

\* A directory stream yields what is there throughout, may or may not yield
\* what came or went meanwhile, and yields no name twice.  A name that is gone
\* can only be one that was read ahead, with an earlier one.
Yieldable(n) ==
  n \notin seen /\ (Attached(n) \/ (n \in moved /\ seen # {}))

\* Mutant of is_virtual: RAM disks are taken for disks.
NeverVirtual(n) == FALSE
is_virtual(n) == n \in Virtual

SkipVirtual(n) ==
  /\ pc = "dir"
  /\ Yieldable(n)
  /\ is_virtual(n)
  /\ seen' = seen \cup {n}
  /\ UNCHANGED <<kernel, history, pc, cur, sub, part, parts, attrs, raw, outcome>>

TakeEntry(n) ==
  /\ pc = "dir"
  /\ Yieldable(n)
  /\ ~is_virtual(n)
  /\ seen' = seen \cup {n}
  /\ cur' = n
  /\ pc' = "open"
  /\ UNCHANGED <<kernel, history, sub, part, parts, attrs, raw, outcome>>

\* fs::read_dir(&base)?
OpenDisk ==
  /\ pc = "open"
  /\ IF Attached(cur)
       THEN /\ sub' = [live |-> TRUE, must |-> Children(cur), may |-> Children(cur),
                       seen |-> {}]
            /\ parts' = <<>>
            /\ pc' = "sub"
            /\ UNCHANGED <<seen, cur, part, attrs, raw, outcome>>
       ELSE Propagate
  /\ UNCHANGED <<kernel, history>>

\* Mutants of After: `break` at a child that is not a partition; every child is
\* taken for a partition, with neither the name nor the marker file looked at.
AnyChild(k) == "psize"
AfterStop(k) == IF k = Queue THEN "attrs" ELSE "probe"
After(k) == IF k = Queue THEN "sub" ELSE "probe"

\* The next child of the disk's directory.  One not named after the disk is
\* passed over.
NextSub(k) ==
  /\ pc = "sub"
  /\ k \in sub.may \ sub.seen
  /\ sub' = [sub EXCEPT !.seen = @ \cup {k}]
  /\ part' = [NoPart EXCEPT !.no = k]
  /\ pc' = After(k)
  /\ UNCHANGED <<kernel, history, seen, cur, parts, attrs, raw, outcome>>

\* `sub?`: the stream of a disk that is gone may report an error.
SubFails ==
  /\ pc = "sub"
  /\ ~sub.live
  /\ Propagate
  /\ UNCHANGED <<kernel, history>>

\* `continue`: the child is no partition, or none any more.
PassOver == pc' = "sub" /\ UNCHANGED <<seen, cur, sub, part, parts, attrs, raw, outcome>>

\* ppath.join("partition").exists()
Probe ==
  /\ pc = "probe"
  /\ IF part.no \in PartsOf(cur)
       THEN pc' = "psize" /\ UNCHANGED <<seen, cur, sub, part, parts, attrs, raw, outcome>>
       ELSE PassOver
  /\ UNCHANGED <<kernel, history>>

ReadPartSize ==
  /\ pc = "psize"
  /\ part' = [part EXCEPT !.size = PartFile(cur, part.no, "size")]
  /\ pc' = "pstart"
  /\ UNCHANGED <<kernel, history, seen, cur, sub, parts, attrs, raw, outcome>>

ReadPartStart ==
  /\ pc = "pstart"
  /\ parts' = Append(parts, [no |-> part.no, size |-> part.size,
                             start |-> PartFile(cur, part.no, "start")])
  /\ part' = NoPart
  /\ pc' = "sub"
  /\ UNCHANGED <<kernel, history, seen, cur, sub, attrs, raw, outcome>>

EndSub ==
  /\ pc = "sub"
  /\ sub.must \subseteq sub.seen
  /\ pc' = "attrs"
  /\ sub' = NoSub
  /\ part' = NoPart
  /\ attrs' = <<>>
  /\ UNCHANGED <<kernel, history, seen, cur, parts, raw, outcome>>

\* The attribute files, one read each.
ReadAttr ==
  /\ pc = "attrs"
  /\ Len(attrs) + 1 < Len(Attributes)
  /\ attrs' = Append(attrs, AttrFile(cur, Attributes[Len(attrs) + 1]))
  /\ UNCHANGED <<kernel, history, pc, seen, cur, sub, part, parts, raw, outcome>>

\* The last one, device/model, completes the RawDisk, which is pushed.
PushDisk ==
  /\ pc = "attrs"
  /\ Len(attrs) + 1 = Len(Attributes)
  /\ raw' = Append(raw, [name |-> cur, parts |-> parts,
                         attrs |-> Append(attrs, AttrFile(cur, Attributes[Len(attrs) + 1]))])
  /\ cur' = NoName /\ parts' = <<>> /\ attrs' = <<>>
  /\ pc' = "dir"
  /\ UNCHANGED <<kernel, history, seen, sub, part, outcome>>

EndDir ==
  /\ pc = "dir"
  /\ sysfs
  /\ \A n \in Names : Attached(n) /\ n \notin moved => n \in seen
  /\ pc' = "mounts"
  /\ UNCHANGED <<kernel, history, seen, cur, sub, part, parts, attrs, raw, outcome>>

\* /proc/mounts is read last, in one piece; the rest is computation.
ReadMounts ==
  /\ pc = "mounts"
  /\ Return("ok", Build(raw, ParsedMounts))
  /\ UNCHANGED <<kernel, history>>

Walk ==
  \/ Unreadable
  \/ \E n \in Names : SkipVirtual(n) \/ TakeEntry(n)
  \/ OpenDisk
  \/ \E k \in {Queue} \cup PartNos : NextSub(k)
  \/ SubFails \/ Probe \/ ReadPartSize \/ ReadPartStart \/ EndSub
  \/ ReadAttr \/ PushDisk \/ EndDir \/ ReadMounts

Next == Kernel \/ Call \/ Walk

\* Any disk may be behind its names already, with any of its tables; nothing
\* is mounted and no call has been made.
Init ==
  /\ disk \in [Names -> Media \cup {NoMedium}]
  /\ \A n \in Names : disk[n] \in Bay[n] \cup {NoMedium}
  /\ \A n, o \in Names : disk[n] = disk[o] /\ Attached(n) => n = o
  /\ table \in [Media -> UNION {Layouts[m] : m \in Media}]
  /\ \A m \in Media : table[m] \in Layouts[m]
  /\ mounts = <<>>
  /\ sysfs \in BOOLEAN
  /\ procfs \in Procs
  /\ moved = {} /\ held = HeldNow
  /\ retabled = {} /\ remounted = {} /\ changes = 0
  /\ pc = "idle" /\ seen = {} /\ cur = NoName /\ sub = NoSub /\ part = NoPart
  /\ parts = <<>> /\ attrs = <<>> /\ raw = <<>>
  /\ outcome = NoOutcome

Spec == Init /\ [][Next]_vars

\* The thread that runs a call is scheduled; nothing is asked of the kernel.
FairSpec == Spec /\ WF_vars(Walk)
=============================================================================
