-------------------------- MODULE MacRegistryProps --------------------------
(***************************************************************************)
(* What the macOS backend must guarantee.  It reads a snapshot of objects  *)
(* and never goes by name, so it promises more than the Linux one.         *)
(***************************************************************************)
EXTENDS MacRegistry

RawType == [bsd : Disks \X ({Whole} \cup Numbers), medium : Media, size : Nat, block : Nat,
            base : Nat, whole : BOOLEAN, removable : BOOLEAN, writable : BOOLEAN,
            apfs : BOOLEAN]
Partition == [dev : Disks \X Numbers, medium : Media, start : Nat, size : Nat]
DiskType == [name : Disks, medium : Media, size : Nat, logical : Nat, physical : Nat,
             removable : BOOLEAN, read_only : BOOLEAN, synthesized : BOOLEAN,
             partitions : Seq(Partition)]

\* The type invariant of the backend and of the registry it reads.
TypeOK ==
  /\ registry \subseteq Object /\ readable \in BOOLEAN
  /\ moved \subseteq Disks /\ resliced \subseteq Disks /\ left \subseteq Object
  /\ changes \in Nat
  /\ pc \in {"idle", "match", "next", "read", "release"}
  /\ matches \subseteq Object
  /\ entry \in Object \cup {NoEntry}
  /\ media \in Seq(RawType)
  /\ refs \in Nat
  /\ outcome \in [status : {"none", "ok", "err"}, disks : Seq(DiskType)]

Returned == pc = "idle" /\ outcome.status = "ok"
Listed == {outcome.disks[k].name : k \in DOMAIN outcome.disks}
Attached == {o[1] : o \in registry}
Still(d) == d \notin moved \cup resliced

\* A partition's own numbers, as the list has to give them.
PartitionSays(o) ==
  LET s == Slices[o[3]][o[2]]
  IN  [dev |-> <<o[1], o[2]>>, start |-> NonNegative(Or(s.base, 0)),
       size |-> NonNegative(Or(s.size, 0))]
PartitionsListed(d) ==
  {[dev |-> d.partitions[k].dev, start |-> d.partitions[k].start,
    size |-> d.partitions[k].size] : k \in DOMAIN d.partitions}

\* The properties of an attached disk, as the list has to give them.
ReportsDisk(d) ==
  LET w == CHOOSE o \in ObjectsOf(d.name) : o[2] = Whole
      f == Facts[w[3]]
  IN  /\ d.size = NonNegative(Or(f.size, 0))
      /\ f.block \in 1 .. U32 - 1 => d.logical = f.block
      /\ f.removable \in BOOLEAN => d.removable = f.removable
      /\ f.writable \in BOOLEAN => d.read_only = ~f.writable
      /\ d.physical = d.logical /\ d.synthesized = f.apfs
      /\ PartitionsListed(d) = {PartitionSays(o) : o \in ObjectsOf(d.name) \ {w}}
      /\ Len(d.partitions) = Cardinality(ObjectsOf(d.name) \ {w})

\* A disk that held still while a call ran is listed, once, with its own
\* properties and partitions, whatever became of the objects before and after
\* it in the iteration (macos.rs:143-153, 68-104).
StableDisksExact ==
  Returned =>
    /\ \A d \in Disks : Still(d) => (d \in Listed <=> d \in Attached)
    /\ Len(outcome.disks) = Cardinality(Listed)
    /\ \A k \in DOMAIN outcome.disks :
         Still(outcome.disks[k].name) => ReportsDisk(outcome.disks[k])

\* No record is mixed: also where a disk was replaced under its name during the
\* call, its properties and its partitions are those of one device
\* (macos.rs:132-137, 161-194, 90-104).
NoMixing ==
  Returned =>
    \A k \in DOMAIN outcome.disks :
      LET d == outcome.disks[k] IN
      \A p \in DOMAIN d.partitions :
        d.partitions[p].medium = d.medium /\ d.partitions[p].dev[1] = d.name

\* Disks by number, partitions by offset, whatever the order of the registry
\* (macos.rs:103-106, lib.rs:112).
OnDiskOrder ==
  Returned =>
    /\ \A j, k \in DOMAIN outcome.disks :
         j < k => outcome.disks[j].name < outcome.disks[k].name
    /\ \A k \in DOMAIN outcome.disks :
         LET ps == outcome.disks[k].partitions IN
         \A a, b \in DOMAIN ps : a < b => ps[a].start =< ps[b].start

\* Every reference that IOKit hands out is released once, on every way through
\* the loop, and none is held between calls (macos.rs:143-155).
ReferencesBalanced ==
  refs = (IF pc \in {"idle", "match"} THEN 0 ELSE 1) + (IF entry = NoEntry THEN 0 ELSE 1)

-----------------------------------------------------------------------------
Running == pc # "idle"
Promise == INSTANCE Enumeration
             WITH Targets <- Disks, Tolerant <- FALSE,
                  present <- Attached,
                  status <- IF Running THEN "running" ELSE outcome.status,
                  listed <- IF Running THEN {} ELSE Listed

\* The macOS backend keeps the documentation's own promise, the strict one: a
\* call fails only when the registry cannot be read, and otherwise lists every
\* disk that was there throughout and none that never was (lib.rs:152-160).
ImplementsPromise == Promise!Spec
=============================================================================
