----------------------------- MODULE Acquisition -----------------------------
(***************************************************************************)
(* The use the crates are made for, on Linux: list the disks, choose one,  *)
(* triage it with `analyse_target` (forensic/src/lib.rs) and open it with  *)
(* `open_device` (core/src/lib.rs:190-195), while the kernel goes on       *)
(* plugging, repartitioning and mounting.  The list and the findings are   *)
(* as old as the call that made them; the device is opened by its path.    *)
(* The program that does this is the crates' user: one thread, which makes *)
(* no new call before it is done with the disk it chose.                   *)
(***************************************************************************)
EXTENDS LinuxWalkProps

T == INSTANCE Triage

VARIABLES
  step,      \* "list", "open", "seek", "rewind", "done": where the user is
  target,    \* the disk that was chosen: <<>> or its record
  findings,  \* what analyse_target said of it
  file,      \* the medium the file handle is on, or NoMedium
  gone,      \* that medium was unplugged since
  at,        \* the handle's position
  reported   \* the size open_device returned

acquisition == <<step, target, findings, file, gone, at, reported>>
allVars == <<vars, acquisition>>

AcquisitionInit == /\ step = "list" /\ target = <<>> /\ findings = <<>>
                   /\ file = NoMedium /\ gone = FALSE /\ at = 0 /\ reported = NoFile

\* The kernel's steps and the walk's are those of the backend.
Enumerate == /\ step \in {"list", "done"}
             /\ Call
             /\ step' = "list" /\ target' = <<>> /\ findings' = <<>>
             /\ file' = NoMedium /\ gone' = FALSE /\ at' = 0 /\ reported' = NoFile
Walking == Walk /\ UNCHANGED acquisition
Moving == /\ Kernel
          /\ gone' = (gone \/ (file # NoMedium /\ \A n \in Names : disk'[n] # file))
          /\ UNCHANGED <<step, target, findings, file, at, reported>>

\* analyse_target on one of the disks of the list: computation only.
Choose(i) ==
  /\ pc = "idle" /\ step = "list" /\ i \in DOMAIN outcome.disks
  /\ target' = <<outcome.disks[i]>>
  /\ findings' = T!analyse_target(outcome.disks[i])
  /\ step' = "open"
  /\ UNCHANGED <<vars, file, gone, at, reported>>

Chosen == target[1]

\* open_device failed: `?` hands the error to the user, the handle is closed.
GiveUp == /\ step' = "list" /\ target' = <<>> /\ findings' = <<>>
          /\ file' = NoMedium /\ gone' = FALSE /\ at' = 0 /\ reported' = NoFile

\* File::open(path)?: whatever has the name now, if anything has and the user
\* has the right to read it.
Open == /\ step = "open"
        /\ \/ /\ Attached(Chosen.name)
              /\ file' = disk[Chosen.name]
              /\ step' = "seek"
              /\ UNCHANGED <<target, findings, gone, at, reported>>
           \/ GiveUp
        /\ UNCHANGED vars

\* Mutant of SizesSeen: `metadata()?.len()`, which is 0 for a block device.
MetadataSize == {0}

\* The device's size, in sectors; of one that is gone, nothing or its old size.
SizesSeen == {Parse(Geometry[file]["size"])} \cup (IF gone THEN {0} ELSE {})

\* seek(End(0))?, which fails only when the device is gone.
SeekEnd == /\ step = "seek"
           /\ \/ /\ reported' \in SizesSeen
                 /\ at' = reported'
                 /\ step' = "rewind"
                 /\ UNCHANGED <<target, findings, file, gone>>
              \/ gone /\ GiveUp
           /\ UNCHANGED vars

\* Mutant of Start: the handle is returned as it is.
AtEnd == at
Start == 0

\* seek(Start(0))?
Rewind == /\ step = "rewind"
          /\ \/ /\ at' = Start
                /\ step' = "done"
                /\ UNCHANGED <<target, findings, file, gone, reported>>
             \/ gone /\ GiveUp
          /\ UNCHANGED vars

Acquire == (\E i \in DOMAIN outcome.disks : Choose(i)) \/ Open \/ SeekEnd \/ Rewind

AllInit == Init /\ AcquisitionInit
AllNext == Moving \/ Enumerate \/ Walking \/ Acquire
AllSpec == AllInit /\ [][AllNext]_allVars

-----------------------------------------------------------------------------
\* A returned handle is fresh, and on a device the kernel has or had: `at` the
\* start, with the size the device itself gave (lib.rs:181-195).
HandleFresh ==
  step = "done" =>
    /\ at = 0
    /\ file # NoMedium
    /\ (~gone => reported = Parse(Geometry[file]["size"]))

\* While nothing was plugged or unplugged under the disk's name since the list
\* was begun, the handle is on the disk that was listed, and the two sizes
\* agree (linux.rs:54-56, sysfs.rs:107, lib.rs:190-195).
OpenedIsListed ==
  (step = "done" /\ Chosen.name \notin moved) =>
    /\ file = disk[Chosen.name]
    /\ reported * SYSFS_SECTOR = Chosen.size

\* The findings about a disk that held still are true of it when it is
\* acquired: it is writable, removable, an overlay or of two sector sizes if and
\* only if they say so (a sector size the kernel does not give, or that does not
\* fit 32 bits, counts as the default), a partition that stayed mounted under
\* its kernel name is evidence, and what is evidence is mounted under that name
\* or was mounted or unmounted since the list was begun
\* (forensic/src/lib.rs:52-148).
FindingsHold ==
  (step # "list" /\ Still(Chosen.name)) =>
    LET codes == T!Codes(findings)
        n == Chosen.name
        inUse == {mounts[i].dev : i \in {j \in DOMAIN mounts : mounts[j].src = "kernel"}}
        touched == {r.dev : r \in remounted}
        sizes == {Says(n, "logical"), Says(n, "physical")}
        kept == {i \in DOMAIN mounts : /\ mounts[i].dev[1] = n
                                       /\ mounts[i].dev[2] # Whole
                                       /\ mounts[i].src = "kernel"
                                       /\ mounts[i].dev \notin touched}
    IN  /\ "LIVE-WRITABLE" \in codes <=> Says(n, "ro") # 1
        /\ "LIVE-REMOVABLE" \in codes <=> Says(n, "removable") = 1
        /\ "LIVE-SYNTHESIZED" \in codes <=> n \in Mapped
        /\ sizes \subseteq 1 .. U32 - 1 =>
             ("LIVE-SECTOR-4KN" \in codes <=> Says(n, "logical") # Says(n, "physical"))
        /\ \A f \in DOMAIN findings :
             findings[f].code = "LIVE-MOUNTED" =>
               {e[1] : e \in findings[f].evidence} \subseteq inUse \cup touched
        /\ (kept # {} /\ MountsReadable) =>
             \E f \in DOMAIN findings :
               /\ findings[f].code = "LIVE-MOUNTED"
               /\ {mounts[i].dev : i \in kept} \subseteq {e[1] : e \in findings[f].evidence}

\* README.md:66: "a volume is mounted during acquisition".  A filesystem on the
\* whole disk, or on a partition mounted by another of its names, is not
\* reported (sysfs.rs:64-69, forensic/src/lib.rs:56-60).
MountedIsFound ==
  (step # "list" /\ Still(Chosen.name) /\ MountsReadable) =>
    LET kept == {i \in DOMAIN mounts : /\ mounts[i].dev[1] = Chosen.name
                                       /\ mounts[i].dev \notin {r.dev : r \in remounted}}
    IN  kept # {} => "LIVE-MOUNTED" \in T!Codes(findings)
=============================================================================
