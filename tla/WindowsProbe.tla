---------------------------- MODULE WindowsProbe ----------------------------
(***************************************************************************)
(* The Windows backend (core/src/windows.rs:43-146): `enumerate` opens     *)
(* \\.\PhysicalDrive0 .. MAX_DRIVES - 1 in turn and asks each open drive   *)
(* its length, geometry and layout, while drives come and go and other     *)
(* programs take them for themselves.  A handle outlives its drive, and    *)
(* every request on it then fails.                                         *)
(***************************************************************************)
EXTENDS LayoutBuffer, StableSort

CONSTANTS Drives,      \* the numbers that drives can have
          MAX_DRIVES,  \* the numbers that are probed are below it: 64 in the code
          LAYOUT_BUF,  \* the bytes there are for a layout: 32 KiB in the code
          Media,       \* drives that can be attached
          NoMedium,    \* no drive has this number
          NoAnswer,    \* a request that fails on this drive
          LengthOf,    \* LengthOf[m]: IOCTL_DISK_GET_LENGTH_INFO
          SectorOf,    \* SectorOf[m]: BytesPerSector of the geometry
          LayoutOf,    \* LayoutOf[m]: the layout, as long as it is
          Protected,   \* the media that are write-protected
          ByteRank,    \* ByteRank[n]: place of "PhysicalDrive<n>" in byte order
          NoMount,     \* a partition that is not mounted
          MaxChanges   \* bound on what happens to drives between two calls

ASSUME DriveAssumption ==
  /\ Drives \subseteq Nat /\ 0 .. MAX_DRIVES - 1 \subseteq Drives
  /\ MAX_DRIVES \in Nat /\ LAYOUT_BUF \in Nat /\ MaxChanges \in Nat
  /\ NoMedium \notin Media /\ Protected \subseteq Media
  /\ NoAnswer \notin Int
  /\ LengthOf \in [Media -> Int \cup {NoAnswer}]
  /\ SectorOf \in [Media -> Nat \cup {NoAnswer}]
  /\ \A m \in Media : LayoutOf[m] # NoAnswer =>
       /\ IsBuffer(LayoutOf[m])
       /\ \A i \in 0 .. LayoutOf[m].count - 1 : Fits(LayoutOf[m], i)
  /\ ByteRank \in [Drives -> Nat]
  /\ \A n, o \in Drives : ByteRank[n] = ByteRank[o] => n = o

VARIABLES
  \* the system
  drive,      \* drive[n]: the medium behind number n, or NoMedium
  denied,     \* the numbers this process may not open
  taken,      \* the numbers another program has opened for itself
  handles,    \* the handles this process holds, by number
  \* kept for the properties, since the last call began
  disturbed,  \* the numbers whose drive came, went, was taken or given back
  changes,    \* how often that happened
  \* the backend's locals
  pc, n, live, size_bytes, sector, disks, access_denied,
  \* what the last call returned
  outcome

system == <<drive, denied, taken>>
history == <<disturbed, changes>>
locals == <<n, live, size_bytes, sector, disks, access_denied>>
vars == <<system, handles, history, pc, locals, outcome>>

Attached(k) == drive[k] # NoMedium
NoOutcome == [status |-> "none", disks |-> <<>>]
\* A request answers with x, unless the drive is gone or cannot say.
Answers(x) == live /\ x # NoAnswer

-----------------------------------------------------------------------------
(* The system. *)

Disturb(k) == /\ changes < MaxChanges
              /\ changes' = changes + 1
              /\ disturbed' = disturbed \cup {k}
              /\ UNCHANGED <<denied, handles, pc, n, size_bytes, sector, disks,
                             access_denied, outcome>>

Plug(k, m) == /\ ~Attached(k)
              /\ \A o \in Drives : drive[o] # m
              /\ k \notin handles
              /\ drive' = [drive EXCEPT ![k] = m]
              /\ Disturb(k)
              /\ UNCHANGED <<taken, live>>

Unplug(k) == /\ Attached(k)
             /\ drive' = [drive EXCEPT ![k] = NoMedium]
             /\ taken' = taken \ {k}
             /\ live' = (live /\ n # k)
             /\ Disturb(k)

\* Exclusive use is refused while this process has the drive open.
Take(k) == /\ Attached(k) /\ k \notin taken \cup handles
           /\ taken' = taken \cup {k}
           /\ Disturb(k)
           /\ UNCHANGED <<drive, live>>

GiveBack(k) == /\ k \in taken
               /\ taken' = taken \ {k}
               /\ Disturb(k)
               /\ UNCHANGED <<drive, live>>

System == \/ \E k \in Drives, m \in Media : Plug(k, m)
          \/ \E k \in Drives : Unplug(k) \/ Take(k) \/ GiveBack(k)

-----------------------------------------------------------------------------
(* The backend. *)

Call == /\ pc = "idle"
        /\ pc' = "open"
        /\ n' = 0 /\ disks' = <<>> /\ access_denied' = FALSE
        /\ disturbed' = {} /\ changes' = 0
        /\ outcome' = NoOutcome
        /\ UNCHANGED <<system, handles, live, size_bytes, sector>>

\* Mutants of Refused: a refusal is one of the errors that are ignored; any
\* error but "not found" is one.
RefusalIgnored(k) == FALSE
RefusalAny(k) == Attached(k)
Refused(k) == Attached(k) /\ k \in denied

\* Mutants of GoOn: the first failure ends the probe; the same number again.
GiveUp == n' = MAX_DRIVES
TryAgain == n' = n
GoOn == n' = n + 1

\* CreateFileW fails when there is no such drive, when this process may not
\* open it, and when another program has it for itself.  Only a refusal is
\* remembered.
OpenFails == /\ pc = "open" /\ n < MAX_DRIVES
             /\ ~Attached(n) \/ n \in taken \cup denied
             /\ access_denied' = (access_denied \/ Refused(n))
             /\ GoOn
             /\ UNCHANGED <<system, handles, history, pc, live, size_bytes, sector, disks,
                            outcome>>

OpenDrive == /\ pc = "open" /\ n < MAX_DRIVES
             /\ Attached(n) /\ n \notin taken \cup denied
             /\ handles' = handles \cup {n}
             /\ live' = TRUE
             /\ pc' = "length"
             /\ UNCHANGED <<system, history, n, size_bytes, sector, disks, access_denied,
                            outcome>>

\* Mutant of SizeFrom: the signed length is taken as it is.
SignedSize(answer) == answer
SizeFrom(answer) == NonNegative(answer)

\* A length that is not given, or negative, is 0.
QueryLength ==
  /\ pc = "length"
  /\ size_bytes' = IF Answers(LengthOf[drive[n]]) THEN SizeFrom(LengthOf[drive[n]]) ELSE 0
  /\ pc' = "geometry"
  /\ UNCHANGED <<system, handles, history, n, live, sector, disks, access_denied, outcome>>

\* A sector size that is not given, or 0, is 512.
QueryGeometry ==
  /\ pc = "geometry"
  /\ LET answer == IF Answers(SectorOf[drive[n]]) THEN SectorOf[drive[n]] ELSE 0
     IN  sector' = IF answer = 0 THEN 512 ELSE answer
  /\ pc' = "layout"
  /\ UNCHANGED <<system, handles, history, n, live, size_bytes, disks, access_denied, outcome>>

\* A layout is given when it fits in the buffer; the parser is handed the whole
\* buffer.
HasLayout(m) == LayoutOf[m] # NoAnswer /\ LayoutOf[m].len =< LAYOUT_BUF
Layout(m) == [len |-> LAYOUT_BUF, style |-> LayoutOf[m].style,
              count |-> LayoutOf[m].count, slot |-> LayoutOf[m].slot]

\* What parse_drive_layout makes of each drive's layout, in on-disk order.
Tables ==
  [m \in {m \in Media : HasLayout(m)} |->
     LET rs == Records(Layout(m)) IN SortedBy(rs, [k \in DOMAIN rs |-> rs[k].start])]

PartitionsOf(m) ==
  [k \in DOMAIN Tables[m] |->
     LET r == Tables[m][k]
     IN  [dev |-> <<n, r.number>>, start |-> r.start, size |-> r.length,
          mount |-> NoMount, type |-> r.type, label |-> r.name]]

ReadDisk == [name |-> n, size |-> size_bytes, logical |-> sector, physical |-> sector,
             removable |-> FALSE, read_only |-> FALSE, synthesized |-> FALSE,
             partitions |-> PartitionsOf(drive[n])]

\* Mutant of Then: an early `continue` when there is no layout.
ThenLeave(answered) == IF answered THEN pc' = "close" /\ UNCHANGED n
                       ELSE pc' = "open" /\ GoOn
Then(answered) == pc' = "close" /\ UNCHANGED n

\* No layout, no disk: read_disk returns None.
QueryLayout ==
  /\ pc = "layout"
  /\ LET answered == live /\ HasLayout(drive[n]) IN
     /\ disks' = IF answered THEN Append(disks, ReadDisk) ELSE disks
     /\ Then(answered)
  /\ UNCHANGED <<system, handles, history, live, size_bytes, sector, access_denied, outcome>>

Close ==
  /\ pc = "close"
  /\ handles' = handles \ {n}
  /\ n' = n + 1
  /\ live' = FALSE /\ size_bytes' = 0 /\ sector' = 0
  /\ pc' = "open"
  /\ UNCHANGED <<system, history, disks, access_denied, outcome>>

\* Mutant of ByName: the order in which the drives were opened.
ByNumber(ds) == ds

ByName(ds) == SortedBy(ds, [k \in DOMAIN ds |-> ByteRank[ds[k].name]])

\* Nothing was found and something was refused: that is an error.
Finish ==
  /\ pc = "open" /\ n = MAX_DRIVES
  /\ outcome' = IF disks = <<>> /\ access_denied THEN [status |-> "err", disks |-> <<>>]
                ELSE [status |-> "ok", disks |-> ByName(disks)]
  /\ pc' = "idle"
  /\ n' = 0 /\ disks' = <<>> /\ access_denied' = FALSE
  /\ UNCHANGED <<system, handles, history, live, size_bytes, sector>>

Probe == OpenFails \/ OpenDrive \/ QueryLength
         \/ QueryGeometry \/ QueryLayout \/ Close \/ Finish

Init == /\ drive \in [Drives -> Media \cup {NoMedium}]
        /\ \A k, o \in Drives : drive[k] = drive[o] /\ Attached(k) => k = o
        /\ denied \in SUBSET Drives
        /\ taken \in SUBSET {k \in Drives : Attached(k)}
        /\ handles = {} /\ disturbed = {} /\ changes = 0
        /\ pc = "idle" /\ n = 0 /\ live = FALSE /\ size_bytes = 0 /\ sector = 0
        /\ disks = <<>> /\ access_denied = FALSE /\ outcome = NoOutcome

Next == System \/ Call \/ Probe

Spec == Init /\ [][Next]_vars
FairSpec == Spec /\ WF_vars(Probe)
=============================================================================
