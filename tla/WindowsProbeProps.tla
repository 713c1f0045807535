-------------------------- MODULE WindowsProbeProps --------------------------
(***************************************************************************)
(* What the Windows backend must guarantee, and what the documentation     *)
(* says of it.                                                             *)
(***************************************************************************)
EXTENDS WindowsProbe

T == INSTANCE Triage

Partition == [dev : Drives \X Nat, start : Nat, size : Nat, mount : {NoMount},
              type : Nat \cup {None}, label : Seq(Nat)]
PhysicalDisk == [name : Drives, size : Nat, logical : Nat, physical : Nat,
                 removable : BOOLEAN, read_only : BOOLEAN, synthesized : BOOLEAN,
                 partitions : Seq(Partition)]

TypeOK ==
  /\ drive \in [Drives -> Media \cup {NoMedium}]
  /\ denied \subseteq Drives /\ taken \subseteq Drives /\ handles \subseteq Drives
  /\ disturbed \subseteq Drives /\ changes \in Nat
  /\ pc \in {"idle", "open", "length", "geometry", "layout", "close"}
  /\ n \in 0 .. MAX_DRIVES
  /\ live \in BOOLEAN /\ access_denied \in BOOLEAN
  /\ size_bytes \in Nat /\ sector \in Nat
  /\ disks \in Seq(PhysicalDisk)
  /\ outcome \in [status : {"none", "ok", "err"}, disks : Seq(PhysicalDisk)]

Returned == pc = "idle" /\ outcome.status = "ok"
Listed == {outcome.disks[k].name : k \in DOMAIN outcome.disks}
Still(k) == k \notin disturbed

Answer(x, default) == IF x = NoAnswer \/ x = 0 THEN default ELSE NonNegative(x)

\* The drive is looked for, can be opened and has a layout that fits in the
\* buffer.
Probed == {k \in Drives : k < MAX_DRIVES}
Readable(k) == /\ k \in Probed
               /\ Attached(k) /\ k \notin denied \cup taken
               /\ LayoutOf[drive[k]] # NoAnswer
               /\ LayoutOf[drive[k]].len =< LAYOUT_BUF

\* What a name field says: the text from its first to its last letter, of the
\* units before any NUL.
NameIn(s) ==
  LET ink == {x \in DOMAIN s : s[x] # Blank /\ \A y \in 1 .. x : s[y] # Nul}
  IN  IF ink = {} THEN NoName
      ELSE SubSeq(s, CHOOSE x \in ink : \A y \in ink : x =< y,
                     CHOOSE x \in ink : \A y \in ink : y =< x)

\* The used slots of each drive's layout; only an MBR and a GPT have types, and
\* only a GPT has names.
TableSays ==
  [m \in {m \in Media : LayoutOf[m] # NoAnswer} |->
     LET b == LayoutOf[m]
     IN  {[number |-> b.slot[j].number, start |-> NonNegative(b.slot[j].start),
           size |-> b.slot[j].length,
           type |-> IF b.style \in {STYLE_MBR, STYLE_GPT} THEN b.slot[j].type ELSE None,
           label |-> IF b.style = STYLE_GPT THEN NameIn(b.slot[j].name) ELSE NoName] :
            j \in Reported(b)}]

ReportsDrive(d) ==
  LET m == drive[d.name] IN
  /\ d.size = Answer(LengthOf[m], 0)
  /\ d.logical = Answer(SectorOf[m], 512) /\ d.physical = d.logical
  /\ {[number |-> p.dev[2], start |-> p.start, size |-> p.size, type |-> p.type,
    label |-> p.label] :
        p \in {d.partitions[k] : k \in DOMAIN d.partitions}} = TableSays[m]

\* A drive that held still while a call ran, that could be opened and has a
\* layout is listed with its own length, sector size and partitions; one that
\* is not there or cannot be opened is not listed, whatever became of the
\* others (windows.rs:47-76, 88-146).
StableDrivesExact ==
  Returned =>
    /\ \A k \in Drives : Still(k) => (k \in Listed <=> Readable(k))
    /\ \A k \in DOMAIN outcome.disks :
         Still(outcome.disks[k].name) => ReportsDrive(outcome.disks[k])

\* Every handle is closed before the next drive is opened and before the call
\* returns, also where a request failed or the drive went (windows.rs:72-76).
HandlesClosed ==
  /\ pc \in {"idle", "open"} => handles = {}
  /\ pc \notin {"idle", "open"} => handles = {n}

\* An empty list is never a refusal in disguise: when every drive that was
\* looked for and was there throughout was refused, the call fails
\* (windows.rs:62-69, 78-82; lib.rs:27-30, docs/decisions/0005).
RefusalIsLoud ==
  (Returned /\ outcome.disks = <<>>) =>
    \A k \in Probed : Still(k) /\ Attached(k) => k \notin denied

\* A call that fails found nothing, and was refused one of the numbers it looks
\* for (windows.rs:47, 66, 78-82).
ErrorsExplained ==
  pc = "idle" /\ outcome.status = "err" =>
    /\ \E k \in Probed \cap denied : Attached(k) \/ ~Still(k)
    /\ \A k \in Drives : Still(k) => ~Readable(k)

\* Disks by name, partitions in on-disk order, whatever the slot order of the
\* table (windows.rs:83 and 130, lib.rs:112).
OnDiskOrder ==
  Returned =>
    /\ \A j, k \in DOMAIN outcome.disks :
         j < k => ByteRank[outcome.disks[j].name] < ByteRank[outcome.disks[k].name]
    /\ \A k \in DOMAIN outcome.disks :
         LET ps == outcome.disks[k].partitions IN
         \A a, b \in DOMAIN ps : a < b => ps[a].start =< ps[b].start

\* Every call ends, however drives come and go (windows.rs:47-76).
CallReturns == pc # "idle" ~> pc = "idle"

-----------------------------------------------------------------------------
(* What the documentation says, and the code does not do. *)

\* lib.rs:154-155: "a disk whose details cannot be read is still listed with
\* whatever the OS provided".  One whose layout cannot be read is dropped
\* (windows.rs:110-113).
ListedWithWhatIsKnown ==
  Returned => \A k \in Drives :
                Still(k) /\ Attached(k) /\ k \notin denied \cup taken => k \in Listed

\* docs/decisions/0007: "A read-only (write-blocked) target produces no
\* LIVE-WRITABLE".  The backend never asks, and calls every drive writable
\* (windows.rs:142).
ProtectedNotWritable ==
  Returned =>
    \A k \in DOMAIN outcome.disks :
      LET d == outcome.disks[k] IN
      (Still(d.name) /\ drive[d.name] \in Protected) =>
        "LIVE-WRITABLE" \notin T!Codes(T!analyse_target(d))
=============================================================================
