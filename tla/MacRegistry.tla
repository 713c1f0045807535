----------------------------- MODULE MacRegistry -----------------------------
(***************************************************************************)
(* The macOS backend (core/src/macos.rs): `collect_media` asks IOKit for   *)
(* the IOMedia objects there are, reads the properties of each in turn,    *)
(* and `assemble` groups them into disks.  The objects that match are      *)
(* fixed when the iterator is made; one that leaves the registry later can *)
(* still be iterated over, but may have lost its properties.               *)
(***************************************************************************)
EXTENDS StableSort

CONSTANTS Disks,      \* the N of the diskN names
          Media,      \* devices, and APFS containers
          Facts,      \* Facts[m]: the properties of m, Missing where there are none
          Slices,     \* Slices[m]: the partitions m can have, by number
          Missing,    \* a property that is not there, or not of its type
          MaxChanges, \* bound on what happens to the registry between two calls
          U32         \* 2^32 in the code: how far `as u32` counts

Whole == 0
FactNames == {"size", "block", "removable", "writable", "apfs"}

ASSUME DiskAssumption ==
  /\ Disks \subseteq Nat /\ IsFiniteSet(Disks)
  /\ MaxChanges \in Nat /\ U32 \in Nat \ {0}
  /\ Missing \notin Int \cup BOOLEAN
ASSUME MediaAssumption ==
  /\ DOMAIN Facts = Media /\ DOMAIN Slices = Media
  /\ \A m \in Media :
       /\ DOMAIN Facts[m] = FactNames
       /\ Facts[m].size \in Int \cup {Missing} /\ Facts[m].block \in Int \cup {Missing}
       /\ Facts[m].removable \in BOOLEAN \cup {Missing}
       /\ Facts[m].writable \in BOOLEAN \cup {Missing} /\ Facts[m].apfs \in BOOLEAN
       /\ DOMAIN Slices[m] \subseteq Nat \ {Whole}
       /\ \A s \in DOMAIN Slices[m] :
            Slices[m][s].base \in Int \cup {Missing} /\ Slices[m][s].size \in Int \cup {Missing}

VARIABLES
  registry,   \* the IOMedia objects: <<disk, number, medium>>
  readable,   \* IOServiceGetMatchingServices works
  \* kept for the properties, since the last call began
  moved,      \* the disks that came or went
  resliced,   \* the disks whose partitions came or went
  left,       \* the objects that left
  changes,    \* how much happened
  \* the backend's locals
  pc, matches, entry, media,
  refs,       \* the IOKit references it holds
  outcome     \* what the last call returned

history == <<moved, resliced, left, changes>>
vars == <<registry, readable, history, pc, matches, entry, media, refs, outcome>>

Numbers == UNION {DOMAIN Slices[m] : m \in Media}
Object == Disks \X ({Whole} \cup Numbers) \X Media
NoEntry == <<>>
NoOutcome == [status |-> "none", disks |-> <<>>]

-----------------------------------------------------------------------------
(* The registry. *)

ObjectsOf(d) == {o \in registry : o[1] = d}

Happens == /\ changes < MaxChanges
           /\ changes' = changes + 1
           /\ UNCHANGED <<readable, pc, matches, entry, media, refs, outcome>>

\* A whole disk is published before its partitions are.
Publish(d, m) ==
  /\ ObjectsOf(d) = {}
  /\ \A o \in registry : o[3] # m
  /\ registry' = registry \cup {<<d, Whole, m>>}
  /\ moved' = moved \cup {d}
  /\ UNCHANGED <<resliced, left>>
  /\ Happens

PublishSlice(d, m, s) ==
  /\ <<d, Whole, m>> \in registry /\ <<d, s, m>> \notin registry
  /\ s \in DOMAIN Slices[m]
  /\ registry' = registry \cup {<<d, s, m>>}
  /\ resliced' = resliced \cup {d}
  /\ UNCHANGED <<moved, left>>
  /\ Happens

WithdrawSlice(o) ==
  /\ o \in registry /\ o[2] # Whole
  /\ registry' = registry \ {o}
  /\ resliced' = resliced \cup {o[1]}
  /\ left' = left \cup {o}
  /\ UNCHANGED moved
  /\ Happens

\* A disk's partitions go with it.
Withdraw(d) ==
  /\ ObjectsOf(d) # {}
  /\ registry' = registry \ ObjectsOf(d)
  /\ moved' = moved \cup {d}
  /\ left' = left \cup ObjectsOf(d)
  /\ UNCHANGED resliced
  /\ Happens

Registry == \/ \E d \in Disks, m \in Media :
                 Publish(d, m) \/ \E s \in Numbers : PublishSlice(d, m, s)
            \/ \E o \in registry : WithdrawSlice(o)
            \/ \E d \in Disks : Withdraw(d)

-----------------------------------------------------------------------------
(* assemble *)

\* Mutant of NonNegative: a signed number is taken as it is.
AsSigned(x) == x
NonNegative(x) == IF x < 0 THEN 0 ELSE x
AtLeastOne(x) == IF x < 1 THEN 1 ELSE x
Or(x, default) == IF x = Missing THEN default ELSE x

\* read_media's RawMedia.  `medium` is kept for the properties.  IOKit says of
\* every IOMedia whether it is whole; the registry of the model holds those that
\* have a name, for one without "BSD Name" is passed over like one that is not
\* there (macos.rs:172).
RawMedia(o) ==
  LET f == Facts[o[3]]
      s == IF o[2] = Whole THEN [base |-> Missing, size |-> f.size] ELSE Slices[o[3]][o[2]]
  IN  [bsd |-> <<o[1], o[2]>>, medium |-> o[3],
       size |-> NonNegative(Or(s.size, 0)),
       block |-> AtLeastOne(Or(f.block, 512)) % U32,
       base |-> NonNegative(Or(s.base, 0)),
       whole |-> o[2] = Whole,
       removable |-> Or(f.removable, FALSE),
       writable |-> Or(f.writable, TRUE),
       apfs |-> f.apfs]

\* Mutant of SlicesOf: every partition is taken for each disk's own.
SlicesOfAny(ms, d) == Picked(ms, {i \in DOMAIN ms : ~ms[i].whole})

\* whole_disk_of: a partition belongs to the disk its name begins with.
SlicesOf(ms, d) == Picked(ms, {i \in DOMAIN ms : ~ms[i].whole /\ ms[i].bsd[1] = d})

\* Mutant of ByBase: registry order.
ByRegistry(ps) == ps
ByBase(ps) == SortedBy(ps, [k \in DOMAIN ps |-> ps[k].base])

PhysicalDisk(ms, w) ==
  LET ps == ByBase(SlicesOf(ms, w.bsd[1]))
  IN  [name |-> w.bsd[1], medium |-> w.medium, size |-> w.size,
       logical |-> w.block, physical |-> w.block,
       removable |-> w.removable, read_only |-> ~w.writable, synthesized |-> w.apfs,
       partitions |-> [k \in DOMAIN ps |->
         [dev |-> ps[k].bsd, medium |-> ps[k].medium, start |-> ps[k].base, size |-> ps[k].size]]]

\* Disks in the order of their numbers; a partition whose disk is not among
\* the media is dropped.
assemble(ms) ==
  LET wholes == Picked(ms, {i \in DOMAIN ms : ms[i].whole})
  IN  SortedBy([k \in DOMAIN wholes |-> PhysicalDisk(ms, wholes[k])],
               [k \in DOMAIN wholes |-> wholes[k].bsd[1]])

-----------------------------------------------------------------------------
(* collect_media *)

Call ==
  /\ pc = "idle"
  /\ pc' = "match"
  /\ moved' = {} /\ resliced' = {} /\ left' = {} /\ changes' = 0
  /\ outcome' = NoOutcome
  /\ UNCHANGED <<registry, readable, matches, entry, media, refs>>

Fail ==
  /\ outcome' = [status |-> "err", disks |-> <<>>]
  /\ pc' = "idle"
  /\ matches' = {} /\ entry' = NoEntry /\ media' = <<>>
  /\ UNCHANGED refs

\* No dictionary, or no iterator.
MatchFails ==
  /\ pc = "match" /\ ~readable
  /\ Fail
  /\ UNCHANGED <<registry, readable, history>>

Match ==
  /\ pc = "match" /\ readable
  /\ matches' = registry
  /\ refs' = refs + 1
  /\ pc' = "next"
  /\ UNCHANGED <<registry, readable, history, entry, media, outcome>>

\* IOIteratorNext, in no order that is promised.
NextEntry(o) ==
  /\ pc = "next" /\ o \in matches
  /\ matches' = matches \ {o}
  /\ entry' = o
  /\ refs' = refs + 1
  /\ pc' = "read"
  /\ UNCHANGED <<registry, readable, history, media, outcome>>

ReadMedia ==
  /\ pc = "read"
  /\ media' = Append(media, RawMedia(entry))
  /\ pc' = "release"
  /\ UNCHANGED <<registry, readable, history, matches, entry, refs, outcome>>

\* Mutant of PassOver: the loop goes on without releasing the object.
KeepObject == pc' = "next" /\ entry' = NoEntry /\ UNCHANGED <<matches, media, refs, outcome>>
PassOver == pc' = "release" /\ UNCHANGED <<matches, entry, media, refs, outcome>>

\* An object that left the registry may have no properties any more.
ReadNothing ==
  /\ pc = "read" /\ entry \in left
  /\ PassOver
  /\ UNCHANGED <<registry, readable, history>>

ReleaseEntry ==
  /\ pc = "release"
  /\ refs' = refs - 1
  /\ entry' = NoEntry
  /\ pc' = "next"
  /\ UNCHANGED <<registry, readable, history, matches, media, outcome>>

\* Mutant of Exhausted: an object that is gone ends the iteration.
EndsEarly == matches = {} \/ matches \cap left # {}
Exhausted == matches = {}

\* The iterator is released and the media are assembled.
Finish ==
  /\ pc = "next" /\ Exhausted
  /\ refs' = refs - 1
  /\ outcome' = [status |-> "ok", disks |-> assemble(media)]
  /\ matches' = {} /\ media' = <<>>
  /\ pc' = "idle"
  /\ UNCHANGED <<registry, readable, history, entry>>

Collect == MatchFails \/ Match \/ (\E o \in matches : NextEntry(o))
           \/ ReadMedia \/ ReadNothing \/ ReleaseEntry \/ Finish

\* Any media may be attached already, with all their partitions.
Unplugged == -1
Init ==
  /\ \E at \in [Media -> Disks \cup {Unplugged}] :
       /\ \A m, o \in Media : at[m] = at[o] => m = o \/ at[m] = Unplugged
       /\ registry = {o \in Object : at[o[3]] = o[1] /\ o[2] \in {Whole} \cup DOMAIN Slices[o[3]]}
  /\ readable \in BOOLEAN
  /\ moved = {} /\ resliced = {} /\ left = {} /\ changes = 0
  /\ pc = "idle" /\ matches = {} /\ entry = NoEntry /\ media = <<>> /\ refs = 0
  /\ outcome = NoOutcome

Next == Registry \/ Call \/ Collect

Spec == Init /\ [][Next]_vars
=============================================================================
