-------------------------- MODULE MacRegistryProofs --------------------------
(***************************************************************************)
(* The macOS backend's safety, and the strict promise it keeps, for any    *)
(* disks, any media and any number of changes to the registry.  The        *)
(* invariant speaks of the snapshot: the objects that a call has read or   *)
(* may still read.  It is one registry's worth, so no disk name in it has  *)
(* two devices, and it agrees with the registry on every disk that held    *)
(* still.                                                                  *)
(***************************************************************************)
EXTENDS MacRegistryProps, StableSortProofs

Members(ds) == {ds[j] : j \in DOMAIN ds}

\* An IOMedia object as the registry can hold it, and the one that was read.
Proper(o) == o \in Object /\ o[2] \in {Whole} \cup DOMAIN Slices[o[3]]
Obj(m) == <<m.bsd[1], m.bsd[2], m.medium>>
Objects(ms) == {Obj(m) : m \in Members(ms)}

\* A name has one device, a device one name, and a partition its disk.
OneDevice(O) == \A o, p \in O : o[1] = p[1] => o[3] = p[3]
RegistryWell ==
  /\ \A o \in registry : Proper(o) /\ <<o[1], Whole, o[3]>> \in registry
  /\ OneDevice(registry)
  /\ \A o, p \in registry : o[3] = p[3] => o[1] = p[1]
LeftSeen == \A o \in left : IF o[2] = Whole THEN o[1] \in moved ELSE ~Still(o[1])

\* Where the loop stands.
Iterating == pc \in {"next", "read", "release"}
Phase ==
  /\ entry = NoEntry <=> pc \notin {"read", "release"}
  /\ ~Iterating => matches = {} /\ media = <<>>
  /\ Iterating => readable
  /\ pc # "idle" => outcome = NoOutcome
  /\ ReferencesBalanced

\* What a call knows of the registry.
Snapshot == Objects(media) \cup matches \cup IF pc = "read" THEN {entry} ELSE {}
MediaWell(ms) ==
  /\ \A j \in DOMAIN ms : Proper(Obj(ms[j])) /\ ms[j] = RawMedia(Obj(ms[j]))
  /\ \A j, k \in DOMAIN ms : Obj(ms[j]) = Obj(ms[k]) => j = k
ReadOnce ==
  /\ MediaWell(media) /\ Objects(media) \cap matches = {}
  /\ entry \notin matches
  /\ pc = "read" => entry \notin Objects(media)
Agrees(O) ==
  /\ \A o \in O : Proper(o) /\ o[1] \in Attached \cup moved
  /\ OneDevice(O)
  /\ \A o \in registry : o[2] = Whole /\ o[1] \notin moved => o \in O
  /\ \A d \in Disks : Still(d) => {o \in O : o[1] = d} = ObjectsOf(d)

\* What was returned.
DiskWell(d) ==
  /\ \A p \in DOMAIN d.partitions :
       d.partitions[p].medium = d.medium /\ d.partitions[p].dev[1] = d.name
  /\ \A a, b \in DOMAIN d.partitions : a < b => d.partitions[a].start =< d.partitions[b].start
DiskTrue(d) == DiskWell(d) /\ (Still(d.name) => ReportsDisk(d))
InOrder(ds) == \A j, k \in DOMAIN ds : j < k => ds[j].name < ds[k].name
Delivered ==
  outcome.status = "ok" =>
    /\ InOrder(outcome.disks)
    /\ \A d \in Members(outcome.disks) : DiskTrue(d)
    /\ Listed \subseteq Attached \cup moved /\ Attached \ moved \subseteq Listed

MacInv == /\ TypeOK /\ RegistryWell /\ LeftSeen /\ Phase
          /\ ReadOnce /\ (Iterating => Agrees(Snapshot)) /\ Delivered

-----------------------------------------------------------------------------
(* The objects and the records made of them. *)

LEMMA ObjectParts ==
  /\ \A o \in Object : /\ o[1] \in Disks /\ o[2] \in {Whole} \cup Numbers /\ o[3] \in Media
                       /\ o = <<o[1], o[2], o[3]>> /\ o # NoEntry
  /\ \A d, s, m : <<d, s, m>> \in Object
                    <=> d \in Disks /\ s \in {Whole} \cup Numbers /\ m \in Media
<1>1. \A d, s, m : <<d, s, m>> # <<>>
  <2>1. \A d, s, m : Len(<<d, s, m>>) = 3
    OBVIOUS
  <2>2. Len(<<>>) = 0
    OBVIOUS
  <2> QED
    BY <2>1, <2>2
<1>2. \A o \in Object : /\ o[1] \in Disks /\ o[2] \in {Whole} \cup Numbers /\ o[3] \in Media
                        /\ o = <<o[1], o[2], o[3]>>
  BY DEF Object
<1> QED
  BY <1>1, <1>2 DEF Object, NoEntry

\* What read_media makes of an object (macos.rs:161-194).
LEMMA RawMediaIs ==
  ASSUME NEW o, Proper(o)
  PROVE  /\ RawMedia(o) \in RawType /\ Obj(RawMedia(o)) = o
         /\ RawMedia(o).whole <=> o[2] = Whole
         /\ RawMedia(o).bsd = <<o[1], o[2]>> /\ RawMedia(o).medium = o[3]
<1> DEFINE f == Facts[o[3]]
           s == IF o[2] = Whole THEN [base |-> Missing, size |-> f.size] ELSE Slices[o[3]][o[2]]
           block == AtLeastOne(Or(f.block, 512)) % U32
           base == NonNegative(Or(s.base, 0))
           size == NonNegative(Or(s.size, 0))
           removable == Or(f.removable, FALSE)
           writable == Or(f.writable, TRUE)
<1>1. /\ o \in Object /\ o[1] \in Disks /\ o[2] \in {Whole} \cup Numbers /\ o[3] \in Media
      /\ o = <<o[1], o[2], o[3]>>
  BY ObjectParts DEF Proper
<1>2. f.size \in Int \cup {Missing} /\ f.block \in Int \cup {Missing} /\ f.apfs \in BOOLEAN
      /\ f.removable \in BOOLEAN \cup {Missing} /\ f.writable \in BOOLEAN \cup {Missing}
  BY <1>1, MediaAssumption
<1>3. s.base \in Int \cup {Missing} /\ s.size \in Int \cup {Missing}
  <2>1. CASE o[2] = Whole
    BY <1>2, <2>1
  <2>2. CASE o[2] # Whole
    BY <1>1, <2>2, MediaAssumption DEF Proper
  <2> QED
    BY <2>1, <2>2
<1>4. base \in Nat /\ size \in Nat
  <2> HIDE DEF s
  <2> QED
    BY <1>3 DEF NonNegative, Or
<1>5. block \in Nat
  <2> HIDE DEF f
  <2>1. Or(f.block, 512) \in Int
    BY <1>2 DEF Or
  <2>2. AtLeastOne(Or(f.block, 512)) \in Nat
    BY <2>1 DEF AtLeastOne
  <2> QED
    BY <2>2, DiskAssumption
<1>6. removable \in BOOLEAN /\ writable \in BOOLEAN
  <2> HIDE DEF f
  <2> QED
    BY <1>2, Zenon DEF Or
<1>7. RawMedia(o) = [bsd |-> <<o[1], o[2]>>, medium |-> o[3], size |-> size, block |-> block,
                     base |-> base, whole |-> o[2] = Whole, removable |-> removable,
                     writable |-> writable, apfs |-> f.apfs]
  BY DEF RawMedia
<1>8. <<o[1], o[2]>> \in Disks \X ({Whole} \cup Numbers) /\ (o[2] = Whole) \in BOOLEAN
      /\ f.apfs \in BOOLEAN
  BY <1>1, <1>2
<1> HIDE DEF size, block, base, removable, writable, f
<1>9. RawMedia(o) \in RawType
  BY <1>1, <1>4, <1>5, <1>6, <1>7, <1>8 DEF RawType
<1>10. /\ RawMedia(o).bsd = <<o[1], o[2]>> /\ RawMedia(o).medium = o[3]
       /\ RawMedia(o).whole = (o[2] = Whole)
  BY <1>7
<1>11. Obj(RawMedia(o)) = o
  BY <1>1, <1>10 DEF Obj
<1> QED
  BY <1>9, <1>10, <1>11

\* A list of what was read.
LEMMA MediaParts ==
  ASSUME NEW ms \in Seq(RawType), MediaWell(ms)
  PROVE  /\ DOMAIN ms = 1 .. Len(ms) /\ Len(ms) \in Nat
         /\ \A j \in DOMAIN ms :
              /\ ms[j] \in RawType /\ Proper(Obj(ms[j])) /\ ms[j] = RawMedia(Obj(ms[j]))
              /\ Obj(ms[j]) = <<ms[j].bsd[1], ms[j].bsd[2], ms[j].medium>>
              /\ ms[j].whole <=> ms[j].bsd[2] = Whole
              /\ ms[j].bsd = <<ms[j].bsd[1], ms[j].bsd[2]>>
              /\ ms[j].bsd[1] \in Disks /\ ms[j].bsd[1] \in Nat
              /\ ms[j].bsd[2] \in {Whole} \cup Numbers
         /\ \A j, k \in DOMAIN ms :
              ms[j].bsd = ms[k].bsd /\ ms[j].medium = ms[k].medium => j = k
<1>1. DOMAIN ms = 1 .. Len(ms) /\ Len(ms) \in Nat /\ \A j \in DOMAIN ms : ms[j] \in RawType
  OBVIOUS
<1>2. \A m \in RawType : /\ m.bsd = <<m.bsd[1], m.bsd[2]>> /\ m.bsd[1] \in Disks
                         /\ m.bsd[2] \in {Whole} \cup Numbers
  BY DEF RawType
<1>3. \A j \in DOMAIN ms : Proper(Obj(ms[j])) /\ ms[j] = RawMedia(Obj(ms[j]))
  BY DEF MediaWell
<1>4. \A m : Obj(m) = <<m.bsd[1], m.bsd[2], m.medium>>
  BY DEF Obj
<1>5. \A j \in DOMAIN ms : ms[j].whole <=> ms[j].bsd[2] = Whole
  <2> TAKE j \in DOMAIN ms
  <2> DEFINE o == Obj(ms[j])
  <2>1. RawMedia(o).whole <=> o[2] = Whole
    BY <1>3, RawMediaIs
  <2>2. o[2] = ms[j].bsd[2]
    BY <1>4
  <2> QED
    BY <1>3, <2>1, <2>2
<1>6. \A j, k \in DOMAIN ms :
        ms[j].bsd = ms[k].bsd /\ ms[j].medium = ms[k].medium => j = k
  BY <1>4 DEF MediaWell
<1> QED
  BY <1>1, <1>2, <1>3, <1>4, <1>5, <1>6, DiskAssumption

\* What is read of a partition is what the registry says of it.
LEMMA SliceSays ==
  ASSUME NEW o, o[2] # Whole
  PROVE  LET r == RawMedia(o)
         IN  [dev |-> r.bsd, start |-> r.base, size |-> r.size] = PartitionSays(o)
BY DEF RawMedia, PartitionSays

\* A partition belongs to the disk whose name it begins with, and the disk's
\* partitions are its media, each once, by offset (macos.rs:68-104).
LEMMA DiskIs ==
  ASSUME NEW ms \in Seq(RawType), MediaWell(ms), OneDevice(Objects(ms)),
         NEW w \in Members(ms), w.whole
  PROVE  LET d == PhysicalDisk(ms, w)
             own == {o \in Objects(ms) : o[1] = w.bsd[1] /\ o[2] # Whole}
         IN  /\ d \in DiskType /\ DiskWell(d)
             /\ d.name = w.bsd[1] /\ d.medium = w.medium /\ d.size = w.size
             /\ d.logical = w.block
             /\ d.removable = w.removable /\ d.read_only = ~w.writable
             /\ d.physical = w.block /\ d.synthesized = w.apfs
             /\ PartitionsListed(d) = {PartitionSays(o) : o \in own}
             /\ Len(d.partitions) = Cardinality(own)
<1> DEFINE P == {i \in DOMAIN ms : ~ms[i].whole /\ ms[i].bsd[1] = w.bsd[1]}
           slices == Picked(ms, P)
           key == [k \in DOMAIN slices |-> slices[k].base]
           ps == SortedBy(slices, key)
           d == PhysicalDisk(ms, w)
           own == {o \in Objects(ms) : o[1] = w.bsd[1] /\ o[2] # Whole}
           rows == d.partitions
<1>1. /\ DOMAIN ms = 1 .. Len(ms) /\ Len(ms) \in Nat
      /\ \A j \in DOMAIN ms :
           /\ ms[j] \in RawType /\ Proper(Obj(ms[j])) /\ ms[j] = RawMedia(Obj(ms[j]))
           /\ Obj(ms[j]) = <<ms[j].bsd[1], ms[j].bsd[2], ms[j].medium>>
           /\ ms[j].whole <=> ms[j].bsd[2] = Whole
           /\ ms[j].bsd = <<ms[j].bsd[1], ms[j].bsd[2]>>
           /\ ms[j].bsd[1] \in Disks /\ ms[j].bsd[1] \in Nat
           /\ ms[j].bsd[2] \in {Whole} \cup Numbers
      /\ \A j, k \in DOMAIN ms :
           ms[j].bsd = ms[k].bsd /\ ms[j].medium = ms[k].medium => j = k
  BY MediaParts
<1>2. /\ IsFiniteSet(P) /\ Cardinality(P) \in Nat
      /\ slices \in Seq(RawType) /\ Len(slices) = Cardinality(P)
      /\ \A k \in 1 .. Cardinality(P) : Nth(P, k) \in P /\ slices[k] = ms[Nth(P, k)]
      /\ \A i \in P : \E k \in 1 .. Cardinality(P) : Nth(P, k) = i
  <2>1. P \subseteq DOMAIN ms
    OBVIOUS
  <2> HIDE DEF P
  <2> QED
    BY <2>1, PickedAre
<1>3. slices \in Seq(RawType) /\ Len(slices) \in Nat /\ DOMAIN slices = 1 .. Len(slices)
      /\ KeysOf(key, Len(slices))
      /\ \A k \in 1 .. Len(slices) : key[k] = slices[k].base
  <2> HIDE DEF slices
  <2>1. \A m \in RawType : m.base \in Int
    BY DEF RawType
  <2>2. slices \in Seq(RawType) /\ Len(slices) \in Nat /\ DOMAIN slices = 1 .. Len(slices)
        /\ \A k \in 1 .. Len(slices) : slices[k] \in RawType
    BY <1>2
  <2> QED
    BY <2>1, <2>2 DEF KeysOf
<1>4. ps \in Seq(RawType) /\ Len(ps) = Len(slices) /\ DOMAIN ps = 1 .. Len(slices)
  <2> HIDE DEF key, slices
  <2>1. ps \in Seq(RawType) /\ Len(ps) = Len(slices)
    BY <1>3, SortedByType
  <2> HIDE DEF ps
  <2> QED
    BY <2>1
<1>5. /\ \A i \in 1 .. Len(slices) : /\ Rank(key, i) \in 1 .. Len(slices)
                                     /\ ps[Rank(key, i)] = slices[i]
      /\ \A r \in 1 .. Len(slices) : /\ AtRank(key, r) \in 1 .. Len(slices)
                                     /\ ps[r] = slices[AtRank(key, r)]
      /\ \A q, r \in 1 .. Len(slices) : q < r => key[AtRank(key, q)] =< key[AtRank(key, r)]
  <2> HIDE DEF key, slices
  <2> QED
    BY <1>3, SortedByPermutes
<1>6. \A a, b \in DOMAIN ps : a < b => ps[a].base =< ps[b].base
  <2> HIDE DEF key, slices, ps, P
  <2> SUFFICES ASSUME NEW a \in DOMAIN ps, NEW b \in DOMAIN ps, a < b
               PROVE  ps[a].base =< ps[b].base
    OBVIOUS
  <2>1. ps[a].base = key[AtRank(key, a)] /\ ps[b].base = key[AtRank(key, b)]
    BY <1>3, <1>4, <1>5
  <2>2. key[AtRank(key, a)] =< key[AtRank(key, b)]
    BY <1>4, <1>5
  <2> QED
    BY <2>1, <2>2
<1>7. /\ \A k \in DOMAIN ps : \E i \in P : ps[k] = ms[i]
      /\ \A i \in P : \E k \in DOMAIN ps : ps[k] = ms[i]
  <2> HIDE DEF key, slices, ps, P
  <2>1. ASSUME NEW k \in DOMAIN ps
        PROVE  \E i \in P : ps[k] = ms[i]
    <3>1. AtRank(key, k) \in 1 .. Len(slices) /\ ps[k] = slices[AtRank(key, k)]
      BY <1>4, <1>5
    <3> QED
      BY <1>2, <3>1
  <2>2. ASSUME NEW i \in P
        PROVE  \E k \in DOMAIN ps : ps[k] = ms[i]
    <3>1. PICK j \in 1 .. Len(slices) : slices[j] = ms[i]
      BY <1>2
    <3> QED
      BY <1>4, <1>5, <3>1
  <2> QED
    BY <2>1, <2>2
<1>8. /\ DOMAIN rows = DOMAIN ps
      /\ \A k \in DOMAIN ps :
           /\ rows[k] = [dev |-> ps[k].bsd, medium |-> ps[k].medium,
                         start |-> ps[k].base, size |-> ps[k].size]
           /\ rows[k].dev = ps[k].bsd /\ rows[k].medium = ps[k].medium
           /\ rows[k].start = ps[k].base
      /\ rows = [k \in DOMAIN ps |-> rows[k]]
  <2>1. ps = ByBase(SlicesOf(ms, w.bsd[1]))
    BY DEF ByBase, SlicesOf
  <2>2. rows = [k \in DOMAIN ps |->
                  [dev |-> ps[k].bsd, medium |-> ps[k].medium,
                   start |-> ps[k].base, size |-> ps[k].size]]
    BY <2>1 DEF PhysicalDisk
  <2> HIDE DEF ps, rows
  <2> QED
    BY <2>2
<1>9. /\ d = [name |-> w.bsd[1], medium |-> w.medium, size |-> w.size,
              logical |-> w.block, physical |-> w.block,
              removable |-> w.removable, read_only |-> ~w.writable, synthesized |-> w.apfs,
              partitions |-> rows]
  BY DEF PhysicalDisk
<1>10. PICK v \in DOMAIN ms : w = ms[v]
  BY DEF Members
<1>11. \A i \in P : /\ i \in DOMAIN ms /\ ~ms[i].whole /\ ms[i].bsd[1] = w.bsd[1]
                    /\ ms[i].medium = w.medium
                    /\ Obj(ms[i]) \in own /\ ms[i].bsd \in Disks \X Numbers
  <2> TAKE i \in P
  <2>1. i \in DOMAIN ms /\ ~ms[i].whole /\ ms[i].bsd[1] = w.bsd[1]
    OBVIOUS
  <2> HIDE DEF P
  <2>2. Obj(ms[i]) \in Objects(ms) /\ Obj(w) \in Objects(ms)
    BY <1>10, <2>1 DEF Objects, Members
  <2>3. Obj(ms[i]) = <<w.bsd[1], ms[i].bsd[2], ms[i].medium>>
        /\ Obj(w) = <<w.bsd[1], w.bsd[2], w.medium>>
    BY <1>1, <1>10, <2>1
  <2>4. ms[i].medium = w.medium
    BY <2>2, <2>3 DEF OneDevice
  <2>5. ms[i].bsd[2] # Whole /\ ms[i].bsd[2] \in Numbers
    BY <1>1, <2>1
  <2>6. <<ms[i].bsd[1], ms[i].bsd[2]>> \in Disks \X Numbers
    BY <1>1, <2>1, <2>5
  <2>7. Obj(ms[i]) \in own
    BY <2>2, <2>3, <2>5
  <2> QED
    BY <1>1, <2>1, <2>4, <2>6, <2>7
<1>12. rows \in Seq(Partition)
  <2>1. \A m \in RawType : m.medium \in Media /\ m.base \in Nat /\ m.size \in Nat
    BY DEF RawType
  <2>2. ASSUME NEW k \in 1 .. Cardinality(P)
        PROVE  rows[k] \in Partition
    <3>1. PICK i \in P : ps[k] = ms[i]
      BY <1>2, <1>4, <1>7
    <3>2. ms[i].bsd \in Disks \X Numbers /\ ms[i] \in RawType
      BY <1>1, <1>11
    <3>3. rows[k] = [dev |-> ms[i].bsd, medium |-> ms[i].medium,
                     start |-> ms[i].base, size |-> ms[i].size]
      <4> HIDE DEF rows, ps, P, slices
      <4>1. k \in DOMAIN ps
        BY <1>2, <1>4
      <4> QED
        BY <1>8, <3>1, <4>1
    <3> HIDE DEF rows
    <3> QED
      BY <2>1, <3>2, <3>3 DEF Partition
  <2> HIDE DEF rows, ps, P
  <2> QED
    BY <1>2, <1>4, <1>8, <2>2, SMTT(30)
<1>13. d \in DiskType
  <2>1. w \in RawType
    BY <1>1, <1>10
  <2>2. /\ w.bsd[1] \in Disks /\ w.medium \in Media /\ w.size \in Nat /\ w.block \in Nat
        /\ w.removable \in BOOLEAN /\ (~w.writable) \in BOOLEAN /\ w.apfs \in BOOLEAN
    BY <2>1 DEF RawType
  <2> HIDE DEF d, rows
  <2> QED
    BY <1>9, <1>12, <2>2 DEF DiskType
<1>14. DiskWell(d)
  <2>1. d.name = w.bsd[1] /\ d.medium = w.medium
    BY <1>9
  <2>2. \A k \in DOMAIN rows : rows[k].medium = w.medium /\ rows[k].dev[1] = w.bsd[1]
    <3> SUFFICES ASSUME NEW k \in DOMAIN rows
                 PROVE  rows[k].medium = w.medium /\ rows[k].dev[1] = w.bsd[1]
      OBVIOUS
    <3>1. PICK i \in P : ps[k] = ms[i]
      BY <1>7, <1>8
    <3> HIDE DEF rows, ps, P
    <3>2. rows[k].medium = ps[k].medium /\ rows[k].dev = ps[k].bsd
      BY <1>8
    <3>3. ps[k].medium = w.medium /\ ps[k].bsd[1] = w.bsd[1]
      BY <1>11, <3>1
    <3> QED
      BY <3>2, <3>3
  <2>3. \A a, b \in DOMAIN rows : a < b => rows[a].start =< rows[b].start
    <3> HIDE DEF rows, ps
    <3> QED
      BY <1>6, <1>8
  <2> QED
    BY <2>1, <2>2, <2>3 DEF DiskWell
<1>15. \A o \in own : \E i \in P : Obj(ms[i]) = o
  <2> SUFFICES ASSUME NEW o \in own
               PROVE  \E i \in P : Obj(ms[i]) = o
    OBVIOUS
  <2>1. PICK i \in DOMAIN ms : o = Obj(ms[i])
    BY DEF Objects, Members
  <2> QED
    BY <1>1, <2>1
<1> DEFINE brief(k) == [dev |-> rows[k].dev, start |-> rows[k].start, size |-> rows[k].size]
<1>b. ASSUME NEW k \in DOMAIN rows, NEW i \in P, ps[k] = ms[i]
      PROVE  brief(k) = PartitionSays(Obj(ms[i]))
  <2>1. brief(k) = [dev |-> ms[i].bsd, start |-> ms[i].base, size |-> ms[i].size]
    <3> HIDE DEF rows, ps, P
    <3> QED
      BY <1>8, <1>b
  <2>2. ms[i] = RawMedia(Obj(ms[i])) /\ Obj(ms[i]) \in own
    BY <1>1, <1>11
  <2> HIDE DEF brief, P
  <2> QED
    BY <2>1, <2>2, SliceSays
<1>16. PartitionsListed(d) = {PartitionSays(o) : o \in own}
  <2>0. PartitionsListed(d) = {brief(k) : k \in DOMAIN rows}
    BY DEF PartitionsListed
  <2>1. \A k \in DOMAIN rows : \E o \in own : brief(k) = PartitionSays(o)
    <3> SUFFICES ASSUME NEW k \in DOMAIN rows
                 PROVE  \E o \in own : brief(k) = PartitionSays(o)
      OBVIOUS
    <3>1. PICK i \in P : ps[k] = ms[i]
      BY <1>7, <1>8
    <3>2. Obj(ms[i]) \in own
      BY <1>11
    <3> HIDE DEF brief, rows, ps, P, own
    <3> QED
      BY <1>b, <3>1, <3>2
  <2>2. \A o \in own : \E k \in DOMAIN rows : brief(k) = PartitionSays(o)
    <3> SUFFICES ASSUME NEW o \in own
                 PROVE  \E k \in DOMAIN rows : brief(k) = PartitionSays(o)
      OBVIOUS
    <3>1. PICK i \in P : Obj(ms[i]) = o
      BY <1>15
    <3>2. PICK k \in DOMAIN ps : ps[k] = ms[i]
      BY <1>7
    <3>3. k \in DOMAIN rows
      BY <1>8, <3>2
    <3> HIDE DEF brief, rows, ps, P, own
    <3> QED
      BY <1>b, <3>1, <3>2, <3>3
  <2> HIDE DEF brief, rows, own, d
  <2> QED
    BY <2>0, <2>1, <2>2
<1>17. Cardinality(own) = Cardinality(P)
  <2> DEFINE f == [i \in P |-> Obj(ms[i])]
  <2>1. \A i, j \in P : Obj(ms[i]) = Obj(ms[j]) => i = j
    BY DEF MediaWell
  <2>2. \A i \in P : Obj(ms[i]) \in own
    BY <1>11
  <2> HIDE DEF P, own
  <2>3. f \in Bijection(P, own)
    BY <1>15, <2>1, <2>2 DEF Bijection, Injection, Surjection, IsInjective
  <2>4. ExistsBijection(P, own)
    BY <2>3 DEF ExistsBijection
  <2> QED
    BY <1>2, <2>4, FS_Bijection
<1>18. Len(rows) = Cardinality(P)
  <2> HIDE DEF rows, ps, P
  <2> QED
    BY <1>2, <1>4, <1>8, <1>12
<1>19. /\ d.name = w.bsd[1] /\ d.medium = w.medium /\ d.size = w.size /\ d.logical = w.block
       /\ d.removable = w.removable /\ d.read_only = ~w.writable
       /\ d.physical = w.block /\ d.synthesized = w.apfs
  BY <1>9
<1> QED
  BY <1>13, <1>14, <1>16, <1>17, <1>18, <1>19

\* One disk is made of every whole object, in the order of their numbers, which
\* are all different (macos.rs:88-106).
LEMMA AssembleIs ==
  ASSUME NEW ms \in Seq(RawType), MediaWell(ms), OneDevice(Objects(ms))
  PROVE  /\ assemble(ms) \in Seq(DiskType) /\ InOrder(assemble(ms))
         /\ \A d \in Members(assemble(ms)) :
              \E w \in Members(ms) : w.whole /\ d = PhysicalDisk(ms, w)
         /\ \A w \in Members(ms) : w.whole => PhysicalDisk(ms, w) \in Members(assemble(ms))
<1> DEFINE P == {i \in DOMAIN ms : ms[i].whole}
           m == Cardinality(P)
           wholes == Picked(ms, P)
           disks == [k \in DOMAIN wholes |-> PhysicalDisk(ms, wholes[k])]
           key == [k \in DOMAIN wholes |-> wholes[k].bsd[1]]
           ds == SortedBy(disks, key)
<1>1. /\ DOMAIN ms = 1 .. Len(ms) /\ Len(ms) \in Nat
      /\ \A j \in DOMAIN ms :
           /\ Obj(ms[j]) = <<ms[j].bsd[1], ms[j].bsd[2], ms[j].medium>>
           /\ ms[j].whole <=> ms[j].bsd[2] = Whole
           /\ ms[j].bsd = <<ms[j].bsd[1], ms[j].bsd[2]>> /\ ms[j].bsd[1] \in Nat
      /\ \A j, k \in DOMAIN ms :
           ms[j].bsd = ms[k].bsd /\ ms[j].medium = ms[k].medium => j = k
  BY MediaParts
<1>2. /\ m \in Nat /\ wholes \in Seq(RawType) /\ Len(wholes) = m
      /\ \A k \in 1 .. m : Nth(P, k) \in P /\ wholes[k] = ms[Nth(P, k)]
      /\ \A k, l \in 1 .. m : Nth(P, k) = Nth(P, l) => k = l
      /\ \A i \in P : \E k \in 1 .. m : Nth(P, k) = i
  <2>1. P \subseteq DOMAIN ms
    OBVIOUS
  <2> HIDE DEF P
  <2>2. /\ m \in Nat /\ wholes \in Seq(RawType) /\ Len(wholes) = m
        /\ \A k \in 1 .. m : Nth(P, k) \in P /\ wholes[k] = ms[Nth(P, k)]
        /\ \A i \in P : \E k \in 1 .. m : Nth(P, k) = i
    BY <2>1, PickedAre
  <2>3. \A k, l \in 1 .. m : Nth(P, k) = Nth(P, l) => k = l
    BY <2>1, PickedAre
  <2> QED
    BY <2>2, <2>3
<1>3. assemble(ms) = ds
  BY DEF assemble
<1>4. \A k \in 1 .. m : wholes[k] \in Members(ms) /\ wholes[k].whole /\ wholes[k].bsd[1] \in Nat
  <2>1. \A i \in P : i \in DOMAIN ms /\ ms[i].whole
    OBVIOUS
  <2> HIDE DEF P, m, wholes
  <2> QED
    BY <1>1, <1>2, <2>1 DEF Members
<1>5. DOMAIN wholes = 1 .. m
  <2> HIDE DEF wholes, m
  <2> QED
    BY <1>2
<1>6. /\ disks \in Seq(DiskType) /\ Len(disks) = m /\ KeysOf(key, m)
      /\ \A k \in 1 .. m : /\ disks[k] = PhysicalDisk(ms, wholes[k])
                           /\ disks[k].name = key[k] /\ key[k] = wholes[k].bsd[1]
  <2> HIDE DEF wholes, m, P
  <2>1. \A k \in 1 .. m : /\ PhysicalDisk(ms, wholes[k]) \in DiskType
                          /\ PhysicalDisk(ms, wholes[k]).name = wholes[k].bsd[1]
    BY <1>4, DiskIs
  <2>2. disks = [k \in 1 .. m |-> PhysicalDisk(ms, wholes[k])]
        /\ key = [k \in 1 .. m |-> wholes[k].bsd[1]]
    BY <1>5
  <2> HIDE DEF disks, key
  <2> QED
    BY <1>2, <1>4, <2>1, <2>2 DEF KeysOf
<1>7. \A k, l \in 1 .. m : k # l => key[k] # key[l]
  <2> SUFFICES ASSUME NEW k \in 1 .. m, NEW l \in 1 .. m, key[k] = key[l]
               PROVE  k = l
    OBVIOUS
  <2> DEFINE i == Nth(P, k)
             j == Nth(P, l)
  <2>1. /\ i \in DOMAIN ms /\ j \in DOMAIN ms /\ ms[i].whole /\ ms[j].whole
        /\ wholes[k] = ms[i] /\ wholes[l] = ms[j]
    <3>1. \A x \in P : x \in DOMAIN ms /\ ms[x].whole
      OBVIOUS
    <3> HIDE DEF P, m, wholes
    <3> QED
      BY <1>2, <3>1
  <2>2. ms[i].bsd[1] = ms[j].bsd[1]
    <3> HIDE DEF P, m, wholes, i, j, key, disks
    <3> QED
      BY <1>6, <2>1
  <2> HIDE DEF P, m, wholes, key, disks
  <2>3. Obj(ms[i]) \in Objects(ms) /\ Obj(ms[j]) \in Objects(ms)
    BY <2>1 DEF Objects, Members
  <2>4. ms[i].medium = ms[j].medium
    BY <1>1, <2>1, <2>2, <2>3 DEF OneDevice
  <2>5. ms[i].bsd = ms[j].bsd
    <3> HIDE DEF i, j
    <3>1. ms[i].bsd[2] = Whole /\ ms[j].bsd[2] = Whole
      BY <1>1, <2>1
    <3>2. /\ ms[i].bsd = <<ms[i].bsd[1], ms[i].bsd[2]>>
          /\ ms[j].bsd = <<ms[j].bsd[1], ms[j].bsd[2]>>
      BY <1>1, <2>1
    <3> QED
      BY <2>2, <3>1, <3>2
  <2> QED
    BY <1>1, <1>2, <2>1, <2>4, <2>5
<1>8. /\ ds \in Seq(DiskType) /\ DOMAIN ds = 1 .. m
      /\ \A i \in 1 .. m : Rank(key, i) \in 1 .. m /\ ds[Rank(key, i)] = disks[i]
      /\ \A r \in 1 .. m : /\ AtRank(key, r) \in 1 .. m /\ Rank(key, AtRank(key, r)) = r
                           /\ ds[r] = disks[AtRank(key, r)]
      /\ \A q, r \in 1 .. m : q < r => key[AtRank(key, q)] =< key[AtRank(key, r)]
  <2> HIDE DEF key, disks, m
  <2>1. ds \in Seq(DiskType) /\ Len(ds) = m
    BY <1>6, SortedByType
  <2>2. /\ \A i \in 1 .. m : Rank(key, i) \in 1 .. m /\ ds[Rank(key, i)] = disks[i]
        /\ \A r \in 1 .. m : /\ AtRank(key, r) \in 1 .. m /\ Rank(key, AtRank(key, r)) = r
                             /\ ds[r] = disks[AtRank(key, r)]
        /\ \A q, r \in 1 .. m : q < r => key[AtRank(key, q)] =< key[AtRank(key, r)]
    BY <1>6, SortedByPermutes, SMTT(30)
  <2>3. DOMAIN ds = 1 .. m
    <3> HIDE DEF ds
    <3> QED
      BY <2>1
  <2> QED
    BY <2>1, <2>2, <2>3
<1> HIDE DEF ds, key, disks, wholes, m, P
<1>9. InOrder(ds)
  <2> SUFFICES ASSUME NEW q \in 1 .. m, NEW r \in 1 .. m, q < r
               PROVE  ds[q].name < ds[r].name
    BY <1>8 DEF InOrder
  <2> DEFINE a == AtRank(key, q)
             b == AtRank(key, r)
  <2>1. a \in 1 .. m /\ b \in 1 .. m /\ a # b /\ ds[q] = disks[a] /\ ds[r] = disks[b]
    BY <1>8
  <2>2. key[a] =< key[b]
    BY <1>8
  <2> HIDE DEF a, b
  <2>3. key[a] # key[b] /\ key[a] \in Int /\ key[b] \in Int
    BY <1>4, <1>6, <1>7, <2>1
  <2>4. ds[q].name = key[a] /\ ds[r].name = key[b]
    BY <1>6, <2>1
  <2> QED
    BY <2>2, <2>3, <2>4
<1>10. \A d \in Members(ds) : \E w \in Members(ms) : w.whole /\ d = PhysicalDisk(ms, w)
  <2> SUFFICES ASSUME NEW d \in Members(ds)
               PROVE  \E w \in Members(ms) : w.whole /\ d = PhysicalDisk(ms, w)
    OBVIOUS
  <2>1. PICK r \in 1 .. m : d = ds[r]
    BY <1>8 DEF Members
  <2> DEFINE a == AtRank(key, r)
  <2>2. a \in 1 .. m /\ d = disks[a]
    BY <1>8, <2>1
  <2> HIDE DEF a
  <2>3. d = PhysicalDisk(ms, wholes[a])
    BY <1>6, <2>2
  <2> QED
    BY <1>4, <2>2, <2>3
<1>11. \A w \in Members(ms) : w.whole => PhysicalDisk(ms, w) \in Members(ds)
  <2> SUFFICES ASSUME NEW w \in Members(ms), w.whole
               PROVE  PhysicalDisk(ms, w) \in Members(ds)
    OBVIOUS
  <2>1. PICK i \in DOMAIN ms : w = ms[i]
    BY DEF Members
  <2>2. i \in P
    BY <2>1 DEF P
  <2>3. PICK k \in 1 .. m : Nth(P, k) = i
    BY <1>2, <2>2
  <2>4. ds[Rank(key, k)] = PhysicalDisk(ms, w) /\ Rank(key, k) \in DOMAIN ds
    BY <1>2, <1>6, <1>8, <2>1, <2>3
  <2> QED
    BY <2>4 DEF Members
<1> QED
  BY <1>3, <1>8, <1>9, <1>10, <1>11

\* The disk that is made of a disk that held still is what there is.
LEMMA ReportIs ==
  ASSUME NEW ms \in Seq(RawType), MediaWell(ms), OneDevice(Objects(ms)), RegistryWell,
         NEW w \in Members(ms), w.whole,
         {o \in Objects(ms) : o[1] = w.bsd[1]} = ObjectsOf(w.bsd[1])
  PROVE  ReportsDisk(PhysicalDisk(ms, w))
<1> DEFINE d == PhysicalDisk(ms, w)
           v == CHOOSE o \in ObjectsOf(d.name) : o[2] = Whole
           f == Facts[v[3]]
           own == {o \in Objects(ms) : o[1] = w.bsd[1] /\ o[2] # Whole}
<1>1. /\ d.name = w.bsd[1] /\ d.size = w.size /\ d.logical = w.block
      /\ d.removable = w.removable /\ d.read_only = ~w.writable
      /\ d.physical = w.block /\ d.synthesized = w.apfs
      /\ PartitionsListed(d) = {PartitionSays(p) : p \in own}
      /\ Len(d.partitions) = Cardinality(own)
  BY DiskIs
<1>2. Obj(w) \in Objects(ms) /\ Proper(Obj(w)) /\ w = RawMedia(Obj(w))
  BY DEF Objects, MediaWell, Members
<1> DEFINE o == Obj(w)
<1>3. /\ o \in Object /\ o = <<o[1], o[2], o[3]>> /\ o[3] \in Media
      /\ w.whole <=> o[2] = Whole
      /\ w.bsd = <<o[1], o[2]>> /\ w.medium = o[3]
  BY <1>2, RawMediaIs, ObjectParts DEF Proper
<1>4. o \in registry /\ o[1] = d.name /\ o[2] = Whole
  <2>1. o \in {p \in Objects(ms) : p[1] = w.bsd[1]} /\ o[1] = w.bsd[1]
    BY <1>2, <1>3
  <2>2. o \in ObjectsOf(w.bsd[1])
    BY <2>1
  <2> HIDE DEF o, d
  <2> QED
    BY <1>1, <1>3, <2>1, <2>2 DEF ObjectsOf
<1>5. \A p \in registry : p[1] = d.name /\ p[2] = Whole => p = o
  <2> HIDE DEF o, d
  <2>1. \A p \in registry : p = <<p[1], p[2], p[3]>>
    BY ObjectParts DEF RegistryWell, Proper
  <2> QED
    BY <1>3, <1>4, <2>1 DEF RegistryWell, OneDevice
<1>6. v = o
  <2> HIDE DEF o, d
  <2>1. o \in ObjectsOf(d.name) /\ \A p \in ObjectsOf(d.name) : p[2] = Whole => p = o
    BY <1>4, <1>5 DEF ObjectsOf
  <2> QED
    BY <1>4, <2>1
<1>7. own = ObjectsOf(d.name) \ {v}
  <2>1. ObjectsOf(d.name) = {p \in Objects(ms) : p[1] = w.bsd[1]}
    BY <1>1
  <2>2. \A p \in ObjectsOf(d.name) : p \in registry /\ p[1] = d.name
    BY DEF ObjectsOf
  <2> HIDE DEF o, d, v
  <2> QED
    BY <1>4, <1>5, <1>6, <2>1, <2>2
<1>8. LET g == Facts[o[3]] IN
        /\ w.size = NonNegative(Or(g.size, 0))
        /\ w.block = AtLeastOne(Or(g.block, 512)) % U32
        /\ w.removable = Or(g.removable, FALSE) /\ w.writable = Or(g.writable, TRUE)
        /\ w.apfs = g.apfs
  <2> DEFINE r == RawMedia(o)
             g == Facts[o[3]]
  <2>1. /\ r.size = NonNegative(Or(g.size, 0))
        /\ r.block = AtLeastOne(Or(g.block, 512)) % U32
        /\ r.removable = Or(g.removable, FALSE) /\ r.writable = Or(g.writable, TRUE)
        /\ r.apfs = g.apfs
    <3> HIDE DEF o
    <3> QED
      BY <1>3, <1>4 DEF RawMedia
  <2> QED
    BY <1>2, <2>1
<1>9. f.block \in 1 .. U32 - 1 => w.block = f.block
  <2> SUFFICES ASSUME f.block \in 1 .. U32 - 1
               PROVE  AtLeastOne(Or(f.block, 512)) % U32 = f.block
    BY <1>6, <1>8, ZenonT(40)
  <2>1. f.block \in Int /\ f.block # Missing
    BY DiskAssumption
  <2> HIDE DEF f
  <2> QED
    BY <2>1, DiskAssumption DEF AtLeastOne, Or
<1>10. /\ f.removable \in BOOLEAN => w.removable = f.removable
       /\ f.writable \in BOOLEAN => w.writable = f.writable
  <2>1. f.removable \in BOOLEAN => f.removable # Missing
    BY DiskAssumption, Zenon
  <2>2. f.writable \in BOOLEAN => f.writable # Missing
    BY DiskAssumption, Zenon
  <2>3. w.removable = Or(f.removable, FALSE) /\ w.writable = Or(f.writable, TRUE)
    BY <1>6, <1>8
  <2> HIDE DEF f, v
  <2> QED
    BY <2>1, <2>2, <2>3, Zenon DEF Or
<1>11. /\ d.size = NonNegative(Or(f.size, 0))
       /\ d.physical = d.logical /\ d.synthesized = f.apfs
  BY <1>1, <1>6, <1>8
<1> HIDE DEF d, v, own, o
<1> QED
  BY <1>1, <1>7, <1>9, <1>10, <1>11 DEF ReportsDisk, d, v

-----------------------------------------------------------------------------
(* The registry changes. *)

\* What the changes leave alone: a disk that holds still, held still before and
\* has the objects it had; and what came or went is marked.
DisksKept ==
  /\ \A d : Still(d)' => Still(d) /\ ObjectsOf(d)' = ObjectsOf(d)
  /\ moved \subseteq moved' /\ Attached \subseteq Attached' \cup moved'
  /\ Attached' \subseteq Attached \cup moved'
  /\ \A o \in registry' : o[2] = Whole /\ o[1] \notin moved' => o \in registry

\* Every object of the registry is one that can be.
LEMMA RegistryParts ==
  ASSUME RegistryWell
  PROVE  \A o \in registry : /\ o \in Object /\ o[1] \in Disks /\ o[3] \in Media
                             /\ o = <<o[1], o[2], o[3]>>
                             /\ <<o[1], Whole, o[3]>> \in registry
BY ObjectParts DEF RegistryWell, Proper

LEMMA PublishMoves ==
  ASSUME TypeOK, RegistryWell, LeftSeen, NEW d \in Disks, NEW m \in Media, Publish(d, m)
  PROVE  /\ registry' \subseteq Object /\ moved' \subseteq Disks /\ resliced' \subseteq Disks
         /\ left' \subseteq Object
         /\ RegistryWell' /\ LeftSeen' /\ DisksKept
<1> USE DEF Publish
<1> DEFINE w == <<d, Whole, m>>
<1>1. /\ registry' = registry \cup {w} /\ moved' = moved \cup {d}
      /\ resliced' = resliced /\ left' = left
      /\ w[1] = d /\ w[2] = Whole /\ w[3] = m
  OBVIOUS
<1>2. \A o \in registry : o[1] # d /\ o[3] # m
  BY DEF ObjectsOf
<1>3. w \in Object /\ Proper(w)
  BY ObjectParts DEF Proper
<1> HIDE DEF Publish, w
<1>4. registry' \subseteq Object /\ moved' \subseteq Disks /\ resliced' \subseteq Disks
      /\ left' \subseteq Object
  BY <1>1, <1>3 DEF TypeOK
<1>5. RegistryWell'
  <2>1. \A o \in registry' : Proper(o) /\ <<o[1], Whole, o[3]>> \in registry'
    <3>1. w = <<w[1], Whole, w[3]>>
      BY <1>1 DEF w
    <3> QED
      BY <1>1, <1>3, <3>1 DEF RegistryWell
  <2>2. \A o, p \in registry' : o[1] = p[1] <=> o[3] = p[3]
    BY <1>1, <1>2 DEF RegistryWell, OneDevice
  <2> QED
    BY <2>1, <2>2 DEF RegistryWell, OneDevice
<1>6. LeftSeen'
  BY <1>1 DEF LeftSeen, Still
<1>7. DisksKept
  <2>1. \A e : Still(e)' => Still(e) /\ e # d
    BY <1>1 DEF Still
  <2>2. \A e : e # d => ObjectsOf(e)' = ObjectsOf(e)
    BY <1>1 DEF ObjectsOf
  <2>3. Attached \subseteq Attached' \cup moved' /\ Attached' \subseteq Attached \cup moved'
    BY <1>1 DEF Attached
  <2> QED
    BY <1>1, <2>1, <2>2, <2>3 DEF DisksKept
<1> QED
  BY <1>4, <1>5, <1>6, <1>7

LEMMA SliceMoves ==
  ASSUME TypeOK, RegistryWell, LeftSeen,
         \/ \E d \in Disks, m \in Media, s \in Numbers : PublishSlice(d, m, s)
         \/ \E o \in registry : WithdrawSlice(o)
  PROVE  /\ registry' \subseteq Object /\ moved' \subseteq Disks /\ resliced' \subseteq Disks
         /\ left' \subseteq Object
         /\ RegistryWell' /\ LeftSeen' /\ DisksKept /\ Attached' = Attached
<1>1. PICK p \in Object :
        /\ Proper(p) /\ p[2] # Whole /\ <<p[1], Whole, p[3]>> \in registry
        /\ moved' = moved /\ resliced' = resliced \cup {p[1]}
        /\ \/ registry' = registry \cup {p} /\ left' = left
           \/ registry' = registry \ {p} /\ left' = left \cup {p} /\ p \in registry
  <2>1. ASSUME NEW d \in Disks, NEW m \in Media, NEW s \in Numbers, PublishSlice(d, m, s)
        PROVE  LET p == <<d, s, m>> IN
               /\ p \in Object
               /\ Proper(p) /\ p[2] # Whole /\ <<p[1], Whole, p[3]>> \in registry
               /\ moved' = moved /\ resliced' = resliced \cup {p[1]}
               /\ registry' = registry \cup {p} /\ left' = left
    <3>1. <<d, s, m>> \in Object /\ s \in DOMAIN Slices[m] /\ s # Whole
      BY <2>1, ObjectParts, MediaAssumption DEF PublishSlice
    <3> QED
      BY <2>1, <3>1 DEF PublishSlice, Proper
  <2>2. ASSUME NEW o \in registry, WithdrawSlice(o)
        PROVE  /\ o \in Object
               /\ Proper(o) /\ o[2] # Whole /\ <<o[1], Whole, o[3]>> \in registry
               /\ moved' = moved /\ resliced' = resliced \cup {o[1]}
               /\ registry' = registry \ {o} /\ left' = left \cup {o}
    BY <2>2, RegistryParts DEF WithdrawSlice, RegistryWell
  <2> QED
    BY <2>1, <2>2
<1>2. p[1] \in Disks /\ p = <<p[1], p[2], p[3]>>
  BY ObjectParts
<1>3. registry' \subseteq Object /\ moved' \subseteq Disks /\ resliced' \subseteq Disks
      /\ left' \subseteq Object
  BY <1>1, <1>2 DEF TypeOK
<1>4. \A o : o[2] = Whole => (o \in registry' <=> o \in registry)
  BY <1>1
<1>5. RegistryWell'
  <2>1. \A o \in registry' : Proper(o) /\ <<o[1], Whole, o[3]>> \in registry'
    <3> SUFFICES ASSUME NEW o \in registry'
                 PROVE  Proper(o) /\ <<o[1], Whole, o[3]>> \in registry'
      OBVIOUS
    <3>1. Proper(o) /\ <<o[1], Whole, o[3]>> \in registry
      BY <1>1 DEF RegistryWell
    <3> QED
      BY <1>4, <3>1
  <2>2. \A o, q \in registry : o[1] = q[1] <=> o[3] = q[3]
    BY DEF RegistryWell, OneDevice
  <2>3. \A o \in registry : o[1] = p[1] <=> o[3] = p[3]
    <3> DEFINE w == <<p[1], Whole, p[3]>>
    <3>1. w \in registry /\ w[1] = p[1] /\ w[3] = p[3]
      BY <1>1
    <3> HIDE DEF w
    <3> QED
      BY <2>2, <3>1
  <2>4. \A o, q \in registry' : o[1] = q[1] <=> o[3] = q[3]
    BY <1>1, <2>2, <2>3
  <2> QED
    BY <2>1, <2>4 DEF RegistryWell, OneDevice
<1>6. LeftSeen'
  BY <1>1 DEF LeftSeen, Still
<1>7. Attached' = Attached
  <2>1. ASSUME NEW o \in registry
        PROVE  \E w \in registry : w[1] = o[1] /\ w \in registry'
    <3> DEFINE w == <<o[1], Whole, o[3]>>
    <3>1. w \in registry /\ w[1] = o[1] /\ w[2] = Whole
      BY RegistryParts
    <3> HIDE DEF w
    <3> QED
      BY <1>4, <3>1
  <2>2. \A o \in registry' : \E w \in registry : w[1] = o[1]
    <3>1. <<p[1], Whole, p[3]>>[1] = p[1]
      OBVIOUS
    <3> QED
      BY <1>1, <3>1
  <2>3. Attached \subseteq Attached'
    BY <2>1 DEF Attached
  <2>4. Attached' \subseteq Attached
    BY <2>2 DEF Attached
  <2> QED
    BY <2>3, <2>4
<1>8. DisksKept
  <2>1. \A e : Still(e)' => Still(e) /\ e # p[1]
    BY <1>1 DEF Still
  <2>2. \A e : e # p[1] => ObjectsOf(e)' = ObjectsOf(e)
    BY <1>1 DEF ObjectsOf
  <2> QED
    BY <1>1, <1>4, <1>7, <2>1, <2>2 DEF DisksKept
<1> QED
  BY <1>3, <1>5, <1>6, <1>7, <1>8

LEMMA WithdrawMoves ==
  ASSUME TypeOK, RegistryWell, LeftSeen, NEW d \in Disks, Withdraw(d)
  PROVE  /\ registry' \subseteq Object /\ moved' \subseteq Disks /\ resliced' \subseteq Disks
         /\ left' \subseteq Object
         /\ RegistryWell' /\ LeftSeen' /\ DisksKept
<1>1. /\ moved' = moved \cup {d} /\ resliced' = resliced
      /\ \A o : o \in registry' <=> o \in registry /\ o[1] # d
      /\ \A o : o \in left' <=> o \in left \/ (o \in registry /\ o[1] = d)
  BY DEF Withdraw, ObjectsOf
<1>2. registry' \subseteq Object /\ moved' \subseteq Disks /\ resliced' \subseteq Disks
      /\ left' \subseteq Object
  BY <1>1 DEF TypeOK
<1>3. RegistryWell'
  <2>1. \A o \in registry' : Proper(o) /\ <<o[1], Whole, o[3]>> \in registry'
    <3> SUFFICES ASSUME NEW o \in registry'
                 PROVE  Proper(o) /\ <<o[1], Whole, o[3]>> \in registry'
      OBVIOUS
    <3> DEFINE w == <<o[1], Whole, o[3]>>
    <3>1. Proper(o) /\ w \in registry /\ w[1] = o[1]
      BY <1>1 DEF RegistryWell
    <3> HIDE DEF w
    <3>2. w \in registry'
      BY <1>1, <3>1
    <3> QED
      BY <3>1, <3>2 DEF w
  <2> QED
    BY <1>1, <2>1 DEF RegistryWell, OneDevice
<1>4. LeftSeen'
  BY <1>1 DEF LeftSeen, Still
<1>5. DisksKept
  <2>1. \A e : Still(e)' => Still(e) /\ e # d
    BY <1>1 DEF Still
  <2>2. \A e : e # d => ObjectsOf(e)' = ObjectsOf(e)
    BY <1>1 DEF ObjectsOf
  <2>3. Attached \subseteq Attached' \cup moved' /\ Attached' \subseteq Attached
    BY <1>1 DEF Attached
  <2> QED
    BY <1>1, <2>1, <2>2, <2>3 DEF DisksKept
<1> QED
  BY <1>2, <1>3, <1>4, <1>5

LEMMA RegistryMoves ==
  ASSUME TypeOK, RegistryWell, LeftSeen, Registry
  PROVE  /\ TypeOK' /\ RegistryWell' /\ LeftSeen' /\ DisksKept
         /\ UNCHANGED <<readable, pc, matches, entry, media, refs, outcome>>
<1>1. UNCHANGED <<readable, pc, matches, entry, media, refs, outcome>> /\ changes' \in Nat
  <2>1. Happens
    BY Zenon DEF Registry, Publish, PublishSlice, WithdrawSlice, Withdraw
  <2> QED
    BY <2>1 DEF Happens, TypeOK
<1>2. /\ registry' \subseteq Object /\ moved' \subseteq Disks /\ resliced' \subseteq Disks
      /\ left' \subseteq Object
      /\ RegistryWell' /\ LeftSeen' /\ DisksKept
  BY PublishMoves, SliceMoves, WithdrawMoves DEF Registry
<1> QED
  BY <1>1, <1>2 DEF TypeOK

LEMMA RegistryKeeps ==
  ASSUME MacInv, Registry
  PROVE  MacInv'
<1> USE DEF MacInv
<1>1. /\ TypeOK' /\ RegistryWell' /\ LeftSeen' /\ DisksKept
      /\ UNCHANGED <<readable, pc, matches, entry, media, refs, outcome>>
  BY RegistryMoves
<1>2. Phase' /\ ReadOnce'
  BY <1>1 DEF Phase, Iterating, ReferencesBalanced, ReadOnce, MediaWell, Objects, Members
<1>3. (Iterating => Agrees(Snapshot))'
  <2> SUFFICES ASSUME Iterating
               PROVE  Agrees(Snapshot)'
    BY <1>1 DEF Iterating
  <2>1. Snapshot' = Snapshot
    BY <1>1 DEF Snapshot, Objects, Members
  <2> QED
    BY <1>1, <2>1 DEF Agrees, DisksKept, OneDevice
<1>4. Delivered'
  <2>1. Listed' = Listed /\ Members(outcome.disks)' = Members(outcome.disks)
        /\ InOrder(outcome.disks)' = InOrder(outcome.disks)
    BY <1>1 DEF Listed, Members, InOrder
  <2>2. ASSUME NEW d, DiskTrue(d)
        PROVE  DiskTrue(d)'
    <3>1. DiskWell(d)' = DiskWell(d)
      BY DEF DiskWell
    <3>2. ASSUME Still(d.name)'
          PROVE  ReportsDisk(d)'
      <4>1. ReportsDisk(d) /\ ObjectsOf(d.name)' = ObjectsOf(d.name)
        BY <1>1, <2>2, <3>2 DEF DisksKept, DiskTrue
      <4> QED
        BY <4>1 DEF ReportsDisk
    <3> QED
      BY <2>2, <3>1, <3>2 DEF DiskTrue
  <2>3. (\A d \in Members(outcome.disks) : DiskTrue(d))
          => (\A d \in Members(outcome.disks) : DiskTrue(d))'
    BY <2>1, <2>2
  <2> QED
    BY <1>1, <2>1, <2>3 DEF Delivered, DisksKept
<1> QED
  BY <1>1, <1>2, <1>3, <1>4

-----------------------------------------------------------------------------
(* The backend's steps. *)

\* With the registry at rest, what is known of it stays.
LEMMA RestSame ==
  ASSUME UNCHANGED <<registry, readable, history>>
  PROVE  /\ \A d : Still(d)' = Still(d) /\ ObjectsOf(d)' = ObjectsOf(d)
         /\ Attached' = Attached
         /\ RegistryWell => RegistryWell'
         /\ LeftSeen => LeftSeen'
         /\ \A d : DiskTrue(d)' = DiskTrue(d)
<1> USE DEF history
<1>1. \A d : Still(d)' = Still(d) /\ ObjectsOf(d)' = ObjectsOf(d)
  BY DEF Still, ObjectsOf
<1>2. \A d : DiskTrue(d)' = DiskTrue(d)
  <2>1. \A d : ReportsDisk(d)' = ReportsDisk(d)
    BY <1>1 DEF ReportsDisk
  <2> QED
    BY <1>1, <2>1 DEF DiskTrue, DiskWell
<1>3. Attached' = Attached
  BY DEF Attached
<1>4. (RegistryWell => RegistryWell') /\ (LeftSeen => LeftSeen')
  BY DEF RegistryWell, OneDevice, LeftSeen, Still
<1> QED
  BY <1>1, <1>2, <1>3, <1>4

\* The snapshot keeps agreeing with the registry while neither changes.
LEMMA AgreementKept ==
  ASSUME UNCHANGED <<registry, readable, history>>, Agrees(Snapshot), Snapshot' = Snapshot
  PROVE  Agrees(Snapshot)'
BY RestSame DEF Agrees, OneDevice, history

\* While a call runs there is no result.
LEMMA NothingDelivered ==
  ASSUME outcome'.status # "ok"
  PROVE  Delivered'
BY DEF Delivered

LEMMA NoMedia ==
  MediaWell(<<>>) /\ Objects(<<>>) = {} /\ <<>> \in Seq(RawType)
BY DEF MediaWell, Objects, Members

LEMMA CallKeeps ==
  ASSUME MacInv, Call
  PROVE  MacInv'
<1> USE DEF MacInv, Call
<1>1. TypeOK'
  <2>1. NoOutcome \in [status : {"none", "ok", "err"}, disks : Seq(DiskType)]
    <3>1. \A D : [status |-> "none", disks |-> <<>>]
                   \in [status : {"none", "ok", "err"}, disks : Seq(D)]
      OBVIOUS
    <3> QED
      BY <3>1, Zenon DEF NoOutcome
  <2> QED
    BY <2>1 DEF TypeOK
<1>2. RegistryWell' /\ LeftSeen'
  BY DEF RegistryWell, OneDevice, LeftSeen
<1>3. Phase' /\ ~Iterating'
  BY DEF Phase, Iterating, ReferencesBalanced
<1>4. ReadOnce'
  BY DEF ReadOnce, MediaWell, Objects, Members
<1>5. Delivered'
  BY DEF Delivered, NoOutcome
<1> QED
  BY <1>1, <1>2, <1>3, <1>4, <1>5

LEMMA FailKeeps ==
  ASSUME MacInv, MatchFails
  PROVE  MacInv'
<1> USE DEF MacInv, MatchFails, Fail
<1>1. TypeOK'
  <2>1. outcome' \in [status : {"none", "ok", "err"}, disks : Seq(DiskType)]
    <3>1. \A D : [status |-> "err", disks |-> <<>>]
                   \in [status : {"none", "ok", "err"}, disks : Seq(D)]
      OBVIOUS
    <3> QED
      BY <3>1, Zenon
  <2> QED
    BY <2>1, NoMedia DEF TypeOK, history
<1>2. RegistryWell' /\ LeftSeen'
  BY RestSame
<1>3. Phase' /\ ~Iterating'
  BY DEF Phase, Iterating, ReferencesBalanced
<1>4. ReadOnce'
  <2>1. media' = <<>> /\ matches' = {} /\ pc' = "idle"
    OBVIOUS
  <2> QED
    BY <2>1, NoMedia DEF ReadOnce, MediaWell, Objects, Members
<1>5. Delivered'
  BY NothingDelivered
<1> QED
  BY <1>1, <1>2, <1>3, <1>4, <1>5

LEMMA MatchKeeps ==
  ASSUME MacInv, Match
  PROVE  MacInv'
<1> USE DEF MacInv, Match
<1>1. TypeOK'
  BY DEF TypeOK, history
<1>2. RegistryWell' /\ LeftSeen'
  BY RestSame
<1>3. Phase' /\ media = <<>> /\ outcome' = NoOutcome
  BY DEF Phase, Iterating, ReferencesBalanced
<1>4. ReadOnce'
  <2>1. NoEntry \notin Object
    BY ObjectParts
  <2>2. entry' = NoEntry /\ matches' \subseteq Object
    BY <1>3 DEF Phase, TypeOK
  <2> QED
    BY <1>3, <2>1, <2>2 DEF ReadOnce, MediaWell, Objects, Members
<1>5. Agrees(Snapshot)'
  <2>1. Snapshot' = registry
    BY <1>3, NoMedia DEF Snapshot, Objects, Members
  <2>2. \A o \in registry : Proper(o) /\ o[1] \in Attached
    BY DEF RegistryWell, Attached
  <2> QED
    BY <2>1, <2>2, RestSame DEF Agrees, RegistryWell, OneDevice, ObjectsOf, history
<1>6. Delivered'
  BY <1>3, NothingDelivered DEF NoOutcome
<1> QED
  BY <1>1, <1>2, <1>3, <1>4, <1>5, <1>6

\* The iterator hands an object over: what is known stays the same.
LEMMA NextKeeps ==
  ASSUME MacInv, NEW o \in matches, NextEntry(o)
  PROVE  MacInv'
<1> USE DEF MacInv, NextEntry
<1>1. o \in Object /\ o # NoEntry
  BY ObjectParts DEF TypeOK
<1>2. Phase' /\ Iterating /\ pc = "next"
  BY <1>1 DEF Phase, Iterating, ReferencesBalanced
<1>3. TypeOK'
  BY <1>1 DEF TypeOK, history
<1>4. RegistryWell' /\ LeftSeen'
  BY RestSame
<1>5. Objects(media)' = Objects(media)
  BY DEF Objects, Members
<1>6. ReadOnce'
  BY <1>5 DEF ReadOnce, MediaWell
<1>7. Agrees(Snapshot)'
  <2>1. Snapshot' = Snapshot
    BY <1>2, <1>5 DEF Snapshot
  <2> QED
    BY <1>2, <2>1, AgreementKept
<1>8. Delivered'
  BY <1>2, NothingDelivered DEF Phase, NoOutcome
<1> QED
  BY <1>2, <1>3, <1>4, <1>6, <1>7, <1>8

\* Its properties are read: it moves from what may still be read to what was.
LEMMA ReadKeeps ==
  ASSUME MacInv, ReadMedia
  PROVE  MacInv'
<1> USE DEF MacInv, ReadMedia
<1> DEFINE r == RawMedia(entry)
           n == Len(media)
<1>1. Phase' /\ Iterating /\ pc = "read" /\ entry # NoEntry
  BY DEF Phase, Iterating, ReferencesBalanced
<1>2. Agrees(Snapshot) /\ entry \in Snapshot /\ Proper(entry)
  BY <1>1 DEF Snapshot, Agrees
<1>3. r \in RawType /\ Obj(r) = entry
  BY <1>2, RawMediaIs
<1> HIDE DEF r
<1>4. /\ media' = Append(media, r) /\ media' \in Seq(RawType) /\ n \in Nat
      /\ DOMAIN media = 1 .. n /\ DOMAIN media' = 1 .. n + 1
      /\ \A j \in 1 .. n : media'[j] = media[j]
      /\ media'[n + 1] = r
  <2>1. media' = Append(media, r) /\ media \in Seq(RawType)
    BY DEF TypeOK, r
  <2> QED
    BY <1>3, <2>1
<1> HIDE DEF n
<1>5. TypeOK'
  BY <1>4 DEF TypeOK, history
<1>6. RegistryWell' /\ LeftSeen'
  BY RestSame
<1>7. Objects(media)' = Objects(media) \cup {entry}
  <2>1. Members(media)' = Members(media) \cup {r}
    BY <1>4 DEF Members
  <2> QED
    BY <1>3, <2>1 DEF Objects
<1>8. ReadOnce'
  <2>1. \A j \in 1 .. n : Obj(media[j]) \in Objects(media)
    BY <1>4 DEF Objects, Members
  <2>2. MediaWell(media)'
    <3>1. \A j \in 1 .. n + 1 : Proper(Obj(media'[j])) /\ media'[j] = RawMedia(Obj(media'[j]))
      <4>1. \A j \in 1 .. n : Proper(Obj(media[j])) /\ media[j] = RawMedia(Obj(media[j]))
        BY <1>4 DEF ReadOnce, MediaWell
      <4>2. Proper(Obj(r)) /\ r = RawMedia(Obj(r))
        BY <1>2, <1>3 DEF r
      <4> QED
        BY <1>4, <4>1, <4>2
    <3>2. \A j, k \in 1 .. n + 1 : Obj(media'[j]) = Obj(media'[k]) => j = k
      <4>1. \A j, k \in 1 .. n : Obj(media[j]) = Obj(media[k]) => j = k
        BY <1>4 DEF ReadOnce, MediaWell
      <4>2. \A j \in 1 .. n : Obj(media[j]) # Obj(r)
        BY <1>1, <1>3, <2>1 DEF ReadOnce
      <4> QED
        BY <1>4, <4>1, <4>2
    <3> QED
      BY <1>4, <3>1, <3>2 DEF MediaWell
  <2> QED
    BY <1>1, <1>7, <2>2 DEF ReadOnce
<1>9. Agrees(Snapshot)'
  <2>1. Snapshot' = Snapshot
    BY <1>1, <1>7 DEF Snapshot
  <2> QED
    BY <1>2, <2>1, AgreementKept
<1>10. Delivered'
  BY <1>1, NothingDelivered DEF Phase, NoOutcome
<1> QED
  BY <1>1, <1>5, <1>6, <1>8, <1>9, <1>10

\* An object that left is passed over: its disk did not hold still, and did not
\* stay if the object was the whole disk.
LEMMA PassKeeps ==
  ASSUME MacInv, ReadNothing
  PROVE  MacInv'
<1> USE DEF MacInv, ReadNothing, PassOver
<1>1. Phase' /\ Iterating /\ pc = "read"
  BY DEF Phase, Iterating, ReferencesBalanced
<1>2. TypeOK'
  BY DEF TypeOK, history
<1>3. RegistryWell' /\ LeftSeen'
  BY RestSame
<1>4. Objects(media)' = Objects(media)
  BY DEF Objects, Members
<1>5. ReadOnce'
  BY <1>4 DEF ReadOnce, MediaWell
<1>6. Agrees(Snapshot)'
  <2>1. Snapshot' = Snapshot \ {entry}
    BY <1>1, <1>4 DEF Snapshot, ReadOnce
  <2>2. Agrees(Snapshot)
    BY <1>1
  <2>3. \A o \in Snapshot' : o \in Snapshot
    BY <2>1
  <2>4. ~Still(entry[1]) /\ (entry[2] = Whole => entry[1] \in moved)
    BY DEF LeftSeen, Still
  <2>5. \A o \in Snapshot' : Proper(o) /\ o[1] \in Attached \cup moved
    BY <2>2, <2>3 DEF Agrees
  <2>6. OneDevice(Snapshot)'
    BY <2>2, <2>3 DEF Agrees, OneDevice
  <2>7. \A o \in registry : o[2] = Whole /\ o[1] \notin moved => o \in Snapshot'
    BY <2>1, <2>2, <2>4 DEF Agrees
  <2>8. \A d \in Disks : Still(d) => {o \in Snapshot' : o[1] = d} = ObjectsOf(d)
    <3>1. \A d \in Disks : Still(d) => {o \in Snapshot : o[1] = d} = ObjectsOf(d)
      BY <2>2 DEF Agrees
    <3>2. \A d : Still(d) => {o \in Snapshot' : o[1] = d} = {o \in Snapshot : o[1] = d}
      BY <2>1, <2>4
    <3> QED
      BY <3>1, <3>2
  <2> QED
    BY <2>5, <2>6, <2>7, <2>8, RestSame DEF Agrees, history
<1>7. Delivered'
  BY <1>1, NothingDelivered DEF Phase, NoOutcome
<1> QED
  BY <1>1, <1>2, <1>3, <1>5, <1>6, <1>7

LEMMA ReleaseKeeps ==
  ASSUME MacInv, ReleaseEntry
  PROVE  MacInv'
<1> USE DEF MacInv, ReleaseEntry
<1>1. Phase' /\ Iterating /\ pc = "release"
  BY DEF Phase, Iterating, ReferencesBalanced, TypeOK
<1>2. TypeOK'
  <2>1. refs' \in Nat
    BY <1>1 DEF Phase, ReferencesBalanced
  <2> QED
    BY <2>1 DEF TypeOK, history
<1>3. RegistryWell' /\ LeftSeen'
  BY RestSame
<1>4. Objects(media)' = Objects(media)
  BY DEF Objects, Members
<1>5. ReadOnce'
  <2>1. NoEntry \notin matches
    BY ObjectParts DEF TypeOK
  <2> QED
    BY <1>4, <2>1 DEF ReadOnce, MediaWell
<1>6. Agrees(Snapshot)'
  <2>1. Snapshot' = Snapshot
    BY <1>1, <1>4 DEF Snapshot
  <2> QED
    BY <1>1, <2>1, AgreementKept
<1>7. Delivered'
  BY <1>1, NothingDelivered DEF Phase, NoOutcome
<1> QED
  BY <1>1, <1>2, <1>3, <1>5, <1>6, <1>7

\* The names of a list of disks are those of its whole objects.
LEMMA NamesAre ==
  ASSUME NEW ms \in Seq(RawType), MediaWell(ms), OneDevice(Objects(ms))
  PROVE  {d.name : d \in Members(assemble(ms))} = {o[1] : o \in {p \in Objects(ms) : p[2] = Whole}}
<1>1. \A w \in Members(ms) : /\ w.bsd[1] = Obj(w)[1] /\ Obj(w) \in Objects(ms)
                             /\ w.whole <=> Obj(w)[2] = Whole
  <2> SUFFICES ASSUME NEW w \in Members(ms)
               PROVE  /\ w.bsd[1] = Obj(w)[1] /\ Obj(w) \in Objects(ms)
                      /\ w.whole <=> Obj(w)[2] = Whole
    OBVIOUS
  <2>1. PICK j \in DOMAIN ms : w = ms[j]
    BY DEF Members
  <2>2. (w.whole <=> w.bsd[2] = Whole) /\ Obj(w) = <<w.bsd[1], w.bsd[2], w.medium>>
    BY <2>1, MediaParts
  <2> QED
    BY <2>2 DEF Objects
<1>2. ASSUME NEW d \in Members(assemble(ms))
      PROVE  \E o \in Objects(ms) : o[2] = Whole /\ o[1] = d.name
  <2>1. PICK w \in Members(ms) : w.whole /\ d = PhysicalDisk(ms, w)
    BY AssembleIs
  <2>2. d.name = w.bsd[1]
    BY <2>1, DiskIs
  <2> QED
    BY <1>1, <2>1, <2>2
<1>3. ASSUME NEW o \in Objects(ms), o[2] = Whole
      PROVE  \E d \in Members(assemble(ms)) : d.name = o[1]
  <2>1. PICK w \in Members(ms) : o = Obj(w)
    BY DEF Objects
  <2>2. w.whole /\ w.bsd[1] = o[1]
    BY <1>1, <1>3, <2>1
  <2>3. PhysicalDisk(ms, w) \in Members(assemble(ms)) /\ PhysicalDisk(ms, w).name = w.bsd[1]
    BY <2>2, AssembleIs, DiskIs
  <2> QED
    BY <2>2, <2>3
<1> QED
  BY <1>2, <1>3

LEMMA FinishKeeps ==
  ASSUME MacInv, Finish
  PROVE  MacInv' /\ Attached \ moved \subseteq Listed' /\ Listed' \subseteq Attached \cup moved
<1> USE DEF MacInv, Finish, Exhausted
<1> DEFINE ds == assemble(media)
<1>1. Phase' /\ Iterating /\ pc = "next" /\ ~Iterating' /\ refs' \in Nat
  BY DEF Phase, Iterating, ReferencesBalanced
<1>2. /\ Agrees(Snapshot) /\ Snapshot = Objects(media)
      /\ media \in Seq(RawType) /\ MediaWell(media) /\ OneDevice(Objects(media))
  BY <1>1 DEF Snapshot, Agrees, ReadOnce, TypeOK
<1>3. /\ ds \in Seq(DiskType) /\ InOrder(ds)
      /\ \A d \in Members(ds) : \E w \in Members(media) : w.whole /\ d = PhysicalDisk(media, w)
      /\ {d.name : d \in Members(ds)} = {o[1] : o \in {p \in Objects(media) : p[2] = Whole}}
  BY <1>2, AssembleIs, NamesAre
<1>4. outcome'.disks = ds /\ outcome' = [status |-> "ok", disks |-> ds]
  OBVIOUS
<1> HIDE DEF ds
<1>5. TypeOK'
  BY <1>1, <1>3, <1>4, NoMedia DEF TypeOK, history
<1>6. RegistryWell' /\ LeftSeen'
  BY RestSame
<1>7. ReadOnce'
  <2>1. media' = <<>> /\ matches' = {} /\ pc' = "idle"
    OBVIOUS
  <2> QED
    BY <2>1, NoMedia DEF ReadOnce, MediaWell, Objects, Members
<1>8. Listed' = {d.name : d \in Members(ds)}
  BY <1>4 DEF Listed, Members
<1>9. Listed' \subseteq Attached \cup moved
  <2>1. \A o \in Objects(media) : o[1] \in Attached \cup moved
    BY <1>2 DEF Agrees
  <2> QED
    BY <1>3, <1>8, <2>1
<1>10. Attached \ moved \subseteq Listed'
  <2> SUFFICES ASSUME NEW x \in Attached, x \notin moved
               PROVE  \E o \in Objects(media) : o[2] = Whole /\ o[1] = x
    BY <1>3, <1>8
  <2>1. PICK o \in registry : o[1] = x
    BY DEF Attached
  <2> DEFINE w == <<o[1], Whole, o[3]>>
  <2>2. w \in registry /\ w[1] = x /\ w[2] = Whole
    BY <2>1 DEF RegistryWell
  <2> HIDE DEF w
  <2> QED
    BY <1>2, <2>2 DEF Agrees
<1>11. \A d \in Members(ds) : DiskTrue(d)
  <2> SUFFICES ASSUME NEW d \in Members(ds)
               PROVE  DiskTrue(d)
    OBVIOUS
  <2>1. PICK w \in Members(media) : w.whole /\ d = PhysicalDisk(media, w)
    BY <1>3
  <2>2. DiskWell(d) /\ d.name = w.bsd[1] /\ d \in DiskType
    BY <1>2, <2>1, DiskIs
  <2>3. Still(d.name) => ReportsDisk(d)
    <3>1. d.name \in Disks
      BY <2>2 DEF DiskType
    <3>2. Still(d.name) => {o \in Objects(media) : o[1] = w.bsd[1]} = ObjectsOf(w.bsd[1])
      BY <1>2, <2>2, <3>1 DEF Agrees
    <3> QED
      BY <1>2, <2>1, <3>2, <2>2, ReportIs
  <2> QED
    BY <2>2, <2>3 DEF DiskTrue
<1>12. Delivered'
  <2>1. (\A d \in Members(outcome.disks) : DiskTrue(d))'
    BY <1>4, <1>11, RestSame DEF Members
  <2>2. InOrder(outcome.disks)'
    BY <1>3, <1>4 DEF InOrder
  <2>3. (Listed \subseteq Attached \cup moved /\ Attached \ moved \subseteq Listed)'
    BY <1>9, <1>10, RestSame DEF history
  <2> QED
    BY <2>1, <2>2, <2>3 DEF Delivered
<1> QED
  BY <1>1, <1>5, <1>6, <1>7, <1>9, <1>10, <1>12

-----------------------------------------------------------------------------
(* The theorems. *)

LEMMA MacInit == Init => MacInv
<1> SUFFICES ASSUME Init PROVE MacInv
  OBVIOUS
<1>1. /\ readable \in BOOLEAN
      /\ moved = {} /\ resliced = {} /\ left = {} /\ changes = 0
      /\ pc = "idle" /\ matches = {} /\ entry = NoEntry /\ media = <<>> /\ refs = 0
      /\ outcome = NoOutcome
  BY DEF Init
<1>2. PICK at \in [Media -> Disks \cup {Unplugged}] :
        /\ \A m, o \in Media : at[m] = at[o] => m = o \/ at[m] = Unplugged
        /\ registry = {o \in Object : at[o[3]] = o[1] /\ o[2] \in {Whole} \cup DOMAIN Slices[o[3]]}
  BY DEF Init
<1>3. registry \subseteq Object /\ \A o \in registry : Proper(o) /\ at[o[3]] = o[1]
  BY <1>2 DEF Proper
<1>4. \A o \in registry : <<o[1], Whole, o[3]>> \in registry
  <2> SUFFICES ASSUME NEW o \in registry
               PROVE  <<o[1], Whole, o[3]>> \in registry
    OBVIOUS
  <2> DEFINE w == <<o[1], Whole, o[3]>>
  <2>1. w \in Object /\ w[1] = o[1] /\ w[2] = Whole /\ w[3] = o[3]
    BY <1>3, ObjectParts
  <2> HIDE DEF w
  <2>2. w \in registry
    BY <1>2, <1>3, <2>1
  <2> QED
    BY <2>2 DEF w
<1>5. \A o, p \in registry : o[1] = p[1] <=> o[3] = p[3]
  <2>1. Unplugged \notin Disks
    BY DiskAssumption DEF Unplugged
  <2>2. \A o \in registry : o[1] \in Disks /\ o[3] \in Media
    BY <1>3, ObjectParts
  <2> QED
    BY <1>2, <1>3, <2>1, <2>2
<1>6. RegistryWell
  BY <1>3, <1>4, <1>5 DEF RegistryWell, OneDevice
<1>7. TypeOK
  <2>1. \A D : [status |-> "none", disks |-> <<>>]
                 \in [status : {"none", "ok", "err"}, disks : Seq(D)]
    OBVIOUS
  <2>2. outcome \in [status : {"none", "ok", "err"}, disks : Seq(DiskType)]
    BY <1>1, <2>1, Zenon DEF NoOutcome
  <2> QED
    BY <1>1, <1>3, <2>2, NoMedia DEF TypeOK
<1>8. LeftSeen /\ Phase /\ ~Iterating
  BY <1>1 DEF LeftSeen, Phase, Iterating, ReferencesBalanced
<1>9. ReadOnce
  BY <1>1, NoMedia DEF ReadOnce
<1>10. Delivered
  BY <1>1 DEF Delivered, NoOutcome
<1> QED
  BY <1>6, <1>7, <1>8, <1>9, <1>10 DEF MacInv

LEMMA MacStep == MacInv /\ [Next]_vars => MacInv'
<1> SUFFICES ASSUME MacInv, [Next]_vars PROVE MacInv'
  OBVIOUS
<1>1. CASE Registry
  BY <1>1, RegistryKeeps
<1>2. CASE Call
  BY <1>2, CallKeeps
<1>3. CASE MatchFails \/ Match
  BY <1>3, FailKeeps, MatchKeeps
<1>4. CASE \E o \in matches : NextEntry(o)
  BY <1>4, NextKeeps
<1>5. CASE ReadMedia \/ ReadNothing \/ ReleaseEntry
  BY <1>5, ReadKeeps, PassKeeps, ReleaseKeeps
<1>6. CASE Finish
  BY <1>6, FinishKeeps
<1>7. CASE UNCHANGED vars
  <2>1. /\ UNCHANGED <<registry, readable, history, pc, matches, entry, media, refs, outcome>>
        /\ UNCHANGED <<moved, resliced, left, changes>>
    BY <1>7 DEF vars, history
  <2>2. TypeOK'
    BY <2>1 DEF MacInv, TypeOK
  <2>3. RegistryWell' /\ LeftSeen' /\ \A d : DiskTrue(d)' = DiskTrue(d)
    BY <2>1, RestSame DEF MacInv
  <2>4. Phase' /\ ReadOnce'
    BY <2>1 DEF MacInv, Phase, Iterating, ReferencesBalanced, ReadOnce, MediaWell,
                Objects, Members
  <2>5. (Iterating => Agrees(Snapshot))'
    <3>1. Snapshot' = Snapshot /\ Iterating' = Iterating
      BY <2>1 DEF Snapshot, Iterating, Objects, Members
    <3> QED
      BY <2>1, <3>1, AgreementKept DEF MacInv
  <2>6. Delivered'
    <3>1. Members(outcome.disks)' = Members(outcome.disks) /\ Listed' = Listed
      BY <2>1 DEF Members, Listed
    <3>2. (\A d \in Members(outcome.disks) : DiskTrue(d))
            => (\A d \in Members(outcome.disks) : DiskTrue(d))'
      BY <2>3, <3>1
    <3> QED
      BY <2>1, <3>1, <3>2 DEF MacInv, Delivered, Attached, InOrder
  <2> QED
    BY <2>2, <2>3, <2>4, <2>5, <2>6 DEF MacInv
<1> QED
  BY <1>1, <1>2, <1>3, <1>4, <1>5, <1>6, <1>7 DEF Next, Collect

\* The invariant holds throughout.
THEOREM MacInvariant == Spec => []MacInv
  BY MacInit, MacStep, PTL DEF Spec

\* Every variable of the macOS model keeps its type (macos.rs:132-155).
THEOREM MacTypes == Spec => []TypeOK
<1>1. MacInv => TypeOK
  BY DEF MacInv
<1> QED
  BY <1>1, MacInvariant, PTL

\* Every reference that IOKit hands out is released once (macos.rs:143-155).
THEOREM BalancesReferences == Spec => []ReferencesBalanced
<1>1. MacInv => ReferencesBalanced
  BY DEF MacInv, Phase
<1> QED
  BY <1>1, MacInvariant, PTL

\* No record is mixed, also where a disk was replaced under its name while the
\* call ran (macos.rs:132-137, 161-194, 90-104).
THEOREM NeverMixes == Spec => []NoMixing
<1>1. MacInv => NoMixing
  BY DEF MacInv, Delivered, NoMixing, Returned, Members, DiskTrue, DiskWell
<1> QED
  BY <1>1, MacInvariant, PTL

\* Disks by number, partitions by offset, whatever the order of the registry
\* (macos.rs:103-106).
THEOREM ListsInDiskOrder == Spec => []OnDiskOrder
<1>1. MacInv => OnDiskOrder
  BY DEF MacInv, Delivered, OnDiskOrder, Returned, Members, InOrder, DiskTrue, DiskWell
<1> QED
  BY <1>1, MacInvariant, PTL

\* Ascending names are as many as the disks.
LEMMA NamesCounted ==
  ASSUME NEW ds \in Seq(DiskType), InOrder(ds)
  PROVE  Len(ds) = Cardinality({ds[k].name : k \in DOMAIN ds})
<1> DEFINE n == Len(ds)
           names == {ds[k].name : k \in DOMAIN ds}
           f == [k \in 1 .. n |-> ds[k].name]
<1>1. n \in Nat /\ DOMAIN ds = 1 .. n /\ \A k \in 1 .. n : ds[k] \in DiskType
  OBVIOUS
<1>2. \A k \in 1 .. n : ds[k].name \in Nat
  BY <1>1, DiskAssumption DEF DiskType
<1>3. \A j, k \in 1 .. n : ds[j].name = ds[k].name => j = k
  <2> SUFFICES ASSUME NEW j \in 1 .. n, NEW k \in 1 .. n, j < k
               PROVE  ds[j].name # ds[k].name
    BY <1>1
  <2>1. ds[j].name < ds[k].name
    BY <1>1 DEF InOrder
  <2> QED
    BY <1>2, <2>1
<1>4. names = {ds[k].name : k \in 1 .. n}
  BY <1>1
<1> HIDE DEF n, names
<1>5. f \in Bijection(1 .. n, names)
  BY <1>3, <1>4 DEF Bijection, Injection, Surjection, IsInjective
<1>6. ExistsBijection(1 .. n, names)
  BY <1>5 DEF ExistsBijection
<1> QED
  BY <1>1, <1>6, FS_CountingElements DEF n, names

\* A disk that held still while a call ran is listed, once, with its own
\* properties and partitions (macos.rs:143-153, 68-104).
THEOREM ListsStableDisksExactly == Spec => []StableDisksExact
<1>1. MacInv => StableDisksExact
  <2> SUFFICES ASSUME MacInv, Returned
               PROVE  /\ \A d \in Disks : Still(d) => (d \in Listed <=> d \in Attached)
                      /\ Len(outcome.disks) = Cardinality(Listed)
                      /\ \A k \in DOMAIN outcome.disks :
                           Still(outcome.disks[k].name) => ReportsDisk(outcome.disks[k])
    BY DEF StableDisksExact
  <2>1. \A d \in Disks : Still(d) => (d \in Listed <=> d \in Attached)
    BY DEF MacInv, Delivered, Returned, Still
  <2>2. Len(outcome.disks) = Cardinality(Listed)
    BY NamesCounted DEF MacInv, TypeOK, Delivered, Returned, Listed
  <2>3. \A k \in DOMAIN outcome.disks :
          Still(outcome.disks[k].name) => ReportsDisk(outcome.disks[k])
    BY DEF MacInv, Delivered, Returned, Members, DiskTrue
  <2> QED
    BY <2>1, <2>2, <2>3
<1> QED
  BY <1>1, MacInvariant, PTL

-----------------------------------------------------------------------------
(* The backend implements the strict promise. *)

StatusNow == IF Running THEN "running" ELSE outcome.status
ListedNow == IF Running THEN {} ELSE Listed

\* A disk that comes or goes is a Move; its partitions the promise is not about.
LEMMA RegistryPromise ==
  ASSUME MacInv, Registry
  PROVE  Promise!Move \/ UNCHANGED Promise!vars
<1> USE DEF MacInv
<1>1. UNCHANGED <<readable, pc, matches, entry, media, refs, outcome>>
  BY RegistryMoves
<1>2. StatusNow' = StatusNow /\ ListedNow' = ListedNow /\ readable' = readable
  BY <1>1 DEF StatusNow, ListedNow, Running, Listed
<1>3. ASSUME NEW d \in Disks, moved' = moved \cup {d},
             Attached' = IF d \in Attached THEN Attached \ {d} ELSE Attached \cup {d}
      PROVE  Promise!Move
  BY <1>2, <1>3 DEF Promise!Move, StatusNow, ListedNow
<1>4. ASSUME NEW d \in Disks, NEW m \in Media, Publish(d, m)
      PROVE  Promise!Move
  <2>1. d \notin Attached /\ moved' = moved \cup {d}
    BY <1>4 DEF Publish, ObjectsOf, Attached
  <2>2. Attached' = Attached \cup {d}
    <3>1. registry' = registry \cup {<<d, Whole, m>>} /\ <<d, Whole, m>>[1] = d
      BY <1>4 DEF Publish
    <3> QED
      BY <3>1 DEF Attached
  <2> QED
    BY <1>3, <2>1, <2>2
<1>5. ASSUME NEW d \in Disks, Withdraw(d)
      PROVE  Promise!Move
  <2>1. d \in Attached /\ moved' = moved \cup {d} /\ Attached' = Attached \ {d}
    BY <1>5 DEF Withdraw, ObjectsOf, Attached
  <2> QED
    BY <1>3, <2>1
<1>6. ASSUME \/ \E d \in Disks, m \in Media, s \in Numbers : PublishSlice(d, m, s)
             \/ \E o \in registry : WithdrawSlice(o)
      PROVE  UNCHANGED Promise!vars
  <2>1. Attached' = Attached
    BY <1>6, SliceMoves
  <2>2. moved' = moved
    BY <1>6 DEF PublishSlice, WithdrawSlice
  <2> QED
    BY <1>2, <2>1, <2>2 DEF Promise!vars, StatusNow, ListedNow
<1> QED
  BY <1>4, <1>5, <1>6 DEF Registry

\* A step that does not end the call is invisible; one that does fails because
\* the registry cannot be read, or delivers what the promise asks for.
LEMMA CollectPromise ==
  ASSUME MacInv, Collect
  PROVE  Promise!Succeed \/ Promise!Fail \/ UNCHANGED Promise!vars
<1>1. UNCHANGED <<registry, readable, history>> /\ Attached' = Attached /\ Running
  <2>1. UNCHANGED <<registry, readable, history>> /\ Running
    BY DEF Collect, MatchFails, Match, NextEntry, ReadMedia, ReadNothing, ReleaseEntry, Finish,
           Running
  <2> QED
    BY <2>1, RestSame
<1>2. moved' = moved /\ readable' = readable
  BY <1>1 DEF history
<1>3. CASE Running'
  BY <1>1, <1>2, <1>3 DEF Promise!vars
<1>4. CASE MatchFails
  <2>1. ~Running' /\ outcome' = [status |-> "err", disks |-> <<>>] /\ ~readable
    BY <1>4 DEF MatchFails, Fail, Running
  <2>2. Listed' = {}
    BY <2>1 DEF Listed
  <2> QED
    BY <1>1, <1>2, <2>1, <2>2 DEF Promise!Fail
<1>5. CASE Finish
  <2>1. ~Running' /\ outcome'.status = "ok" /\ readable
    BY <1>5 DEF Finish, Running, MacInv, Phase, Iterating
  <2>2. Attached \ moved \subseteq Listed' /\ Listed' \subseteq Attached \cup moved
    BY <1>5, FinishKeeps
  <2> QED
    BY <1>1, <1>2, <2>1, <2>2 DEF Promise!Succeed
<1>6. Running' \/ MatchFails \/ Finish
  BY DEF Collect, Match, NextEntry, ReadMedia, ReadNothing, PassOver, ReleaseEntry, Running
<1> QED
  BY <1>3, <1>4, <1>5, <1>6

\* The macOS backend keeps the documentation's own promise, the strict one: a
\* call fails only when the registry cannot be read, and otherwise lists every
\* disk that was there throughout and none that never was (lib.rs:152-160).
THEOREM MacImplementsPromise == Spec => ImplementsPromise
<1>1. Init => Promise!Init
  <2> SUFFICES ASSUME Init PROVE Promise!Init
    OBVIOUS
  <2>1. Listed = {} /\ ~Running /\ outcome.status = "none" /\ moved = {} /\ readable \in BOOLEAN
    BY DEF Init, NoOutcome, Listed, Running
  <2>2. Attached \subseteq Disks
    BY MacInit, ObjectParts DEF MacInv, TypeOK, Attached
  <2> QED
    BY <2>1, <2>2 DEF Promise!Init
<1>2. MacInv /\ [Next]_vars => [Promise!Next]_(Promise!vars)
  <2> SUFFICES ASSUME MacInv, [Next]_vars
               PROVE  Promise!Next \/ UNCHANGED Promise!vars
    OBVIOUS
  <2>1. CASE UNCHANGED vars
    BY <2>1 DEF vars, history, Promise!vars, Attached, Running, Listed
  <2>2. CASE Call
    <3>1. ~Running /\ Running' /\ outcome.status \in {"none", "ok", "err"}
      BY <2>2 DEF Call, Running, MacInv, TypeOK
    <3>2. Attached' = Attached /\ moved' = {} /\ readable' = readable
      BY <2>2 DEF Call, Attached
    <3> QED
      BY <3>1, <3>2 DEF Promise!Begin, Promise!Next
  <2> QED
    BY <2>1, <2>2, RegistryPromise, CollectPromise DEF Next, Promise!Next
<1> QED
  BY <1>1, <1>2, MacInvariant, PTL DEF Spec, ImplementsPromise, Promise!Spec
=============================================================================
