------------------------- MODULE WindowsProbeProofs -------------------------
(***************************************************************************)
(* The Windows backend's safety for any number of drives, any layouts and  *)
(* any number of disturbances.  The invariant follows the drive whose      *)
(* handle is held: while nothing disturbs it, it is there, its handle is   *)
(* live and what was asked of it so far is the truth; and the drives that  *)
(* were passed are in the list, if they could be read, or a reason for an  *)
(* error, if they were refused.                                            *)
(***************************************************************************)
EXTENDS WindowsProbeProps, LayoutBufferProofs

Reading == {"length", "geometry", "layout"}
Busy == Reading \cup {"close"}

\* The drive whose handle is held.
DriveHeld ==
  /\ pc \notin Busy => handles = {}
  /\ pc \in Busy => /\ n < MAX_DRIVES /\ handles = {n}
                    /\ Still(n) => Attached(n) /\ n \notin denied \cup taken
  /\ pc \in Reading => (live => Attached(n)) /\ (Still(n) => live)

\* What was asked of it.
AnswersTrue ==
  /\ pc \in {"geometry", "layout"} /\ Still(n) => size_bytes = Answer(LengthOf[drive[n]], 0)
  /\ pc = "layout" /\ Still(n) => sector = Answer(SectorOf[drive[n]], 512)

\* A disk as it has to be, and a list of them.
Members(ds) == {ds[j] : j \in DOMAIN ds}
NamesIn(ds) == {d.name : d \in Members(ds)}
Ordered(d) ==
  \A a, b \in DOMAIN d.partitions : a < b => d.partitions[a].start =< d.partitions[b].start
DriveTrue(d) == Ordered(d) /\ (Still(d.name) => ReportsDrive(d))
AllTrue(ds) == \A d \in Members(ds) : DriveTrue(d)
Complete(ds, probed) ==
  \A k \in Drives : Still(k) => (k \in NamesIn(ds) <=> k \in probed /\ Readable(k))

\* The drives that are behind the loop, and what was gathered of them.
Passed == {k \in Drives : k < n \/ (k = n /\ pc = "close")}
DistinctDisks == \A j, k \in DOMAIN disks : disks[j].name = disks[k].name => j = k
Gathered == /\ NamesIn(disks) \subseteq Passed
            /\ AllTrue(disks) /\ Complete(disks, Passed)

\* What was refused.
Reason == \E k \in Probed \cap denied : Attached(k) \/ ~Still(k)
NoneRefused(probed) == \A k \in probed : Still(k) /\ Attached(k) => k \notin denied
Refusals == /\ access_denied => Reason
            /\ ~access_denied => NoneRefused({k \in Drives : k < n})

\* What was returned.
InOrder(ds) ==
  \A j, k \in DOMAIN ds : j < k => ByteRank[ds[j].name] < ByteRank[ds[k].name]
Delivered ==
  /\ outcome.status = "ok" =>
       /\ InOrder(outcome.disks) /\ AllTrue(outcome.disks)
       /\ Complete(outcome.disks, Probed)
       /\ outcome.disks = <<>> => NoneRefused(Probed)
  /\ outcome.status = "err" => Reason /\ \A k \in Drives : Still(k) => ~Readable(k)

ProbeInv == /\ TypeOK /\ DriveHeld /\ AnswersTrue
            /\ DistinctDisks /\ Gathered /\ Refusals /\ Delivered

-----------------------------------------------------------------------------
(* What the parser makes of a layout. *)

\* The whole buffer says what the layout in it says.
LEMMA LayoutRead ==
  ASSUME NEW m \in Media, HasLayout(m)
  PROVE  /\ Layout(m).count \in Nat
         /\ Reported(Layout(m)) = Reported(LayoutOf[m])
         /\ \A j \in Reported(Layout(m)) : Layout(m).slot[j] \in Entry
<1> DEFINE b == LayoutOf[m]
<1>1. /\ b.len \in Nat /\ b.count \in Nat /\ LAYOUT_BUF \in Nat /\ b.len =< LAYOUT_BUF
      /\ \A j \in 0 .. b.len : Fits(b, j) => b.slot[j] \in Entry
      /\ \A j \in 0 .. b.count - 1 : Fits(b, j)
  BY DriveAssumption DEF HasLayout, IsBuffer
<1>2. /\ Layout(m).len = LAYOUT_BUF /\ Layout(m).style = b.style
      /\ Layout(m).count = b.count /\ Layout(m).slot = b.slot
  BY DEF Layout
<1>3. \A j \in 0 .. b.count - 1 : Fits(Layout(m), j) /\ j \in 0 .. b.len
  BY <1>1, <1>2 DEF Fits, PARTITION_ENTRY_OFFSET, ENTRY_SIZE
<1>4. \A j \in 0 .. b.count - 1 : Used(Layout(m), j) = Used(b, j)
  BY <1>2 DEF Used
<1> HIDE DEF b
<1>5. Reported(Layout(m)) = Reported(b)
  BY <1>1, <1>2, <1>3, <1>4 DEF Reported
<1>6. \A j \in Reported(b) : b.slot[j] \in Entry
  BY <1>1, <1>3 DEF Reported
<1> QED
  BY <1>1, <1>2, <1>5, <1>6 DEF b

\* A name without the blanks around it is its text from the first letter to
\* the last (drive_layout.rs:125-133).
LEMMA NameSays ==
  ASSUME NEW s \in Seq(Nat)
  PROVE  utf16_name(s) = NameIn(s)
<1> DEFINE text == take_while(s)
           t == Cardinality(text)
           before == {u \in text : \A v \in 1 .. u : s[v] = Blank}
           a == Cardinality(before)
           after == {u \in text : \A v \in text : v >= u => s[v] = Blank}
           c == Cardinality(after)
           ink == {x \in DOMAIN s : s[x] # Blank /\ \A y \in 1 .. x : s[y] # Nul}
<1>1. t \in Nat /\ text = 1 .. t /\ t =< Len(s)
  <2>1. Len(s) \in Nat /\ text \subseteq 1 .. Len(s)
    BY DEF take_while
  <2>2. \A u \in text : 1 .. u \subseteq text
    BY DEF take_while
  <2>3. Cardinality(text) \in 0 .. Len(s) /\ text = 1 .. Cardinality(text)
    <3> HIDE DEF text
    <3> QED
      BY <2>1, <2>2, HeadCounted
  <2> QED
    BY <2>1, <2>3
<1>2. a \in 0 .. t /\ before = 1 .. a
  <2>1. before \subseteq 1 .. t /\ \A u \in before : 1 .. u \subseteq before
    BY <1>1
  <2> HIDE DEF before, t
  <2> QED
    BY <1>1, <2>1, HeadCounted
<1>3. c \in 0 .. t /\ after = t + 1 - c .. t
  <2>1. after \subseteq 1 .. t /\ \A u \in after : u .. t \subseteq after
    BY <1>1
  <2> HIDE DEF after, t
  <2> QED
    BY <1>1, <2>1, TailCounted
<1>4. \A x : x \in ink <=> x \in text /\ s[x] # Blank
  BY DEF take_while
<1>5. \A x \in 1 .. t : x \in before <=> \A v \in 1 .. x : s[v] = Blank
  BY <1>1
<1>6. \A x \in 1 .. t : x \in after <=> \A v \in x .. t : s[v] = Blank
  BY <1>1
<1>7. utf16_name(s) = SubSeq(s, a + 1, t - c)
  BY DEF utf16_name
<1>8. NameIn(s) = IF ink = {} THEN NoName
                  ELSE SubSeq(s, CHOOSE x \in ink : \A y \in ink : x =< y,
                                 CHOOSE x \in ink : \A y \in ink : y =< x)
  BY DEF NameIn
<1> HIDE DEF text, before, after, ink, t, a, c
<1>9. CASE ink = {}
  <2>1. \A x \in 1 .. t : s[x] = Blank
    BY <1>1, <1>4, <1>9
  <2>2. t # 0 => t \in before /\ 1 \in after
    BY <1>1, <1>5, <1>6, <2>1
  <2>3. a = t /\ (t # 0 => c = t)
    BY <1>1, <1>2, <1>3, <2>2
  <2>4. a + 1 \in Int /\ t - c \in Int /\ t - c < a + 1
    BY <1>1, <1>2, <1>3, <2>3
  <2> QED
    BY <1>7, <1>8, <1>9, <2>4, SubSeqEmpty DEF NoName
<1>10. CASE ink # {}
  <2>1. PICK x \in ink : x \in 1 .. t /\ s[x] # Blank
    BY <1>1, <1>4, <1>10
  <2>2. x \notin before /\ x \notin after
    BY <1>5, <1>6, <2>1
  <2>3. a + 1 \in 1 .. t /\ t - c \in 1 .. t
    BY <1>1, <1>2, <1>3, <2>1, <2>2
  <2>4. a + 1 \in ink /\ \A y \in ink : a + 1 =< y
    <3>1. \A y \in 1 .. a : y \in before /\ s[y] = Blank
      BY <1>1, <1>2, <1>5
    <3>2. a + 1 \notin before
      BY <1>2, <2>3
    <3>3. s[a + 1] # Blank
      <4> SUFFICES ASSUME s[a + 1] = Blank
                   PROVE  \A v \in 1 .. a + 1 : s[v] = Blank
        BY <1>5, <2>3, <3>2
      <4> QED
        BY <1>2, <3>1
    <3>4. \A y \in ink : y \in 1 .. t /\ y \notin 1 .. a
      BY <1>1, <1>4, <3>1
    <3> QED
      BY <1>1, <1>2, <1>4, <2>3, <3>3, <3>4, SMTT(30)
  <2>5. t - c \in ink /\ \A y \in ink : y =< t - c
    <3>1. \A y \in t - c + 1 .. t : y \in 1 .. t /\ y \in after /\ s[y] = Blank
      BY <1>1, <1>3, <1>6
    <3>2. t - c \notin after
      BY <1>1, <1>3, <2>3
    <3>3. s[t - c] # Blank
      <4> SUFFICES ASSUME s[t - c] = Blank
                   PROVE  \A v \in t - c .. t : s[v] = Blank
        BY <1>6, <2>3, <3>2
      <4> QED
        BY <1>1, <1>3, <3>1
    <3>4. \A y \in ink : y \in 1 .. t /\ y \notin t - c + 1 .. t
      BY <1>1, <1>4, <3>1
    <3> QED
      BY <1>1, <1>3, <1>4, <2>3, <3>3, <3>4, SMTT(30)
  <2>6. \A y \in ink : y \in Nat
    BY <1>1, <1>4
  <2>7. (CHOOSE y \in ink : \A z \in ink : y =< z) = a + 1
    BY <2>4, <2>6
  <2>8. (CHOOSE y \in ink : \A z \in ink : z =< y) = t - c
    BY <2>5, <2>6
  <2> QED
    BY <1>7, <1>8, <1>10, <2>7, <2>8
<1> QED
  BY <1>9, <1>10

\* A drive's table is its records, each once, in on-disk order.
LEMMA TableIs ==
  ASSUME NEW m \in Media, HasLayout(m)
  PROVE  /\ Tables[m] \in Seq(Record)
         /\ \A a, b \in DOMAIN Tables[m] :
              a < b => Tables[m][a].start =< Tables[m][b].start
         /\ Members(Tables[m]) = {RecordOf(Layout(m), j) : j \in Reported(LayoutOf[m])}
<1> DEFINE rs == Records(Layout(m))
           key == [k \in DOMAIN rs |-> rs[k].start]
           sorted == SortedBy(rs, key)
<1>1. /\ rs \in Seq(Record)
      /\ {rs[k] : k \in DOMAIN rs} = {RecordOf(Layout(m), j) : j \in Reported(LayoutOf[m])}
  BY LayoutRead, RecordsAre
<1>2. Tables[m] = sorted
  BY DEF Tables
<1>3. KeysOf(key, Len(rs)) /\ Len(rs) \in Nat
  <2> HIDE DEF rs
  <2>1. DOMAIN rs = 1 .. Len(rs) /\ Len(rs) \in Nat /\ \A k \in 1 .. Len(rs) : rs[k] \in Record
    BY <1>1
  <2>2. \A k \in 1 .. Len(rs) : rs[k].start \in Nat
    BY <2>1 DEF Record
  <2> QED
    BY <2>1, <2>2 DEF KeysOf
<1> HIDE DEF rs
<1>4. /\ sorted \in Seq(Record)
      /\ DOMAIN sorted = 1 .. Len(rs)
      /\ {sorted[r] : r \in DOMAIN sorted} = {rs[k] : k \in DOMAIN rs}
  <2>1. DOMAIN rs = 1 .. Len(rs)
    BY <1>1
  <2> HIDE DEF key
  <2> QED
    BY <1>1, <1>3, <2>1, SortedByType, SortedByMembers
<1>5. \A a, b \in 1 .. Len(rs) : a < b => sorted[a].start =< sorted[b].start
  <2>1. /\ \A r \in 1 .. Len(rs) : AtRank(key, r) \in 1 .. Len(rs)
                                   /\ sorted[r] = rs[AtRank(key, r)]
        /\ \A q, r \in 1 .. Len(rs) : q < r => key[AtRank(key, q)] =< key[AtRank(key, r)]
    <3> HIDE DEF key
    <3> QED
      BY <1>1, <1>3, SortedByPermutes
  <2>2. \A k \in 1 .. Len(rs) : key[k] = rs[k].start
    BY <1>3 DEF KeysOf
  <2> HIDE DEF key, sorted
  <2> QED
    BY <2>1, <2>2
<1> QED
  BY <1>1, <1>2, <1>4, <1>5 DEF Members

\* The partitions of the drive at hand are what its layout says.
LEMMA PartitionsAre ==
  ASSUME n \in Drives, drive[n] \in Media, HasLayout(drive[n])
  PROVE  LET ps == PartitionsOf(drive[n]) IN
         /\ ps \in Seq(Partition)
         /\ \A a, b \in DOMAIN ps : a < b => ps[a].start =< ps[b].start
         /\ {[number |-> p.dev[2], start |-> p.start, size |-> p.size, type |-> p.type,
              label |-> p.label] : p \in {ps[k] : k \in DOMAIN ps}} = TableSays[drive[n]]
<1> DEFINE m == drive[n]
           b == LayoutOf[m]
           rs == Tables[m]
           ps == PartitionsOf(m)
           Row(p) == [number |-> p.dev[2], start |-> p.start, size |-> p.size,
                      type |-> p.type, label |-> p.label]
           RowOf(r) == [number |-> r.number, start |-> r.start, size |-> r.length,
                        type |-> r.type, label |-> r.name]
           Slot(j) == [number |-> b.slot[j].number, start |-> NonNegative(b.slot[j].start),
             size |-> b.slot[j].length,
             type |-> IF b.style \in {STYLE_MBR, STYLE_GPT} THEN b.slot[j].type ELSE None,
             label |-> IF b.style = STYLE_GPT THEN NameIn(b.slot[j].name) ELSE NoName]
<1>1. /\ rs \in Seq(Record)
      /\ \A x, y \in DOMAIN rs : x < y => rs[x].start =< rs[y].start
      /\ Members(rs) = {RecordOf(Layout(m), j) : j \in Reported(b)}
  BY TableIs
<1>2. /\ DOMAIN ps = DOMAIN rs
      /\ \A k \in DOMAIN rs :
           ps[k] = [dev |-> <<n, rs[k].number>>, start |-> rs[k].start, size |-> rs[k].length,
                    mount |-> NoMount, type |-> rs[k].type, label |-> rs[k].name]
  BY DEF PartitionsOf
<1>3. ps \in Seq(Partition)
  <2>1. DOMAIN rs = 1 .. Len(rs) /\ Len(rs) \in Nat /\ \A k \in 1 .. Len(rs) : rs[k] \in Record
    BY <1>1
  <2>2. ASSUME NEW k \in 1 .. Len(rs)
        PROVE  ps[k] \in Partition
    <3>1. /\ rs[k].number \in Nat /\ rs[k].start \in Nat /\ rs[k].length \in Nat
          /\ rs[k].type \in Nat \cup {None} /\ rs[k].name \in Seq(Nat)
      BY <2>1 DEF Record, None
    <3> HIDE DEF ps, rs
    <3>2. <<n, rs[k].number>> \in Drives \X Nat
      BY <3>1
    <3> QED
      BY <1>2, <2>1, <3>1, <3>2 DEF Partition
  <2>3. ps = [k \in 1 .. Len(rs) |-> ps[k]]
    BY <2>1 DEF PartitionsOf
  <2> HIDE DEF ps
  <2> QED
    BY <2>1, <2>2, <2>3
<1>4. \A x, y \in DOMAIN ps : x < y => ps[x].start =< ps[y].start
  <2> HIDE DEF ps, rs
  <2>1. \A k \in DOMAIN rs : ps[k].start = rs[k].start
    BY <1>2
  <2> QED
    BY <1>1, <1>2, <2>1
<1>5. \A j \in Reported(b) : RowOf(RecordOf(Layout(m), j)) = Slot(j)
  <2> SUFFICES ASSUME NEW j \in Reported(b)
               PROVE  RowOf(RecordOf(Layout(m), j)) = Slot(j)
    OBVIOUS
  <2>1. Layout(m).slot = b.slot /\ Layout(m).style = b.style
    BY DEF Layout
  <2>2. b.slot[j] \in Entry
    BY <2>1, LayoutRead
  <2>3. b.slot[j].length \in Int /\ utf16_name(b.slot[j].name) = NameIn(b.slot[j].name)
    BY <2>2, NameSays DEF Entry
  <2>4. NonNegative(b.slot[j].length) = b.slot[j].length
    BY <2>3 DEF Reported, Used, NonNegative
  <2>5. LET r == RecordOf(Layout(m), j) IN
        /\ r.number = b.slot[j].number /\ r.start = NonNegative(b.slot[j].start)
        /\ r.length = b.slot[j].length
        /\ r.type = IF b.style \in {STYLE_MBR, STYLE_GPT} THEN b.slot[j].type ELSE None
        /\ r.name = IF b.style = STYLE_GPT THEN NameIn(b.slot[j].name) ELSE NoName
    <3> HIDE DEF b, m
    <3> QED
      BY <2>1, <2>3, <2>4 DEF RecordOf
  <2> QED
    BY <2>5
<1>6. \A k \in DOMAIN rs : Row(ps[k]) = RowOf(rs[k])
  <2> HIDE DEF ps, rs
  <2> QED
    BY <1>2
<1>7. TableSays[m] = {Slot(j) : j \in Reported(b)}
  <2>1. m \in Media /\ b # NoAnswer
    BY DEF HasLayout
  <2> QED
    BY <2>1 DEF TableSays
<1>8. {Row(p) : p \in {ps[k] : k \in DOMAIN ps}} = {Slot(j) : j \in Reported(b)}
  <2> HIDE DEF Row, RowOf, Slot, ps, rs, b, m
  <2>1. \A k \in DOMAIN rs : \E j \in Reported(b) : Row(ps[k]) = Slot(j)
    <3> SUFFICES ASSUME NEW k \in DOMAIN rs
                 PROVE  \E j \in Reported(b) : Row(ps[k]) = Slot(j)
      OBVIOUS
    <3>1. rs[k] \in Members(rs)
      BY DEF Members
    <3>2. PICK j \in Reported(b) : rs[k] = RecordOf(Layout(m), j)
      BY <1>1, <3>1
    <3> QED
      BY <1>5, <1>6, <3>2
  <2>2. \A j \in Reported(b) : \E k \in DOMAIN rs : Row(ps[k]) = Slot(j)
    <3> SUFFICES ASSUME NEW j \in Reported(b)
                 PROVE  \E k \in DOMAIN rs : Row(ps[k]) = Slot(j)
      OBVIOUS
    <3>1. RecordOf(Layout(m), j) \in Members(rs)
      BY <1>1
    <3>2. PICK k \in DOMAIN rs : rs[k] = RecordOf(Layout(m), j)
      BY <3>1 DEF Members
    <3> QED
      BY <1>5, <1>6, <3>2
  <2> QED
    BY <1>2, <2>1, <2>2
<1> QED
  BY <1>3, <1>4, <1>7, <1>8

-----------------------------------------------------------------------------
(* Drives come and go. *)

\* What holds still was still, and is as it was.
DrivesKept == \A k \in Drives : Still(k)' => /\ Still(k) /\ drive'[k] = drive[k]
                                             /\ k \in taken' <=> k \in taken

LEMMA SystemMoves ==
  ASSUME TypeOK, DriveHeld, System
  PROVE  /\ DrivesKept /\ TypeOK'
         /\ UNCHANGED <<denied, handles, pc, n, size_bytes, sector, disks, access_denied,
                        outcome>>
         /\ pc \in Reading /\ live' => live /\ Attached(n)'
         /\ pc \in Reading /\ Still(n)' => live' = live
<1> USE DEF TypeOK
<1>1. UNCHANGED <<denied, handles, pc, n, size_bytes, sector, disks, access_denied, outcome>>
      /\ changes' \in Nat
  BY DEF System, Plug, Unplug, Take, GiveBack, Disturb
<1>2. ASSUME NEW k \in Drives, NEW m \in Media, Plug(k, m)
      PROVE  /\ DrivesKept /\ drive' \in [Drives -> Media \cup {NoMedium}]
             /\ disturbed' \subseteq Drives /\ taken' \subseteq Drives /\ live' \in BOOLEAN
             /\ pc \in Reading /\ live' => live /\ Attached(n)'
             /\ pc \in Reading /\ Still(n)' => live' = live
  <2> USE <1>2 DEF Plug, Disturb
  <2>1. drive' = [drive EXCEPT ![k] = m] /\ disturbed' = disturbed \cup {k}
        /\ live' = live /\ taken' = taken /\ k \notin handles
    OBVIOUS
  <2>2. pc \in Reading => n # k
    BY <2>1 DEF DriveHeld, Busy
  <2>3. pc \in Reading /\ live => Attached(n)'
    BY <1>1, <2>1, <2>2 DEF DriveHeld, Attached
  <2>4. DrivesKept
    BY <2>1 DEF DrivesKept, Still
  <2> QED
    BY <2>1, <2>3, <2>4
<1>3. ASSUME NEW k \in Drives, Unplug(k)
      PROVE  /\ DrivesKept /\ drive' \in [Drives -> Media \cup {NoMedium}]
             /\ disturbed' \subseteq Drives /\ taken' \subseteq Drives /\ live' \in BOOLEAN
             /\ pc \in Reading /\ live' => live /\ Attached(n)'
             /\ pc \in Reading /\ Still(n)' => live' = live
  <2> USE <1>3 DEF Unplug, Disturb
  <2>1. drive' = [drive EXCEPT ![k] = NoMedium] /\ disturbed' = disturbed \cup {k}
        /\ live' = (live /\ n # k) /\ taken' = taken \ {k}
    OBVIOUS
  <2>2. DrivesKept
    BY <2>1 DEF DrivesKept, Still
  <2>3. pc \in Reading /\ live' => live /\ Attached(n)'
    <3> SUFFICES ASSUME pc \in Reading, live, n # k
                 PROVE  Attached(n)'
      BY <2>1
    <3>1. n \in Drives /\ Attached(n)
      BY DriveAssumption DEF DriveHeld, Busy
    <3> QED
      BY <1>1, <2>1, <3>1 DEF Attached
  <2>4. Still(n)' => live' = live
    BY <1>1, <2>1 DEF Still
  <2> QED
    BY <2>1, <2>2, <2>3, <2>4
<1>4. ASSUME NEW k \in Drives, Take(k) \/ GiveBack(k)
      PROVE  /\ DrivesKept /\ drive' \in [Drives -> Media \cup {NoMedium}]
             /\ disturbed' \subseteq Drives /\ taken' \subseteq Drives /\ live' \in BOOLEAN
             /\ pc \in Reading /\ live' => live /\ Attached(n)'
             /\ pc \in Reading /\ Still(n)' => live' = live
  <2>1. drive' = drive /\ live' = live /\ disturbed' = disturbed \cup {k}
        /\ (taken' = taken \cup {k} \/ taken' = taken \ {k})
    BY <1>4 DEF Take, GiveBack, Disturb
  <2>2. DrivesKept
    BY <2>1 DEF DrivesKept, Still
  <2> QED
    BY <1>1, <2>1, <2>2 DEF DriveHeld, Attached
<1>5. /\ DrivesKept /\ drive' \in [Drives -> Media \cup {NoMedium}]
      /\ disturbed' \subseteq Drives /\ taken' \subseteq Drives /\ live' \in BOOLEAN
      /\ pc \in Reading /\ live' => live /\ Attached(n)'
      /\ pc \in Reading /\ Still(n)' => live' = live
  BY <1>2, <1>3, <1>4 DEF System
<1> QED
  BY <1>1, <1>5

\* What was known of a drive that still holds still is known of it now.
LEMMA TrueKept ==
  ASSUME DrivesKept, denied' = denied
  PROVE  /\ \A k \in Drives : Still(k)' => /\ Still(k) /\ Readable(k)' = Readable(k)
                                           /\ Attached(k)' = Attached(k)
         /\ \A d : d.name \in Drives /\ DriveTrue(d) => DriveTrue(d)'
<1>1. \A k \in Drives : Still(k)' => /\ Still(k) /\ Readable(k)' = Readable(k)
                                     /\ Attached(k)' = Attached(k)
  BY DEF DrivesKept, Readable, Attached
<1>2. ASSUME NEW d, d.name \in Drives, Still(d.name)'
      PROVE  ReportsDrive(d)' = ReportsDrive(d)
  BY <1>2 DEF DrivesKept, ReportsDrive
<1> QED
  BY <1>1, <1>2 DEF DriveTrue, Ordered

LEMMA SystemKeeps ==
  ASSUME ProbeInv, System
  PROVE  ProbeInv'
<1> USE DEF ProbeInv
<1>1. /\ DrivesKept /\ TypeOK /\ TypeOK'
      /\ UNCHANGED <<denied, handles, pc, n, size_bytes, sector, disks, access_denied, outcome>>
      /\ pc \in Reading /\ live' => live /\ Attached(n)'
      /\ pc \in Reading /\ Still(n)' => live' = live
  BY SystemMoves
<1>2. /\ \A k \in Drives : Still(k)' => /\ Still(k) /\ Readable(k)' = Readable(k)
                                        /\ Attached(k)' = Attached(k)
      /\ \A d : d.name \in Drives /\ DriveTrue(d) => DriveTrue(d)'
  BY <1>1, TrueKept
<1>3. pc \in Busy => n \in Drives
  BY <1>1, DriveAssumption DEF DriveHeld, TypeOK
<1>4. pc \in Busy /\ Still(n)' =>
        Still(n) /\ drive'[n] = drive[n] /\ Attached(n)' = Attached(n)
        /\ (n \in taken' <=> n \in taken)
  BY <1>1, <1>3 DEF DrivesKept, Attached
<1>5. DriveHeld'
  BY <1>1, <1>4 DEF DriveHeld, Busy
<1>6. AnswersTrue'
  BY <1>1, <1>4 DEF AnswersTrue, Busy, Reading
<1>7. \A d \in Members(disks) \cup Members(outcome.disks) : d.name \in Drives
  <2>1. disks \in Seq(PhysicalDisk) /\ outcome.disks \in Seq(PhysicalDisk)
    BY <1>1 DEF TypeOK
  <2>2. \A ds \in Seq(PhysicalDisk) : \A j \in DOMAIN ds : ds[j] \in PhysicalDisk
    OBVIOUS
  <2>3. \A d \in PhysicalDisk : d.name \in Drives
    BY DEF PhysicalDisk
  <2> QED
    BY <2>1, <2>2, <2>3 DEF Members
<1>8. DistinctDisks' /\ Gathered'
  <2>1. NamesIn(disks)' = NamesIn(disks) /\ Passed' = Passed /\ DistinctDisks'
    BY <1>1 DEF NamesIn, Members, Passed, DistinctDisks
  <2>2. AllTrue(disks)'
    BY <1>1, <1>2, <1>7 DEF Gathered, AllTrue, Members
  <2>3. Complete(disks, Passed)'
    BY <1>2, <2>1 DEF Gathered, Complete
  <2> QED
    BY <2>1, <2>2, <2>3 DEF Gathered
<1>9. (Reason => Reason') /\ \A P \in SUBSET Drives : NoneRefused(P) => NoneRefused(P)'
  <2>1. denied \subseteq Drives
    BY <1>1 DEF TypeOK
  <2> QED
    BY <1>1, <1>2, <2>1 DEF Reason, NoneRefused
<1>10. Refusals'
  BY <1>1, <1>9 DEF Refusals, NoneRefused
<1>11. Delivered'
  <2>1. AllTrue(outcome.disks) => AllTrue(outcome.disks)'
    BY <1>1, <1>2, <1>7 DEF AllTrue, Members
  <2>2. Complete(outcome.disks, Probed) => Complete(outcome.disks, Probed)'
    BY <1>1, <1>2 DEF Complete, NamesIn, Members, Probed
  <2>3. NoneRefused(Probed) => NoneRefused(Probed)'
    BY <1>9 DEF Probed, NoneRefused
  <2>4. InOrder(outcome.disks) => InOrder(outcome.disks)'
    BY <1>1 DEF InOrder
  <2> QED
    BY <1>1, <1>2, <1>9, <2>1, <2>2, <2>3, <2>4 DEF Delivered
<1> QED
  BY <1>1, <1>5, <1>6, <1>8, <1>10, <1>11

-----------------------------------------------------------------------------
(* The backend's steps. *)

\* With the drives at rest, what is known of them stays.
LEMMA RestSame ==
  ASSUME UNCHANGED <<system, history>>
  PROVE  /\ Reason' = Reason
         /\ \A k : /\ Still(k)' = Still(k) /\ Readable(k)' = Readable(k)
                   /\ Attached(k)' = Attached(k)
         /\ \A d : DriveTrue(d)' = DriveTrue(d)
<1> USE DEF system, history
<1>1. \A k : /\ Still(k)' = Still(k) /\ Readable(k)' = Readable(k)
             /\ Attached(k)' = Attached(k)
  BY DEF Still, Readable, Attached
<1>2. \A d : ReportsDrive(d)' = ReportsDrive(d)
  BY DEF ReportsDrive
<1> QED
  BY <1>1, <1>2 DEF Reason, DriveTrue, Ordered

\* A step that leaves the list, the drive and the result alone keeps what they
\* are known for.
LEMMA ListKept ==
  ASSUME ProbeInv, UNCHANGED <<system, history>>, UNCHANGED disks, Passed' = Passed
  PROVE  DistinctDisks' /\ Gathered'
<1>1. DistinctDisks' /\ NamesIn(disks)' = NamesIn(disks)
  BY DEF ProbeInv, DistinctDisks, NamesIn, Members
<1>2. AllTrue(disks)' /\ Complete(disks, Passed)'
  BY <1>1, RestSame DEF ProbeInv, Gathered, AllTrue, Members, Complete
<1> QED
  BY <1>1, <1>2 DEF ProbeInv, Gathered

LEMMA RefusalsKept ==
  ASSUME ProbeInv, UNCHANGED <<system, history>>, UNCHANGED <<n, access_denied>>
  PROVE  Refusals'
BY RestSame DEF ProbeInv, Refusals, NoneRefused, system

LEMMA ResultKept ==
  ASSUME ProbeInv, UNCHANGED <<system, history>>, UNCHANGED outcome
  PROVE  Delivered'
<1>1. (AllTrue(outcome.disks) => AllTrue(outcome.disks)')
      /\ (InOrder(outcome.disks) => InOrder(outcome.disks)')
  BY RestSame DEF AllTrue, Members, InOrder
<1>2. Complete(outcome.disks, Probed) => Complete(outcome.disks, Probed)'
  BY RestSame DEF Complete, NamesIn, Members
<1>3. NoneRefused(Probed) => NoneRefused(Probed)'
  BY RestSame DEF NoneRefused, system
<1> QED
  BY <1>1, <1>2, <1>3, RestSame DEF ProbeInv, Delivered

\* Counting to the next drive number.
LEMMA NextNumber ==
  ASSUME n \in Nat
  PROVE  \A k \in Drives : k < n + 1 <=> k < n \/ k = n
<1>1. \A k \in Drives : k \in Nat
  BY DriveAssumption
<1> QED
  BY <1>1

\* A drive that cannot be opened is passed, and remembered if it was refused.
LEMMA OpenFailsKeeps ==
  ASSUME ProbeInv, OpenFails
  PROVE  ProbeInv'
<1> USE DEF OpenFails, GoOn, ProbeInv
<1>1. TypeOK' /\ UNCHANGED <<system, history>> /\ n \in Drives /\ n \in Nat
  BY DriveAssumption DEF TypeOK, system, history
<1>2. DriveHeld' /\ AnswersTrue'
  BY DEF DriveHeld, AnswersTrue, Busy, Reading
<1>3. Passed' = Passed \cup {n}
  <2>1. \A k \in Drives : k < n + 1 <=> k < n \/ k = n
    BY <1>1, NextNumber
  <2> QED
    BY <1>1, <2>1 DEF Passed
<1>4. ~Readable(n)
  BY DEF Readable
<1>5. DistinctDisks' /\ Gathered'
  <2>1. DistinctDisks' /\ NamesIn(disks)' = NamesIn(disks)
    BY DEF DistinctDisks, NamesIn, Members
  <2>2. AllTrue(disks)'
    BY <1>1, RestSame DEF Gathered, AllTrue, Members
  <2>3. Complete(disks, Passed)'
    BY <1>1, <1>3, <1>4, <2>1, RestSame DEF Gathered, Complete
  <2> QED
    BY <1>3, <2>1, <2>2, <2>3 DEF Gathered
<1>6. Refusals'
  <2>1. access_denied' => Reason'
    <3>1. n \in Drives /\ n < MAX_DRIVES
      BY <1>1 DEF OpenFails
    <3>2. Refused(n) => Reason
      BY <3>1 DEF Refused, Reason, Probed
    <3>3. access_denied' => access_denied \/ Refused(n)
      BY DEF OpenFails
    <3> QED
      BY <3>2, <3>3, RestSame, <1>1 DEF Refusals
  <2>2. ~access_denied' => NoneRefused({k \in Drives : k < n})'
    <3> SUFFICES ASSUME ~access_denied', NEW k \in Drives, k < n + 1, Still(k), Attached(k)
                 PROVE  k \notin denied
      BY <1>1, RestSame DEF NoneRefused, system
    <3>1. k \in Nat
      BY DriveAssumption
    <3>2. CASE k = n
      BY <3>2 DEF Refused
    <3>3. CASE k < n
      BY <3>3 DEF Refusals, NoneRefused
    <3> QED
      BY <1>1, <3>1, <3>2, <3>3
  <2> QED
    BY <2>1, <2>2 DEF Refusals
<1>7. Delivered'
  BY <1>1, ResultKept
<1> QED
  BY <1>1, <1>2, <1>5, <1>6, <1>7

\* A drive is opened and asked its length and sector size.
LEMMA QueryKeeps ==
  ASSUME ProbeInv, OpenDrive \/ QueryLength \/ QueryGeometry
  PROVE  ProbeInv'
<1> USE DEF ProbeInv
<1>1. /\ UNCHANGED <<system, history, n, disks, access_denied, outcome>>
      /\ pc' \in Reading /\ pc # "close"
  BY DEF OpenDrive, QueryLength, QueryGeometry, Reading
<1>2. Passed' = Passed
  BY <1>1 DEF Passed, Reading
<1>3. DistinctDisks' /\ Gathered' /\ Refusals' /\ Delivered'
  BY <1>1, <1>2, ListKept, RefusalsKept, ResultKept
<1>4. n < MAX_DRIVES /\ n \in Drives /\ (Still(n)' <=> Still(n)) /\ drive' = drive
  BY <1>1, DriveAssumption
     DEF TypeOK, Still, history, system, OpenDrive, QueryLength, QueryGeometry, DriveHeld,
         Busy, Reading
<1>5. CASE OpenDrive
  <2>1. TypeOK'
    BY <1>1, <1>4, <1>5 DEF OpenDrive, TypeOK, system, history
  <2>2. DriveHeld' /\ AnswersTrue'
    BY <1>1, <1>4, <1>5
       DEF OpenDrive, DriveHeld, AnswersTrue, Busy, Reading, Attached, system
  <2> QED
    BY <1>3, <2>1, <2>2
<1>6. pc \in Reading => /\ live => drive[n] \in Media
                        /\ Still(n) => live
                        /\ handles = {n}
                        /\ Still(n) => Attached(n) /\ n \notin denied \cup taken
                        /\ live => Attached(n)
  BY <1>4 DEF DriveHeld, Busy, TypeOK, Attached
<1>7. CASE QueryLength
  <2> USE <1>7 DEF QueryLength
  <2>1. pc = "length" /\ UNCHANGED <<live, handles, sector>> /\ pc' = "geometry"
    OBVIOUS
  <2>2. live => LengthOf[drive[n]] \in Int \cup {NoAnswer}
    BY <1>6, <2>1, DriveAssumption DEF Reading
  <2>3. size_bytes' \in Nat /\ (live => size_bytes' = Answer(LengthOf[drive[n]], 0))
    BY <2>2, DriveAssumption DEF Answers, SizeFrom, NonNegative, Answer
  <2>4. TypeOK'
    BY <1>1, <2>1, <2>3 DEF TypeOK, system, history
  <2>5. DriveHeld'
    BY <1>1, <1>4, <1>6, <2>1 DEF DriveHeld, Busy, Reading, Attached, system
  <2>6. AnswersTrue'
    BY <1>1, <1>4, <1>6, <2>1, <2>3 DEF AnswersTrue, Reading
  <2> QED
    BY <1>3, <2>4, <2>5, <2>6
<1>8. CASE QueryGeometry
  <2> USE <1>8 DEF QueryGeometry
  <2>1. /\ pc = "geometry" /\ UNCHANGED <<live, handles, size_bytes>> /\ pc' = "layout"
        /\ sector' = LET answer == IF Answers(SectorOf[drive[n]]) THEN SectorOf[drive[n]] ELSE 0
                     IN  IF answer = 0 THEN 512 ELSE answer
    OBVIOUS
  <2>2. live => SectorOf[drive[n]] \in Nat \cup {NoAnswer}
    BY <1>6, <2>1, DriveAssumption DEF Reading
  <2>3. sector' \in Nat /\ (live => sector' = Answer(SectorOf[drive[n]], 512))
    BY <2>1, <2>2, DriveAssumption DEF Answers, NonNegative, Answer
  <2>4. TypeOK'
    BY <1>1, <2>1, <2>3 DEF TypeOK, system, history
  <2>5. DriveHeld'
    BY <1>1, <1>4, <1>6, <2>1 DEF DriveHeld, Busy, Reading, Attached, system
  <2>6. AnswersTrue'
    BY <1>1, <1>4, <1>6, <2>1, <2>3 DEF AnswersTrue, Reading
  <2> QED
    BY <1>3, <2>4, <2>5, <2>6
<1> QED
  BY <1>5, <1>7, <1>8

\* A sequence with one element more.
LEMMA MembersAppend ==
  ASSUME NEW S, NEW s \in Seq(S), NEW e \in S
  PROVE  /\ Members(Append(s, e)) = Members(s) \cup {e}
         /\ NamesIn(Append(s, e)) = NamesIn(s) \cup {e.name}
<1> DEFINE t == Append(s, e)
<1>1. /\ DOMAIN t = 1 .. Len(s) + 1 /\ t[Len(s) + 1] = e /\ Len(s) \in Nat
      /\ DOMAIN s = 1 .. Len(s) /\ \A j \in 1 .. Len(s) : t[j] = s[j]
  OBVIOUS
<1> HIDE DEF t
<1>2. Members(t) = Members(s) \cup {e}
  BY <1>1 DEF Members
<1>3. NamesIn(t) = NamesIn(s) \cup {e.name}
  BY <1>2 DEF NamesIn
<1> QED
  BY <1>2, <1>3 DEF t

\* The disk that is pushed is the drive at hand as its answers describe it.
LEMMA DiskRead ==
  ASSUME ProbeInv, pc = "layout", live, HasLayout(drive[n])
  PROVE  ReadDisk \in PhysicalDisk /\ ReadDisk.name = n /\ DriveTrue(ReadDisk)
<1> USE DEF ProbeInv
<1>1. n \in Drives /\ drive[n] \in Media /\ size_bytes \in Nat /\ sector \in Nat
  BY DriveAssumption DEF TypeOK, DriveHeld, Busy, Reading, Attached
<1> DEFINE ps == PartitionsOf(drive[n])
<1>2. /\ ps \in Seq(Partition)
      /\ \A a, b \in DOMAIN ps : a < b => ps[a].start =< ps[b].start
      /\ {[number |-> p.dev[2], start |-> p.start, size |-> p.size, type |-> p.type,
           label |-> p.label] : p \in {ps[k] : k \in DOMAIN ps}} = TableSays[drive[n]]
  BY <1>1, PartitionsAre
<1> HIDE DEF ps
<1>3. /\ ReadDisk.name = n /\ ReadDisk.partitions = ps /\ ReadDisk.size = size_bytes
      /\ ReadDisk.logical = sector /\ ReadDisk.physical = sector
  BY DEF ReadDisk, ps
<1>4. ReadDisk \in PhysicalDisk
  BY <1>1, <1>2 DEF ReadDisk, PhysicalDisk, ps
<1>5. Ordered(ReadDisk)
  BY <1>2, <1>3 DEF Ordered
<1>6. Still(n) => ReportsDrive(ReadDisk)
  BY <1>2, <1>3 DEF AnswersTrue, ReportsDrive
<1> QED
  BY <1>3, <1>4, <1>5, <1>6 DEF DriveTrue

LEMMA QueryLayoutKeeps ==
  ASSUME ProbeInv, QueryLayout
  PROVE  ProbeInv'
<1> USE DEF ProbeInv
<1> DEFINE answered == live /\ HasLayout(drive[n])
<1>1. /\ UNCHANGED <<system, history, handles, n, live, size_bytes, sector, access_denied,
                     outcome>>
      /\ pc = "layout" /\ pc' = "close"
      /\ disks' = IF answered THEN Append(disks, ReadDisk) ELSE disks
  BY DEF QueryLayout, Then
<1>2. /\ n < MAX_DRIVES /\ n \in Drives /\ handles = {n} /\ disks \in Seq(PhysicalDisk)
      /\ Still(n) => live /\ Attached(n) /\ n \notin denied \cup taken
  BY <1>1, DriveAssumption DEF TypeOK, DriveHeld, Busy, Reading
<1>3. answered => ReadDisk \in PhysicalDisk /\ ReadDisk.name = n /\ DriveTrue(ReadDisk)
  BY <1>1, DiskRead
<1>4. Still(n) => (Readable(n) <=> answered)
  BY <1>2 DEF Readable, Probed, HasLayout
<1>5. n \notin Passed /\ Passed' = Passed \cup {n}
  BY <1>1, <1>2, DriveAssumption DEF Passed
<1>6. /\ answered => /\ Members(disks') = Members(disks) \cup {ReadDisk}
                     /\ NamesIn(disks') = NamesIn(disks) \cup {n}
      /\ ~answered => disks' = disks
  BY <1>1, <1>2, <1>3, MembersAppend
<1> HIDE DEF answered
<1>7. TypeOK'
  <2>1. disks' \in Seq(PhysicalDisk)
    BY <1>1, <1>2, <1>3
  <2> QED
    BY <1>1, <2>1 DEF TypeOK, system, history
<1>8. DriveHeld' /\ AnswersTrue'
  BY <1>1, <1>2 DEF DriveHeld, AnswersTrue, Busy, Reading, Still, Attached, system, history
<1>9. DistinctDisks'
  <2>1. CASE answered
    <3>1. /\ DOMAIN disks' = 1 .. Len(disks) + 1 /\ disks'[Len(disks) + 1].name = n
          /\ DOMAIN disks = 1 .. Len(disks) /\ Len(disks) \in Nat
          /\ \A j \in 1 .. Len(disks) : disks'[j] = disks[j]
      <4>1. disks' = Append(disks, ReadDisk) /\ ReadDisk.name = n
        BY <1>1, <1>3, <2>1
      <4> QED
        BY <1>2, <4>1
    <3>2. \A j \in 1 .. Len(disks) : disks[j].name # n
      BY <1>5, <3>1 DEF Gathered, NamesIn, Members
    <3> QED
      BY <3>1, <3>2 DEF DistinctDisks
  <2> QED
    BY <1>6, <2>1 DEF DistinctDisks
<1>10. Gathered'
  <2>1. \A d \in Members(disks') : DriveTrue(d)
    BY <1>3, <1>6 DEF Gathered, AllTrue
  <2>2. AllTrue(disks)'
    <3>1. Members(disks)' = Members(disks')
      BY DEF Members
    <3> QED
      BY <1>1, <2>1, <3>1, RestSame DEF AllTrue
  <2>3. NamesIn(disks)' = NamesIn(disks')
    BY DEF NamesIn, Members
  <2>4. NamesIn(disks') = NamesIn(disks) \cup (IF answered THEN {n} ELSE {})
    BY <1>6
  <2>5. NamesIn(disks') \subseteq Passed'
    BY <1>5, <2>4 DEF Gathered
  <2>6. ASSUME NEW k \in Drives, Still(k)
        PROVE  k \in NamesIn(disks') <=> k \in Passed' /\ Readable(k)
    <3>1. CASE k = n
      BY <1>4, <1>5, <2>4, <2>6, <3>1 DEF Gathered
    <3>2. CASE k # n
      BY <1>5, <2>4, <2>6, <3>2 DEF Gathered, Complete
    <3> QED
      BY <3>1, <3>2
  <2>7. Complete(disks, Passed)'
    BY <1>1, <2>3, <2>6, RestSame DEF Complete
  <2> QED
    BY <2>2, <2>3, <2>5, <2>7 DEF Gathered
<1>11. Refusals' /\ Delivered'
  BY <1>1, RefusalsKept, ResultKept
<1> QED
  BY <1>7, <1>8, <1>9, <1>10, <1>11

\* The handle is closed.
LEMMA CloseKeeps ==
  ASSUME ProbeInv, Close
  PROVE  ProbeInv'
<1> USE DEF ProbeInv, Close
<1>1. UNCHANGED <<system, history, disks, access_denied, outcome>>
      /\ pc = "close" /\ pc' = "open" /\ n' = n + 1 /\ handles' = handles \ {n}
  OBVIOUS
<1>2. /\ n < MAX_DRIVES /\ n \in Nat /\ n \in Drives /\ handles = {n} /\ MAX_DRIVES \in Nat
      /\ Still(n) => n \notin denied
  BY <1>1, DriveAssumption DEF TypeOK, DriveHeld, Busy
<1>3. \A k \in Drives : k < n + 1 <=> k < n \/ k = n
  BY <1>2, NextNumber
<1>4. TypeOK'
  <2>1. n' \in 0 .. MAX_DRIVES /\ handles' = {}
    BY <1>1, <1>2
  <2>2. live' \in BOOLEAN
    BY Zenon
  <2>3. size_bytes' \in Nat /\ sector' \in Nat
    OBVIOUS
  <2> HIDE DEF Close
  <2> QED
    BY <1>1, <2>1, <2>2, <2>3 DEF TypeOK, system, history
<1>5. DriveHeld' /\ AnswersTrue'
  BY <1>1, <1>2 DEF DriveHeld, AnswersTrue, Busy, Reading
<1>6. Passed' = Passed
  BY <1>1, <1>3 DEF Passed
<1>7. Refusals'
  <2>1. ~access_denied => NoneRefused({k \in Drives : k < n + 1})
    BY <1>2, <1>3 DEF Refusals, NoneRefused
  <2> QED
    BY <1>1, <2>1, RestSame DEF Refusals, NoneRefused, system
<1> QED
  BY <1>1, <1>4, <1>5, <1>6, <1>7, ListKept, ResultKept

\* The end of the loop: a list in the order of the names, or the refusal.
LEMMA FinishKeeps ==
  ASSUME ProbeInv, Finish
  PROVE  ProbeInv'
<1> USE DEF ProbeInv
<1> DEFINE key == [k \in DOMAIN disks |-> ByteRank[disks[k].name]]
           sorted == SortedBy(disks, key)
           failed == disks = <<>> /\ access_denied
<1>1. /\ UNCHANGED <<system, handles, history, live, size_bytes, sector>>
      /\ pc = "open" /\ pc' = "idle" /\ n = MAX_DRIVES /\ n' = 0
      /\ disks' = <<>> /\ access_denied' = FALSE
      /\ failed => outcome' = [status |-> "err", disks |-> <<>>]
      /\ ~failed => outcome' = [status |-> "ok", disks |-> sorted]
  BY DEF Finish, ByName
<1>2. Passed = Probed
  BY <1>1 DEF Passed, Probed
<1>3. /\ disks \in Seq(PhysicalDisk) /\ Len(disks) \in Nat /\ DOMAIN disks = 1 .. Len(disks)
      /\ \A j \in 1 .. Len(disks) : disks[j].name \in Drives
  <2>1. disks \in Seq(PhysicalDisk)
    BY DEF TypeOK
  <2>2. /\ Len(disks) \in Nat /\ DOMAIN disks = 1 .. Len(disks)
        /\ \A j \in 1 .. Len(disks) : disks[j] \in PhysicalDisk
    BY <2>1
  <2>3. \A d \in PhysicalDisk : d.name \in Drives
    BY DEF PhysicalDisk
  <2> QED
    BY <2>1, <2>2, <2>3
<1>4. KeysOf(key, Len(disks))
  <2>1. \A j \in 1 .. Len(disks) : ByteRank[disks[j].name] \in Nat
    BY <1>3, DriveAssumption
  <2> QED
    BY <1>3, <2>1 DEF KeysOf
<1>5. /\ sorted \in Seq(PhysicalDisk) /\ Len(sorted) = Len(disks)
      /\ DOMAIN sorted = 1 .. Len(disks) /\ Members(sorted) = Members(disks)
  <2> HIDE DEF key
  <2> QED
    BY <1>3, <1>4, SortedByType, SortedByMembers DEF Members
<1>6. InOrder(sorted)
  <2>1. /\ \A r \in 1 .. Len(disks) : /\ AtRank(key, r) \in 1 .. Len(disks)
                                      /\ Rank(key, AtRank(key, r)) = r
                                      /\ sorted[r] = disks[AtRank(key, r)]
        /\ \A q, r \in 1 .. Len(disks) :
             q < r => key[AtRank(key, q)] =< key[AtRank(key, r)]
    <3> HIDE DEF key
    <3> QED
      BY <1>3, <1>4, SortedByPermutes
  <2>2. SUFFICES ASSUME NEW q \in 1 .. Len(disks), NEW r \in 1 .. Len(disks), q < r
                 PROVE  ByteRank[sorted[q].name] < ByteRank[sorted[r].name]
    BY <1>5 DEF InOrder
  <2> DEFINE a == AtRank(key, q)
             b == AtRank(key, r)
  <2>3. a \in 1 .. Len(disks) /\ b \in 1 .. Len(disks) /\ key[a] =< key[b]
        /\ sorted[q] = disks[a] /\ sorted[r] = disks[b]
    BY <2>1, <2>2
  <2>4. a # b
    BY <2>1, <2>2
  <2> HIDE DEF a, b
  <2>5. disks[a].name # disks[b].name
    BY <1>3, <2>3, <2>4 DEF DistinctDisks
  <2>6. /\ key[a] = ByteRank[disks[a].name] /\ key[b] = ByteRank[disks[b].name]
        /\ disks[a].name \in Drives /\ disks[b].name \in Drives
    BY <1>3, <2>3
  <2>7. key[a] \in Nat /\ key[b] \in Nat /\ key[a] # key[b]
    BY <2>5, <2>6, DriveAssumption
  <2> QED
    BY <2>3, <2>6, <2>7
<1> HIDE DEF key, sorted, failed
<1>7. TypeOK'
  <2>1. /\ n' \in 0 .. MAX_DRIVES /\ disks' \in Seq(PhysicalDisk)
        /\ outcome' \in [status : {"none", "ok", "err"}, disks : Seq(PhysicalDisk)]
    <3>1. <<>> \in Seq(PhysicalDisk)
      OBVIOUS
    <3>e. \A ds \in Seq(PhysicalDisk) : [status |-> "err", disks |-> ds]
                                        \in [status : {"none", "ok", "err"}, disks : Seq(PhysicalDisk)]
      OBVIOUS
    <3>2. CASE failed
      <4>1. [status |-> "err", disks |-> <<>>]
              \in [status : {"none", "ok", "err"}, disks : Seq(PhysicalDisk)]
        BY <3>1, <3>e, Zenon
      <4>2. outcome' = [status |-> "err", disks |-> <<>>]
        BY <1>1, <3>2
      <4>3. outcome' \in [status : {"none", "ok", "err"}, disks : Seq(PhysicalDisk)]
        BY <4>1, <4>2, Zenon
      <4>4. n' \in 0 .. MAX_DRIVES /\ disks' \in Seq(PhysicalDisk)
        BY <1>1, <3>1, DriveAssumption
      <4> QED
        BY <4>3, <4>4
    <3>3. CASE ~failed
      BY <1>1, <1>5, <3>1, <3>3, DriveAssumption
    <3> QED
      BY <3>2, <3>3
  <2>2. access_denied' \in BOOLEAN
    BY <1>1, Zenon
  <2> QED
    BY <1>1, <2>1, <2>2 DEF TypeOK, system, history
<1>8. DriveHeld' /\ AnswersTrue'
  BY <1>1 DEF DriveHeld, AnswersTrue, Busy, Reading
<1>9. DistinctDisks' /\ Gathered'
  <2>1. DOMAIN disks' = {} /\ \A k \in Drives : ~(k < 0)
    BY <1>1, DriveAssumption
  <2> QED
    BY <1>1, <2>1 DEF DistinctDisks, Gathered, NamesIn, Members, AllTrue, Complete, Passed
<1>10. Refusals'
  <2>1. \A k \in Drives : ~(k < 0)
    BY DriveAssumption
  <2> QED
    BY <1>1, <2>1 DEF Refusals, NoneRefused
<1>11. ~access_denied => NoneRefused(Probed)
  BY <1>1 DEF Refusals, Probed
<1>12. CASE failed
  <2>1. outcome'.status = "err" /\ outcome'.disks = <<>> /\ disks = <<>> /\ access_denied
    BY <1>1, <1>12 DEF failed
  <2>2. Reason
    BY <2>1 DEF Refusals
  <2>3. \A k \in Drives : Still(k) => ~Readable(k)
    <3>1. NamesIn(disks) = {}
      BY <2>1 DEF NamesIn, Members
    <3> QED
      BY <1>2, <3>1 DEF Gathered, Complete, Readable
  <2> QED
    BY <1>1, <1>7, <1>8, <1>9, <1>10, <2>1, <2>2, <2>3, RestSame DEF Delivered
<1>13. CASE ~failed
  <2>1. outcome'.status = "ok" /\ outcome'.disks = sorted
    BY <1>1, <1>13
  <2>2. \A d \in Members(sorted) : DriveTrue(d)
    BY <1>5 DEF Gathered, AllTrue
  <2>3. AllTrue(outcome.disks)'
    BY <1>1, <2>1, <2>2, RestSame DEF AllTrue, Members
  <2>4. Complete(sorted, Probed)
    BY <1>2, <1>5 DEF Gathered, Complete, NamesIn
  <2>5. Complete(outcome.disks, Probed)'
    BY <1>1, <2>1, <2>4, RestSame DEF Complete, NamesIn, Members, Probed
  <2>6. sorted = <<>> => NoneRefused(Probed)
    <3> SUFFICES ASSUME sorted = <<>>
                 PROVE  ~access_denied
      BY <1>11
    <3>1. Len(disks) = 0
      BY <1>5
    <3>2. disks = <<>>
      BY <1>3, <3>1
    <3> QED
      BY <1>13, <3>2 DEF failed
  <2>7. outcome'.disks = <<>> => NoneRefused(Probed)'
    BY <1>1, <2>1, <2>6, RestSame DEF NoneRefused, Probed, system
  <2>8. InOrder(outcome.disks)'
    BY <1>6, <2>1 DEF InOrder
  <2>9. Delivered'
    BY <2>1, <2>3, <2>5, <2>7, <2>8 DEF Delivered
  <2> QED
    BY <1>7, <1>8, <1>9, <1>10, <2>9
<1> QED
  BY <1>12, <1>13

\* A call begins.
LEMMA CallKeeps ==
  ASSUME ProbeInv, Call
  PROVE  ProbeInv'
<1> USE DEF ProbeInv, Call
<1>1. \A k \in Drives : ~(k < 0)
  BY DriveAssumption
<1>2. TypeOK'
  <2>1. access_denied' \in BOOLEAN
    BY Zenon
  <2>2. n' \in 0 .. MAX_DRIVES
    BY DriveAssumption
  <2> QED
    BY <2>1, <2>2 DEF TypeOK, system, NoOutcome
<1>3. DriveHeld' /\ AnswersTrue'
  BY DEF DriveHeld, AnswersTrue, Busy, Reading
<1>4. DistinctDisks' /\ Gathered'
  BY <1>1 DEF DistinctDisks, Gathered, NamesIn, Members, AllTrue, Complete, Passed
<1>5. Refusals'
  BY <1>1 DEF Refusals, NoneRefused
<1>6. Delivered'
  BY DEF Delivered, NoOutcome
<1> QED
  BY <1>2, <1>3, <1>4, <1>5, <1>6

LEMMA InitInv == Init => ProbeInv
<1> SUFFICES ASSUME Init PROVE ProbeInv
  OBVIOUS
<1>1. \A k \in Drives : ~(k < 0)
  BY DriveAssumption
<1>2. TypeOK
  <2>1. live \in BOOLEAN /\ access_denied \in BOOLEAN
    BY Zenon DEF Init
  <2>2. n \in 0 .. MAX_DRIVES
    BY DriveAssumption DEF Init
  <2> QED
    BY <2>1, <2>2 DEF Init, TypeOK, NoOutcome
<1>3. DriveHeld /\ AnswersTrue
  BY DEF Init, DriveHeld, AnswersTrue, Busy, Reading
<1>4. DistinctDisks /\ Gathered
  BY <1>1 DEF Init, DistinctDisks, Gathered, NamesIn, Members, AllTrue, Complete, Passed
<1>5. Refusals
  BY <1>1 DEF Init, Refusals, NoneRefused
<1>6. Delivered
  BY DEF Init, Delivered, NoOutcome
<1> QED
  BY <1>2, <1>3, <1>4, <1>5, <1>6 DEF ProbeInv

LEMMA StutterKeeps == ProbeInv /\ UNCHANGED vars => ProbeInv'
<1> SUFFICES ASSUME ProbeInv, UNCHANGED vars PROVE ProbeInv'
  OBVIOUS
<1>1. UNCHANGED <<system, history>> /\ UNCHANGED disks /\ UNCHANGED outcome
      /\ UNCHANGED <<n, access_denied>> /\ Passed' = Passed
  BY DEF vars, locals, Passed
<1>2. TypeOK' /\ DriveHeld' /\ AnswersTrue'
  BY DEF ProbeInv, vars, system, history, locals, TypeOK, DriveHeld, AnswersTrue, Attached,
     Still
<1> QED
  BY <1>1, <1>2, ListKept, RefusalsKept, ResultKept DEF ProbeInv

-----------------------------------------------------------------------------
(* The theorems. *)

\* At every step, what was asked of the drive at hand is the truth while
\* nothing disturbs it, and every drive that was passed is in the list or
\* accounted for (windows.rs:47-76).
THEOREM ProbeInvariant == Spec => []ProbeInv
<1>1. ProbeInv /\ [Next]_vars => ProbeInv'
  BY SystemKeeps, CallKeeps, OpenFailsKeeps, QueryKeeps, QueryLayoutKeeps, CloseKeeps,
     FinishKeeps, StutterKeeps DEF Next, Probe
<1> QED
  BY InitInv, <1>1, PTL DEF Spec

\* Every value the backend and the system hold has its type (windows.rs:43-146).
THEOREM WindowsTypes == Spec => []TypeOK
<1>1. ProbeInv => TypeOK
  BY DEF ProbeInv
<1> QED
  BY ProbeInvariant, <1>1, PTL

\* No handle outlives the drive it was opened for: between drives, and between
\* calls, none is open (windows.rs:72-76).
THEOREM ClosesHandles == Spec => []HandlesClosed
<1>1. ProbeInv => HandlesClosed
  BY DEF ProbeInv, TypeOK, DriveHeld, Busy, Reading, HandlesClosed
<1> QED
  BY ProbeInvariant, <1>1, PTL

\* A drive that held still is listed exactly as it is, if it can be read, and
\* not otherwise, whatever became of the others (windows.rs:47-76, 88-146).
THEOREM ListsStableDrivesExactly == Spec => []StableDrivesExact
<1>1. ProbeInv => StableDrivesExact
  <2> SUFFICES ASSUME ProbeInv, Returned
               PROVE  StableDrivesExact
    BY DEF StableDrivesExact
  <2>1. AllTrue(outcome.disks) /\ Complete(outcome.disks, Probed)
    BY DEF ProbeInv, Delivered, Returned
  <2>2. NamesIn(outcome.disks) = Listed
    BY DEF NamesIn, Members, Listed
  <2>3. \A k \in Drives : Still(k) => (k \in Listed <=> Readable(k))
    BY <2>1, <2>2 DEF Complete, Readable
  <2>4. \A k \in DOMAIN outcome.disks : DriveTrue(outcome.disks[k])
    BY <2>1 DEF AllTrue, Members
  <2> QED
    BY <2>3, <2>4 DEF StableDrivesExact, DriveTrue
<1> QED
  BY ProbeInvariant, <1>1, PTL

\* An empty list never hides a refusal (windows.rs:62-69, 78-82).
THEOREM RefusesLoudly == Spec => []RefusalIsLoud
<1>1. ProbeInv => RefusalIsLoud
  BY DEF ProbeInv, Delivered, Returned, RefusalIsLoud, NoneRefused
<1> QED
  BY ProbeInvariant, <1>1, PTL

\* A call that fails was refused one of the numbers it looks for, and had nothing
\* it could list (windows.rs:47, 66, 78-82).
THEOREM ExplainsErrors == Spec => []ErrorsExplained
<1>1. ProbeInv => ErrorsExplained
  BY DEF ProbeInv, Delivered, Reason, ErrorsExplained
<1> QED
  BY ProbeInvariant, <1>1, PTL

\* Every list is in the documented order, whatever the slot order of the tables
\* (windows.rs:83 and 130, lib.rs:112).
THEOREM ListsDrivesInOrder == Spec => []OnDiskOrder
<1>1. ProbeInv => OnDiskOrder
  <2> SUFFICES ASSUME ProbeInv, Returned
               PROVE  OnDiskOrder
    BY DEF OnDiskOrder
  <2>1. InOrder(outcome.disks) /\ AllTrue(outcome.disks)
    BY DEF ProbeInv, Delivered, Returned
  <2>2. \A k \in DOMAIN outcome.disks : Ordered(outcome.disks[k])
    BY <2>1 DEF AllTrue, Members, DriveTrue
  <2> QED
    BY <2>1, <2>2 DEF OnDiskOrder, InOrder, Ordered
<1> QED
  BY ProbeInvariant, <1>1, PTL
=============================================================================
