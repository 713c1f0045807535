# livedisk-forensic in TLA+

A verification development of `livedisk` (crate `core/`: list the disks of a
running machine, draw them, open one) and `livedisk-forensic` (crate
`forensic/`: what about a disk endangers a sound acquisition). Both are small,
sequential libraries. What makes them hard is what they read: the device
registry of a live operating system, one file or one request at a time, while
disks are plugged, replaced, repartitioned and mounted. The models therefore
put every system call of a backend and every step of the operating system in
one interleaving.

Paths below are relative to the repository.

## 1. The system

| part | state | operations | talks to |
|---|---|---|---|
| Linux device walk, `core/src/linux.rs` | locals of one call: the directory streams, the disk and partition at hand, the raw strings so far | `enumerate`: `/sys/block`, per disk its children and six attribute files, then `/proc/mounts` | the kernel (file reads); `sysfs::build` |
| sysfs build, `core/src/sysfs.rs` | none | `parse_mounts`, `parse_u64`, `build` | called by the walk |
| Windows probe, `core/src/windows.rs` | the handle at hand, `access_denied`, the disks so far | `enumerate`: open each drive number, three requests, close | Windows; the layout parser |
| Drive-layout parser, `core/src/drive_layout.rs` | loop index, partitions so far | `parse_drive_layout` | a buffer the OS filled |
| macOS registry walk, `core/src/macos.rs` | the iterator, the media so far | `collect_media`, `read_media`, `assemble` | IOKit |
| Contract and device access, `core/src/lib.rs` | a file handle | `enumerate` (dispatch), `open_device` | a backend; the OS |
| Listing and bars, `core/src/lib.rs`, `core/src/bar.rs` | loop locals | `render_listing`, `render_overview`, `segments`, `allocate_widths`, `partition_slots` | the list of a call |
| Text views, `core/src/lib.rs` | none | `human_size`, `render_disks`, `partition_info` | the list of a call |
| Triage, `forensic/src/lib.rs` | none | `analyse`, `analyse_target` | one record of the list |

There is no shared memory and no thread inside the program: components call each
other and hand over values. The concurrency is between one call and the
operating system, and between a list and the device it speaks of later.

**Hard behaviours.** A path is resolved again by every read, so two reads of one
record can be of two disks. A directory stream promises little about what
changes while it is read. A missing file and an empty one are the same thing to
the code, and become a default. One `?` in a loop drops the work of all earlier
iterations. A handle must be closed on every way out. An empty list can mean "no
disk" or "not allowed". A count in a buffer can be a lie. Rounding must come out
exactly. The list that was triaged is older than the device that is opened.

**What makes each part correct.** Walk and probe: disks that held still are
listed exactly, nothing is listed that was not there at some time during the
call, failures have a reason, the order is the documented one, defaults are
usable, calls end, nothing leaks. The parser: it stays in the buffer and in the
machine word, and reports exactly the used slots. The listing: bars as wide as
asked for, free space as large as it is, colours that identify. Device access
and triage: the handle is fresh and on the listed disk as long as nothing was
replaced, and findings hold as long as the disk held still.

`PROJECT.json` lists the hazards one by one, at their lines.

## 2. Modules

| module | models | built on |
|---|---|---|
| `StableSort` | `sort_by_key` / `sort_by` and `filter` of the standard library (external), by ranks | |
| `Enumeration` | abstract: what `enumerate()` promises on any platform | |
| `MountsText` | how a mount point goes through the text of `/proc/mounts`: written by the kernel, split and decoded by `sysfs.rs` | |
| `LinuxWalk` | `linux.rs` and the rest of `sysfs.rs`, with the kernel | `StableSort`, `MountsText` |
| `LinuxWalkProps` | its properties, and its refinement of `Enumeration` | `LinuxWalk`, `Enumeration` |
| `LayoutBuffer` | the layout buffer and what a reader must report of it | |
| `DriveLayout` | the parser's loop, in machine words | `LayoutBuffer` |
| `WindowsProbe` | `windows.rs`, with Windows and other programs | `LayoutBuffer`, `StableSort` |
| `WindowsProbeProps` | its properties | `WindowsProbe`, `Triage` |
| `Triage` | `analyse`, `analyse_target` | |
| `Acquisition` | a user who lists, triages and opens, on Linux | `LinuxWalkProps`, `Triage` |
| `DiskListing` | `render_listing`, `human_size`, `bar.rs` | `StableSort` |
| `DiskListingProps` | its properties | `DiskListing` |
| `MacRegistry` | `macos.rs`, with the IOKit registry | `StableSort` |
| `MacRegistryProps` | its properties, and its refinement of `Enumeration` | `MacRegistry`, `Enumeration` |
| `MC...` | the constants of the instances TLC checks | |
| `StableSortProofs` | what a sort and a filter return, induction over positions | `StableSort`, TLAPS |
| `LinuxWalkProofs` | the Linux backend: types, safety, exactness, its refinement of `Enumeration` | `LinuxWalkProps`, `StableSortProofs` |
| `AcquisitionProofs` | the text of mount points, the mounts of a list, the disk that was chosen | `Acquisition`, `LinuxWalkProofs` |
| `LayoutBufferProofs` | what a layout buffer says | `LayoutBuffer`, `StableSortProofs` |
| `DriveLayoutProofs` | the parser's safety | `DriveLayout`, `LayoutBufferProofs` |
| `WindowsProbeProofs` | the Windows backend's safety | `WindowsProbeProps`, `LayoutBufferProofs` |
| `MacRegistryProofs` | the macOS backend's safety and its refinement of `Enumeration` | `MacRegistryProps`, `StableSortProofs` |
| `DiskListingProofs` | the listing, the overview, the bars and the sizes | `DiskListingProps`, `StableSortProofs` |

### State and actions against the code

*LinuxWalk.* `pc` is the place in `enumerate()`: `idle`, `dir` (the outer loop;
`Call` is the first system call, `read_dir("/sys/block")`), `open` (before
`read_dir(&base)`), `sub` (the inner loop), `probe`, `psize`, `pstart` (the
three accesses to a partition), `attrs` (the six attribute files, in order),
`mounts` (before `/proc/mounts`). `parts`, `attrs` and `raw` are the locals
`parts`, the fields of the `RawDisk` under construction and `raw`. `seen` and
`sub` are the two directory streams. Every action is one system call together
with the computation up to the next; `Return` and `Propagate` drop the locals,
as the function's end does. `ReadMounts` contains all of `sysfs::build`, which
touches nothing outside. A mount point is a path of code points. The kernel
writes it with its four escapes (`seq_path`), `parse_mounts` cuts the field at
white space and `decode_octal` decodes it: `PointRead` is what comes out. A byte
that is no UTF-8 is a code point of its own, `NotUtf8`; it makes `MountsContent`
empty, and so does a `/proc/mounts` that cannot be read (`procfs`, which `Procs`
allows to be false). `Unreadable` is every `?` on a directory: opening
`/sys/block` or a disk's, or taking the next entry of either. The kernel's
actions are external: `Attach`, `Detach`, `Repartition`, `Mount`, `Unmount`.
Repartitioning a disk in use is refused, as the kernel does; a name stays
reserved while something is mounted under it. `moved`, `held`, `retabled` and
`remounted` remember, for the properties, what the kernel did since the call
opened `/sys/block`: `moved` the names that came or went, which alone the stream
may miss or yield too late; `held` each medium and table that was behind a name,
which is what `NoPhantoms` compares a list with.

*WindowsProbe.* `pc` is the place in the loop over drive numbers (`open`,
`length`, `geometry`, `layout`, `close`). A handle outlives its drive and then
fails every request (`live`). An open succeeds (`OpenDrive`) or fails
(`OpenFails`) for one of three reasons: no such drive, a refusal, another
program's use; `Refused` is the one that is remembered. Numbers go up to
`MAX_DRIVES`, which drives may exceed. A layout longer than `LAYOUT_BUF` makes
its request fail, and a shorter one leaves zeros behind it. A layout request runs
`parse_drive_layout` on the answer; the result is `LayoutBuffer!Records`, the
operator `DriveLayout` shows the loop to compute.

*DriveLayout.* One action per iteration, and the slice it takes of the buffer
is a variable, so that staying in the buffer is a property and not a guard of
the model. Arithmetic wraps at `Word`.

*MacRegistry.* `pc` is the place in `collect_media`: `match` (before
`IOServiceGetMatchingServices`), `next` (before `IOIteratorNext`), `read`
(before the properties are asked for), `release` (before `IOObjectRelease`).
`matches` is what the iterator has left to give, `media` the local `out`, `refs`
the IOKit references held. `Finish` releases the iterator and contains all of
`assemble`. The registry's actions are external: a whole disk is published
before its partitions, and takes them with it. It is assumed of IOKit that the
iterator goes over the objects that matched when it was made, and that an object
that has since left the registry may or may not still have its properties. An
object whose properties are there has its `BSD Name` and `Whole` among them, as
IOMedia gives both to every object it publishes; any other property may be
`Missing`.

*DiskListing.* `stage` walks through `render_listing` and `disk_bar`:
`segments`, `widths`, `borrow`, `slots`, `drawn`. `human_size` gives the number,
in tenths, and the unit; half a tenth goes either way, because the code's binary
fraction does. The code divides an `f64`, the model an exact fraction: above
2^53 bytes the code's number has lost its last bits first. A bar ends with the
disk or, when a partition ends beyond it, with that partition (`BarEnd`); the
bytes before such a partition that nothing covers are drawn as free although the
disk does not have them. The comment at `core/src/bar.rs:59-61` ("gaps where
partitions do not cover the device") does not speak of that case. Loops whose
iterations depend on each other are an action per iteration.

*Acquisition.* `step` is where the user is: `list`, `open`, `seek`, `rewind`
(the three calls inside `open_device`), `done`. The open may fail also on a disk
that is there, for want of rights. The kernel and the walk move as in
`LinuxWalk`.

### What is abstracted

* Names are positions in their byte order; models and partition types (GUIDs
  too) are opaque values. The name of a GPT entry is its units, with one blank
  for all white space and no surrogates. A file's contents are the number
  `parse_u64` makes of them, or `NoFile` for missing, unreadable or not a
  number: the code treats these alike.
* A directory stream yields what is there throughout, may or may not yield what
  came or went after it was opened, and yields no name twice; a name that is
  gone is yielded only if it was read ahead, with an earlier one. A stream whose
  disk is gone may end or fail.
* `/proc/mounts` is read at one instant. Of a line, the mount point is modelled
  as text; the device is its kernel name or another one. The file system's name
  is left out.
* What the last call returned is kept in `outcome` until the next call.
* 64-bit sizes do not overflow: the kernel has no disk of 2^63 bytes, and the
  bars are computed with saturation or in 128 bits. The one plain sum, the
  overview's total, is text and left out.
* Labels, percentages, escape codes, notes and severities are left out.

## 3. What the runs check

| run | instance | properties |
|---|---|---|
| `LinuxHotplug` | three names (a device-mapper disk, a RAM disk, an ordinary one that two media can take), tables that change, 3 steps of the kernel during a call | types; stable disks listed exactly; no phantoms, down to each partition's number, start and size; on-disk order; failures explained; sector sizes usable; implements `Enumeration`; every call ends |
| `LinuxVanish` | as `LinuxHotplug` | *violated*: a call fails only when the registry cannot be read |
| `LinuxMountText` | one disk; one of its mount points is not UTF-8 | *violated*: mounted partitions say where |
| `LinuxMountSpaces` | one disk; a mount point with a no-break space | *violated*: a mount point that is reported is the one there is |
| `DriveLayout` | buffers ending before, on and after each slot boundary; counts from 0 to far beyond; a word of 1024 values | types; slices in the buffer; no overflow; work bounded by the buffer; result exact; the parser answers |
| `WindowsHotplug` | four numbers whose text order is not their number order, the last of them beyond `MAX_DRIVES`; three drives (an unsorted table that just fits in the buffer, with a name that has blanks and stale units; no geometry and a negative length; a table one entry too long), every set of refused and taken numbers, 2 steps of the system | types; stable drives exact; handles closed; refusals loud; failures explained; order; every call ends |
| `WindowsNoLayout` | three numbers, two drives, one of which gives no layout; nothing moves | *violated*: a drive is listed with whatever is known |
| `WindowsWriteBlocked` | as above | *violated*: a write-blocked drive is not reported writable |
| `Acquisition` | one bay, two media, tables, two mount lines at a time under kernel and other names, at a path with a blank and one with a backslash and digits, 4 steps of the kernel between two listings; `/proc/mounts` readable or not | handle fresh; on the listed disk unless something was plugged under its name; findings hold (the three flags, sector sizes, mounts both ways); mount points exact |
| `MountedWhole` | as above | *violated*: a mounted volume is found |
| `DiskListing` | every disk of 3 or 5 bytes with up to three partitions; disks with slices that round to nothing, widths 0 to 7; lists of up to four disks; sizes around every boundary of four units of ten; a palette of 3 | what is drawn free is what nothing covers, overrunning partitions included; bars filled; slices seen; lending fair; accents match the overview; colours spent before they repeat; overview fair; sizes read as they compare |
| `MacRegistry` | disk2 and disk10; three media (partitions numbered against their offsets; one that answers little or nonsense; an APFS container), 3 steps of the registry | types; stable disks exact; no mixing; order; references balanced; implements the strict `Enumeration` |

**Bounds.** Three steps of the kernel are enough for the interesting cases of
one call: a disk that leaves and another that takes its name needs two, and a
third falls on another disk or table in between. A fourth in `Acquisition`
covers a replacement and a mount after it. In `WindowsHotplug` two are: a drive
is found by its number alone, so another drive needs no number of its own to
take the place of one that left. `MaxChanges` counts from one call to the next;
the models run any number of calls. While directories cannot be read a call can
only fail, and one step of the kernel is enough (`MaxBlind`). Tables have up to
two partitions, which is what order and torn reads need. In `MacRegistry` three
steps take a disk away, publish another under its name and give it a partition.
The parser sees at most three slots: its loop does the same in each. A palette
of 3 colours wraps with four partitions as 8 do with nine, and a unit of ten
bytes rounds as one of a thousand does. `U32` is 65536 so that a sector size
that is a multiple of it fits in TLC's integers, and the physical sector size of
the device-mapper disk is one; the code's 2^32 behaves alike. That a call ends
is checked for kernels that take up to `MaxChanges` steps during it.

**Fairness.** `WF(Walk)` and `WF(Probe)` say that the calling thread runs: the
code has no waiting, lock or retry in it. Nothing is assumed of the kernel, of
plug and play or of other programs, and the parser's fairness is that of a loop.
`MacRegistry` and `Acquisition` check safety only and assume no fairness.

**Violations.** The six runs that find a counterexample compare the code with a
sentence of the repository:

* `core/src/linux.rs:35` — one disk unplugged after `/sys/block` yielded its
  name and before its own directory is opened fails the listing of all
  (`core/src/lib.rs:154-159` promises otherwise).
* `core/src/linux.rs:66` — one mount point that is not UTF-8 hides every mount.
* `core/src/sysfs.rs:52` — `split_whitespace` cuts a mount point at white space
  that the kernel does not escape, so another path is reported
  (`core/src/lib.rs:130`).
* `core/src/windows.rs:112` — a drive without a readable layout is dropped,
  although its size is known.
* `core/src/windows.rs:142` — write protection is never asked for, so a
  write-blocked target gets `LIVE-WRITABLE`
  (`docs/decisions/0007-context-aware-live-writable.md:41`).

and `forensic/src/lib.rs:56` with `core/src/sysfs.rs:64-69`: a filesystem on
the whole disk, or mounted under another name, is no evidence of
`LIVE-MOUNTED` (`README.md:66`).

## 4. What is proved

Every safety property the passing runs check is also a theorem, for every value
of the constants that their modules' assumptions allow, and so are both
refinements of `Enumeration`. The runs show them on the instances of section 3
and, more to the point, show that the hard cases of each do happen. The
invariants the proofs rest on (`ExactInv`, `AcqInv`, `LayoutInv`, `ProbeInv`,
`MacInv`, `SourceInv`, and `TypeInv`, `SlotsInv`, `BarInv`, `SlicesInv` of the
listing) are not among the runs' properties, but TLC finds them true on the
runs' instances too.

No theorem is about one bound: the number of disks, drives, partitions, slots,
mounts and steps of the operating system, the length of a path, a name or a
buffer, the files, the widths, the palette and the units are arbitrary.

### Sorting, filtering, counting up

`StableSortProofs` - for every finite sequence and integer key: ranks are a
bijection onto the positions (`RankBijective`), so the sort is a permutation of
its input in ascending order (`SortedByPermutes`) of elements of the same type
(`SortedByType`). The argument is by cardinality: the elements no later than
`i` are a proper subset of those no later than a later `j`. `PickedAre` says the
same of a filter: the elements that pass, each once, in their order.

Several definitions recurse along a sequence: the two sides of a mount point's
text, the sum of a bar's widths, the powers of a unit. The library's induction
theorems cannot be used for them, since they take an operator as parameter, so
what is needed is proved for sets instead: a set of numbers that is closed
upwards or downwards from its first element contains all up to its last
(`UpwardInduction`, `DownwardInduction`, `FromZero`). They follow from
`FirstPosition`: of the positions that are not in the set there would be a first
one. Where a recursive function must first be shown to exist, it is built up
position by position in the same way (`WritesExists`, `DecodesExists`,
`AddsExists`, `PowersExist`).

### Linux

`LinuxWalkProofs` - `TypeCorrect`: `TypeOK` is not inductive by itself, since
the parts of a disk are only well typed while a disk is at hand. `TypeInv` adds
`Place`, which ties `cur`, `part` and the lengths to `pc`.

| theorem | what it says |
|---|---|
| `ListsNoPhantoms` | each name, size and flag of a list was behind that name during the call, each partition's number, start and size in a table it had; nothing is listed twice |
| `ListsInOrder` | disks by name, partitions by offset |
| `SectorSizesAlwaysUsable` | no listed sector size is zero |
| `FailuresExplained` | a failed call has a reason |
| `LinuxImplementsPromise` | `Spec => ImplementsPromise`: the backend implements the tolerant `Enumeration` |
| `ListsStableDisksExactly` | a disk that held still is listed as its files say, with exactly its partitions |

None of these is inductive: each speaks of the moment a call returns, and what is
returned was gathered many steps before, from a kernel that has moved on.
`WalkInv` carries it through the call. `Gathered`: every name the directory
stream yielded is still there or has moved, `raw` and `cur` hold exactly those
of them that are no RAM disks, each once, and when the loop is over every disk
that held still is among them. `GatheredParts`: the same for the partitions
of the disk at hand. `Reasons`: at `mounts` the registry could be read, and a
stream is dead only if its disk has moved. `Delivered`: what was returned, in
words that stay true when the kernel moves later. A step of the kernel is dealt
with once for all properties by `KernelMoves` (names only join `moved`, and
attachment changes only for names that join), the last step by `BuildWell`, which
says what `sysfs::build` makes of raw disks with distinct names and numbers. In
the refinement, plugging a disk is the promise's `Move`, a call `Begin`,
`ReadMounts` is `Succeed`, an error `Fail`; all else stutters, as does the
plugging of RAM disks.

Exactness needs `ExactInv`: for each local, what it must be as long as its disk
holds still. `FoundTrue`: the stream of the directory at hand yields exactly the
children there are, and each one it has yielded was pushed or is the one at
hand. `AttributesTrue` and `RawTrue` tell two ways of not holding still apart: a
table that is reread leaves the attributes true. `NamedOnce` is why a disk that
did not move is not changed by one that did.

What is not still may be listed torn, and `ListsNoPhantoms` says how torn. Its
invariant, `SourceInv`, adds to `ExactInv` that the history forgets nothing
(`Remembered`: what is behind a name now is in `held`, and a name that moved had
something behind it) and that each number read so far, at hand, in `raw` or in
the list, has a source in it (`Sourced`): a medium whose file held it or a table
whose extent did. A step of the kernel only adds to `held`, so a source is never
lost; `ReadsSourced` says that each read finds one.

`AcquisitionProofs` - three results, each on the one before. *The text of a
mount point*: for paths of any length, what `parse_mounts` and `decode_octal`
make of what the kernel wrote is the path again (`PointReadBack`), provided the
path has no white space but what the kernel escapes; the proviso is the one of
the finding at `core/src/sysfs.rs:52`. Both recursions are followed position by
position, and the position in the text is tied to the one in the path by the
length of what the rest was written as. *The mounts of a list*
(`MountsReportedExactly`): `MountInv` says that a listed partition nobody has
mounted or unmounted has the mount point read of the first of its lines, which
other mounts, before or after it in the file, do not change (`MountsTrue`); that
a mount point in a list is of a device that still has a line, unless it was
mounted or unmounted since, whether `/proc/mounts` can be read or not
(`MountsSeen`); and that nothing is mounted on a partition that is not there. A
partition that is itself mounted or unmounted during the call may be reported
either way, and a `/proc/mounts` that cannot be read makes all of them
unmounted: `MountsExact` says nothing of these two cases, `FindingsHold` that
they make no mount up. *The disk that was chosen*: `UseImplementsWalk` says that
a user, a call and the kernel together are a behaviour of `LinuxWalk`, so all
its theorems hold of the composition. `AcqInv` joins them with `TargetListed`
(the disk at hand is of the list, and was triaged as listed) and `HandleTrue`
(the handle is on the medium that had the name when it was opened, what the seek
said is its size, and the position is zero at the end). From it follow
`HandlesAreFresh`, `OpensWhatWasListed` and `FindingsAreTrue`. The last says
that, as long as the disk held still, `LIVE-WRITABLE`, `LIVE-REMOVABLE`,
`LIVE-SYNTHESIZED` and, for sector sizes the kernel gives, `LIVE-SECTOR-4KN` are
reported if and only if its files call for them; that each partition that stayed
mounted under its kernel name is evidence of `LIVE-MOUNTED`; and that what is
evidence is mounted so or was mounted or unmounted since the list was begun. The
disk that was replaced is not in its reach: of it only `HandlesAreFresh` speaks,
the size that comes with the handle. `FindingsAreTrue` rests on lemmas that take
`analyse`'s report apart by code (`CodesJoin`, `CodeWhen`, `FindingsOf`).

The Linux proofs assume what `LinuxWalk` and `Acquisition` assume of their
constants: names are numbers and finitely many, `Virtual` and `Mapped` are among
them, the files of a medium are numbers or missing, mount points are absolute
paths, and `U32` is positive.

### Windows

`LayoutBufferProofs` says what a buffer reports: one record for each slot that
has to be (`Records` by `PickedAre`), and of a name the text without the blanks
around it.

`DriveLayoutProofs` - for every buffer, every count it claims and every word of
at least 1024 values that is more than twice the buffer's length (on 64-bit
machines: any buffer): types (`ParserTypes`), the slices taken lie in the buffer
(`ParserStaysInBuffer`), no addition or multiplication wraps
(`ParserNeverOverflows`), work and result are bounded by the buffer
(`ParserIsBounded`), and exactly the used slots are returned, in table order
(`ParserReportsAll`). The invariant `LayoutInv` adds to these that every slot
reached starts in the buffer (`Reached`; this is what keeps the arithmetic far
below a word) and that what was parsed is what had to be reported of the
slots before the loop index (`Parsed`).

`WindowsProbeProofs` - `ProbeInv` gives six theorems: `WindowsTypes`,
`ClosesHandles`, `ListsStableDrivesExactly`, `RefusesLoudly`, `ExplainsErrors`,
`ListsDrivesInOrder`. `DriveHeld` follows the one handle: exactly the drive of
the loop's number is held between open and close, and while that drive is not
disturbed the handle is live. `AnswersTrue`: what was asked of it so far is its
own. `Gathered`: of the numbers behind the loop, those that held still are in
the list exactly if they could be read, with what they say. `Refusals`:
`access_denied` was set by a drive that was there, of a number that is probed,
and is set if one was. The last three requests are needed in one piece: it is
`LayoutRead` that says a layout shorter than the buffer is read as itself, zeros
behind it or not.

### macOS

`MacRegistryProofs` - `MacInv` gives `MacTypes`, `BalancesReferences`,
`NeverMixes`, `ListsInDiskOrder`, `ListsStableDisksExactly` and
`MacImplementsPromise`, the strict promise: what is listed was attached during
the call, and what was attached throughout is listed. The invariant is about the
snapshot, the objects a call has read, is reading or may still read. It has one
device per name (`OneDevice`), which is why no disk gets the partition of
another although the registry moves on; it agrees with the registry on every
disk that held still (`Agrees`); and nothing is in it twice (`ReadOnce`). A
still disk's partitions are compared by number, offset and size (`SliceSays`).
That a name in the registry has one device, and a partition its whole disk, is
`RegistryWell`, kept by every change to it.

### The listing

`DiskListingProofs` proves the eight properties of the listing and its types.

*Arithmetic.* TLAPS knows little about `\div` and `%`: that quotient and
remainder are unique (`DivisionUnique`) and grow with the number
(`DivisionMonotone`) is proved from one fact about each, and all proofs about
bars and sizes cite these. Sums are handled by `TotalSums` (a sum is the last
of a sequence of partial sums), and from there: a sum of sums, of multiples, of
marks (which counts), of a sequence with one place changed.

*Place* (`TypeInv`): a bar is being made only for a disk that has one, and
`phys_idx` counts the disks before it that are not synthesized. This is what
`AccentIsOverviews` needs: the two loops of `lib.rs` count over different
subsets, and the number of a disk among the physical ones is its line in the
overview (`PickedAre`).

*Colours* (`SlotsInv`, for `ColoursSpent` and `AccentIsOverviews`): as long as
the palette has not been gone through once, the partition whose turn is `c` has
the `c`-th colour that is not the accent, and `next` is the colour whose turn it
is. After that only the accent is kept free (`NotTheAccent`).

*Widths* (`BarInv`, for `BarFilled`, `EverySliceSeen` and `LendingFair`): before
any column is lent, `Allocated` adds up to the width, because what the shares
leave is at most the number of remainders that are not zero (`Favoured` picks
just so many, by rank). Lending keeps the sum, and it keeps every slice at most
one column behind any lighter one, since a column is taken from the widest. That
there is somebody to lend (`LenderExists`) is a count: were every seen slice one
column wide, the sum would be less than the width, which has room for all.

*Slices* (`SlicesInv`, for `GapsAreFree`, which has no condition on where
partitions lie): `Covering` says that the cursor is the furthest end of a
partition so far, that the bytes below it which no partition so far covers lie
before the start of the next one, so that later partitions cannot cover them,
and that the free slices add up to just those bytes. Free space is counted as a
set, so overlapping and nested partitions need no case of their own. Without
overlaps, the slices so far also add up to the cursor. In the end the cursor is
the disk's size or the end of the partition that overruns it the furthest,
`BarEnd`.

*Sizes* (`SizesLegible`): the unit is the largest one reached (`UnitIs`); within
one unit rounding to tenths is monotone, whichever way halves go
(`ReadsMonotone`), and across units a number of the smaller one is at most `10 *
Kilo` tenths of it, which is ten tenths of the larger one at most (`TwoSizes`).

The listing's proofs assume a palette of at least two colours, at least one unit
and a factor of at least two.

## 5. What is only model-checked, and what is left out

Only model-checked: liveness (that every call ends and that the parser answers),
which is out of the prover's reach, and the six violations, which are
counterexamples.

Not modelled: `render_disks` and `partition_info`, which put the fields of a
record into columns and have no state, and the percentages and legends of the
bars; the fuzz targets, which only call the parsers modelled here; packaging and
CI; and what a seek to the end of a raw device answers on macOS and Windows, which
is the platform's (`Acquisition` models the Linux answer). A GUID's digits are
formatting.

## 6. Plan

1. `Acquisition` over the Windows and macOS backends: there no mount point is
   ever filled in, which the triage relies on, and on Windows the write
   protection is never asked for.
2. A form of `Enumeration` for Windows, which fails for refusals the promise does
   not know of and leaves out drives without a layout.
3. The two forms of `Enumeration` against each other: a strict behaviour is a
   tolerant one.
