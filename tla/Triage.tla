------------------------------- MODULE Triage -------------------------------
(***************************************************************************)
(* `analyse` and `analyse_target` (forensic/src/lib.rs): what bears on a   *)
(* sound acquisition of a disk, as far as its record says.  A finding is   *)
(* its code and its evidence; severities and notes are fixed by the code.  *)
(***************************************************************************)
EXTENDS Integers, Sequences, FiniteSets

CONSTANT NoMount     \* a partition's mount when it is not mounted

Finding(code, evidence) == <<[code |-> code, evidence |-> evidence]>>
When(condition, finding) == IF condition THEN finding ELSE <<>>

MountedParts(d) == {i \in DOMAIN d.partitions : d.partitions[i].mount # NoMount}

\* The evidence names every mounted partition and its mount point.
MountEvidence(d) == {<<d.partitions[i].dev, d.partitions[i].mount>> : i \in MountedParts(d)}

analyse(d) ==
  When(MountedParts(d) # {}, Finding("LIVE-MOUNTED", MountEvidence(d)))
  \o When(d.removable, Finding("LIVE-REMOVABLE", {}))
  \o When(d.logical > 0 /\ d.physical # d.logical,
          Finding("LIVE-SECTOR-4KN", {d.logical, d.physical}))
  \o When(d.synthesized, Finding("LIVE-SYNTHESIZED", {}))

\* Mutant of analyse_target: the flag is taken the wrong way round.
TargetInverted(d) == analyse(d) \o When(d.read_only, Finding("LIVE-WRITABLE", {}))

analyse_target(d) == analyse(d) \o When(~d.read_only, Finding("LIVE-WRITABLE", {}))

Codes(fs) == {fs[i].code : i \in DOMAIN fs}
=============================================================================
