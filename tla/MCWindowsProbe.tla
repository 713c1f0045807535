--------------------------- MODULE MCWindowsProbe ---------------------------
(***************************************************************************)
(* Drive numbers whose names sort as 0, 2, 1 (as 1, 10, 2 do), one of them *)
(* beyond the last that is probed, and                                     *)
(* three drives: a system disk whose table is out of order and just fits   *)
(* in the buffer, a write-blocked one that gives no geometry, and one      *)
(* whose table is one entry too long for the buffer.  NoLayout is a drive  *)
(* that gives none.                                                        *)
(***************************************************************************)
EXTENDS WindowsProbeProps, TLC

CONSTANTS SystemDisk, Evidence, Crowded, NoLayout

MCMedia == {SystemDisk, Evidence, Crowded}
BadMedia == {Evidence, NoLayout}
MCByteRank == (0 :> 0) @@ (1 :> 2) @@ (2 :> 1) @@ (3 :> 3)
BadByteRank == (0 :> 0) @@ (1 :> 2) @@ (2 :> 1)
MCLength == (SystemDisk :> 90) @@ (Evidence :> -1) @@ (Crowded :> NoAnswer)
BadLength == (Evidence :> -1) @@ (NoLayout :> 30)
MCSector == (SystemDisk :> 4096) @@ (Evidence :> NoAnswer) @@ (Crowded :> 0)
BadSector == (Evidence :> NoAnswer) @@ (NoLayout :> 512)
E(number, start, length, type, name) ==
  [start |-> start, length |-> length, number |-> number, type |-> type, name |-> name]
Named == <<Blank, 65, Blank, Nul, 67>>
Unnamed == <<Blank, Nul>>
Slots == (0 :> E(1, 40, 9, 5, Named)) @@ (1 :> E(0, 0, 0, 0, Unnamed))
         @@ (2 :> E(2, 1, 30, 6, Unnamed))
EvidenceLayout ==
  [len |-> 336, style |-> STYLE_MBR, count |-> 2,
   slot |-> (0 :> E(1, 1, 7, 12, Named)) @@ (1 :> E(0, 5, 7, 0, Unnamed))]
MCLayout ==
  (SystemDisk :> [len |-> 480, style |-> STYLE_GPT, count |-> 3, slot |-> Slots])
  @@ (Evidence :> EvidenceLayout)
  @@ (Crowded :> [len |-> 624, style |-> STYLE_GPT, count |-> 4,
                  slot |-> Slots @@ (3 :> E(3, 60, 8, 5, Named))])
BadLayout == (Evidence :> EvidenceLayout) @@ (NoLayout :> NoAnswer)
=============================================================================
