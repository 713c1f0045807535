---------------------------- MODULE MCDriveLayout ----------------------------
(***************************************************************************)
(* Buffers of up to three slots that end before, on and after each         *)
(* boundary, with counts that are too low, exact, too high and far beyond  *)
(* what a word can index.                                                  *)
(***************************************************************************)
EXTENDS DriveLayout

E(start, length, type, name) ==
  [start |-> start, length |-> length, number |-> 1, type |-> type, name |-> name]
Named == <<Blank, 65, Blank, 66, Blank, Nul, 67>>
Unnamed == <<Blank, Nul, 68, Nul>>
MCEntries == {E(7, 5, 7, Named), E(-2, 5, 9, Unnamed), E(3, 0, 7, <<65>>), E(3, -1, 7, <<65>>),
              E(2, 4, 0, <<66>>)}
MCLens == {0, 7, 8, 191, 192, 335, 336, 337, 480}
MCCounts == {0, 1, 2, 3, 2000}
MCBuffers ==
  {[len |-> l, style |-> s, count |-> c,
    slot |-> [j \in 0 .. 6 |-> CASE j = 0 -> e [] j = 1 -> f [] OTHER -> E(1, 5, 7, Named)]] :
     l \in MCLens, s \in 0 .. 2, c \in MCCounts, e \in MCEntries, f \in MCEntries}
=============================================================================
