---------------------------- MODULE MCAcquisition ----------------------------
(***************************************************************************)
(* The acquisition of sda, which one medium can replace by another.        *)
(***************************************************************************)
EXTENDS Acquisition, TLC

CONSTANTS ThumbDrive, FixedDrive

MCNames == {3}
MCMedia == {ThumbDrive, FixedDrive}
MCBay == 3 :> MCMedia
Files(size, removable, ro, logical, physical, model) ==
  [size |-> size, removable |-> removable, ro |-> ro, logical |-> logical,
   physical |-> physical, model |-> model]
MCGeometry == (ThumbDrive :> Files(20, 1, 0, 512, 512, 7)) @@
              (FixedDrive :> Files(90, 0, 1, 512, 4096, 7))
MCLayouts == (ThumbDrive :> {1 :> [start |-> 1, size |-> 9], <<>>}) @@
             (FixedDrive :> {(1 :> [start |-> 50, size |-> 30]) @@ (2 :> [start |-> 1, size |-> 49])})

\* Places to mount at: with a blank, which is escaped; with a backslash and
\* digits, which look like an escape.
OnePoint == {<<Slash, 97>>}
MCPoints == {<<Slash, 32, 98>>, <<Slash, Backslash, 48, 52, 48>>}
=============================================================================
