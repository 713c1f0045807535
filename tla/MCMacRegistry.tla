---------------------------- MODULE MCMacRegistry ----------------------------
(***************************************************************************)
(* disk2 and disk10, and three media: an SSD whose partitions are numbered *)
(* against their order, a stick that answers little, an APFS container.    *)
(***************************************************************************)
EXTENDS MacRegistryProps, TLC

CONSTANTS Ssd, Stick, Container

MCMedia == {Ssd, Stick, Container}
F(size, block, removable, writable, apfs) ==
  [size |-> size, block |-> block, removable |-> removable, writable |-> writable, apfs |-> apfs]
MCFacts == (Ssd :> F(900, 4096, FALSE, FALSE, FALSE))
           @@ (Stick :> F(-1, 0, TRUE, Missing, FALSE))
           @@ (Container :> F(800, Missing, Missing, TRUE, TRUE))
MCSlices == (Ssd :> (1 :> [base |-> 500, size |-> 400] @@ 2 :> [base |-> 20, size |-> 400]))
            @@ (Stick :> (1 :> [base |-> Missing, size |-> -1]))
            @@ (Container :> <<>>)
=============================================================================
