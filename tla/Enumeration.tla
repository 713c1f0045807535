----------------------------- MODULE Enumeration -----------------------------
(***************************************************************************)
(* What `livedisk::enumerate()` promises on every platform                 *)
(* (core/src/lib.rs:27-30 and 152-159), with the backend abstracted away.  *)
(* Disks come and go while a call runs.  A call that succeeds lists every  *)
(* disk that was there for the whole call, and nothing that was never      *)
(* there; a call may fail only when the OS's registry cannot be read.      *)
(*                                                                         *)
(* The promise has a strict and a tolerant form.  The strict one is the    *)
(* doc comment's.  The tolerant one also lets a call fail when some disk   *)
(* came or went while it ran; the platform modules say which they meet.    *)
(***************************************************************************)
EXTENDS FiniteSets

CONSTANTS Targets,    \* the names a listing can contain
          Tolerant    \* TRUE: a call may fail when a disk came or went

VARIABLES present,    \* the disks that are there now
          readable,   \* the registry can be read
          moved,      \* the disks that came or went since the call began
          status,     \* "none" before the first call, "running", "ok", "err"
          listed      \* the disks the last call listed

vars == <<present, readable, moved, status, listed>>

Init == /\ present \in SUBSET Targets
        /\ readable \in BOOLEAN
        /\ moved = {}
        /\ status = "none"
        /\ listed = {}

\* A disk is plugged in or unplugged, at any time.
Move == \E n \in Targets :
          /\ present' = IF n \in present THEN present \ {n} ELSE present \cup {n}
          /\ moved' = moved \cup {n}
          /\ UNCHANGED <<readable, status, listed>>

Begin == /\ status # "running"
         /\ status' = "running"
         /\ moved' = {}
         /\ listed' = {}
         /\ UNCHANGED <<present, readable>>

\* A complete, honest listing.
Succeed == /\ status = "running"
           /\ readable
           /\ status' = "ok"
           /\ \E L \in SUBSET (present \cup moved) :
                /\ present \ moved \subseteq L
                /\ listed' = L
           /\ UNCHANGED <<present, readable, moved>>

\* A failure the caller can be told the reason of.
Fail == /\ status = "running"
        /\ ~readable \/ (Tolerant /\ moved # {})
        /\ status' = "err"
        /\ UNCHANGED <<present, readable, moved, listed>>

Next == Move \/ Begin \/ Succeed \/ Fail

Spec == Init /\ [][Next]_vars
=============================================================================
