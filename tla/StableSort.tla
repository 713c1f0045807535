----------------------------- MODULE StableSort -----------------------------
(***************************************************************************)
(* Rust's stable slice sorts (`sort_by_key`, `sort_by`), which every       *)
(* backend and the bar renderer use to put disks and partitions in order,  *)
(* and `filter`.  The standard library is not in the repository: these     *)
(* operators state what it returns.  An element's place is its rank, the   *)
(* number of elements that do not come after it, and equal keys keep their *)
(* order.  Ranks make the definitions first order, so the proofs can use   *)
(* them.                                                                   *)
(***************************************************************************)
EXTENDS Integers, Sequences, FiniteSets

\* Element i comes no later than element j when sorted stably by key.
NoLater(key, i, j) == key[i] < key[j] \/ (key[i] = key[j] /\ i =< j)

\* The place of element i in the sorted sequence.
Rank(key, i) == Cardinality({j \in DOMAIN key : NoLater(key, j, i)})

\* The element whose place is r.
AtRank(key, r) == CHOOSE i \in DOMAIN key : Rank(key, i) = r

\* s in ascending order of key, a function on the indices of s.
SortedBy(s, key) == [r \in DOMAIN s |-> s[AtRank(key, r)]]

\* The place of position i among the positions P, and the position at place k.
PlaceIn(P, i) == Cardinality({j \in P : j =< i})
Nth(P, k) == CHOOSE i \in P : PlaceIn(P, i) = k

\* The elements of s at the positions P, in their order.
Picked(s, P) == [k \in 1 .. Cardinality(P) |-> s[Nth(P, k)]]
=============================================================================
