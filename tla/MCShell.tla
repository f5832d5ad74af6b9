------------------------------- MODULE MCShell -------------------------------
(* The shell with two names besides the root's, on a small disk.           *)
EXTENDS Shell

CONSTANTS a, d, root, noName, noExt, p1, p2, table, txt

MCSize == [y \in Payloads |-> 1]

MCTyped == {<<a, noExt>>, <<d, noExt>>, <<a, txt>>}

(* Bound: the inserter puts two entries on the disk, and none on a disk    *)
(* that has two.                                                           *)
TwoInserted == /\ pc = "inserter" => Cardinality(Listings) <= 1
               /\ pc = "inserted" => Cardinality(Listings) <= 2

=============================================================================
