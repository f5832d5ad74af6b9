-------------------------- MODULE MCFat32PowerCut --------------------------
(* Small instances of the driver on a disk that may lose its power.        *)
EXTENDS Fat32PowerCut, TLC

CONSTANTS a, root, noName, noExt, p1, p2

MCSize == (p1 :> 1) @@ (p2 :> 2)

(* After a cut that can leave an entry without clusters, only disks that   *)
(* list a single entry are followed.                                       *)
Followed == cut \subseteq {"deleteFile", "format"} \/ Cardinality(Listings) <= 1

=============================================================================
