---------------------------- MODULE MCFat32Loops ----------------------------
(* The driver's loops with counters of two bits on a FAT of eight entries, *)
(* so that a file may need one cluster more than the counters have values. *)
EXTENDS Fat32Loops

Reserved == [c \in 0 .. 2 |-> IF c = 0 THEN -2 ELSE -1]

Completed(f) == [c \in Clusters |-> IF c < 3 THEN Reserved[c] ELSE IF c \in DOMAIN f THEN f[c] ELSE EMPTY]

MCSearchedMaps == {Completed(f) : f \in [3 .. 7 -> {EMPTY, END_OF_FILE}]}

(* Every FAT with links among three clusters, also with another entry for  *)
(* the boot cluster, and one that was zeroed.                              *)
MCWalkedMaps ==
    {[Completed(f) EXCEPT ![BOOT_SECTOR] = b] :
        f \in [3 .. 5 -> {EMPTY, END_OF_FILE, 3, 4, 5}],
        b \in {Driver!CLUSTER_0_VALUE, END_OF_FILE, 4}} \cup {Driver!NoMap}

=============================================================================
