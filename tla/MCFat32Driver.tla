--------------------------- MODULE MCFat32Driver ---------------------------
(* Small instances of the FAT32 driver for TLC.                            *)
EXTENDS Fat32Driver, TLC

CONSTANTS a, root, noName, noExt, p1, p2

MCSize == (p1 :> 1) @@ (p2 :> 2)
=============================================================================
