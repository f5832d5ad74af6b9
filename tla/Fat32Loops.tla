------------------------------ MODULE Fat32Loops ------------------------------
(***************************************************************************)
(* The loops over the FAT inside read, write and delete                    *)
(* (filesystem/fat32.c), one action per iteration, with the widths of      *)
(* their counters.  Fat32Driver describes what each of them does in one    *)
(* step; here that description is compared with the loops.                 *)
(*                                                                         *)
(* A behaviour is one call, from the point where its directory entry or    *)
(* its number of clusters is known to the point before the tables are      *)
(* saved.                                                                  *)
(***************************************************************************)
EXTENDS Integers, Sequences, FiniteSets

CONSTANTS
    ClusterCount,  \* CLUSTER_MAP_SIZE
    CounterSize,   \* values of a uint8_t (256 in the code)
    MaxNeeded,     \* bound: the most clusters a file may need
    StackGarbage,  \* cluster numbers an element of an unassigned array may hold
    SearchedMaps,  \* the FATs write is tried on
    WalkedMaps     \* the FATs read and delete are tried on

VARIABLES
    op,        \* "read", "write" or "delete"
    pc,        \* "search", "link" (write's loops), "walk" (read's, delete's),
               \*   "done", or "outside": an index beyond cluster_map was used
    fat0,      \* the FAT before the call
    map,       \* driver_state.fat_table.cluster_map
    blocks,    \* what the call wrote: 0 zeroes, k > 0 the buffer's k-th block
    copied,    \* the clusters read has copied to its caller, in order
    n_clusters, list, found, i,  \* write's variables; list is cluster_number_list
    start, temp                  \* the entry's cluster; the cluster to visit next

vars == <<op, pc, fat0, map, blocks, copied, n_clusters, list, found, i, start, temp>>

Driver == INSTANCE Fat32Driver WITH
    SlotCount <- 2, Names <- {"root"}, NoName <- "", RootName <- "root", RootLike <- {"root"},
    Exts <- {}, NoExt <- "", Payloads <- {}, MaxSize <- 1, Size <- <<>>, Sparse <- {},
    Tolerated <- {}, disk <- [c \in 0 .. ClusterCount - 1 |-> [kind |-> "blank"]],
    fat <- fat0, status <- "on", ret <- 0, mishaps <- {}

Clusters    == Driver!Clusters
EMPTY       == Driver!EMPTY
END_OF_FILE == Driver!END_OF_FILE
BOOT_SECTOR == Driver!BOOT_SECTOR

NotWritten == -1

ASSUME ClusterCountAssumption == ClusterCount \in Nat /\ ClusterCount > 3
ASSUME CounterAssumption == CounterSize \in Nat \ {0} /\ MaxNeeded \in Nat \ {0}
ASSUME GarbageAssumption == StackGarbage \subseteq Clusters
ASSUME MapsAssumption    == SearchedMaps \cup WalkedMaps \subseteq Driver!Maps

TypeOK ==
    /\ op \in {"read", "write", "delete"}
    /\ pc \in {"search", "link", "walk", "done", "outside"}
    /\ fat0 \in Driver!Maps /\ map \in Driver!Maps
    /\ blocks \in [Clusters -> NotWritten .. MaxNeeded]
    /\ copied \in Seq(Clusters)
    /\ n_clusters \in 1 .. MaxNeeded
    /\ list \in [0 .. n_clusters - 1 -> Clusters]
    /\ found \in 0 .. CounterSize - 1 /\ i \in Nat
    /\ start \in Clusters /\ temp \in Driver!FatValues

Init ==
    /\ \/ /\ op = "write" /\ pc = "search"
          /\ fat0 \in SearchedMaps
          /\ n_clusters \in 1 .. MaxNeeded
          /\ list \in [0 .. n_clusters - 1 -> StackGarbage]
          /\ start = BOOT_SECTOR
       \/ /\ op \in {"read", "delete"} /\ pc = "walk"
          /\ fat0 \in WalkedMaps
          /\ start \in Clusters
          /\ n_clusters = 1 /\ list = [k \in {0} |-> BOOT_SECTOR]
    /\ map = fat0
    /\ blocks = [c \in Clusters |-> NotWritten]
    /\ copied = <<>>
    /\ found = 0 /\ i = 3
    /\ temp = start

-----------------------------------------------------------------------------
(* write: the search for free clusters, then the links and the data.       *)

(* Wrong variants of a definition, named Bug..., stand in front of it; they *)
(* show that the properties notice the mistake.                            *)
BugKeepsLooking(count) == FALSE
FoundAll(count) == count = n_clusters

(* found has 8 bits and n_clusters 16.                                     *)
SearchTakes ==
    /\ pc = "search" /\ i < ClusterCount /\ map[i] = EMPTY
    /\ list' = [list EXCEPT ![found] = i]
    /\ found' = (found + 1) % CounterSize
    /\ IF FoundAll(found') THEN pc' = "link" /\ i' = 0 ELSE pc' = pc /\ i' = i + 1
    /\ UNCHANGED <<op, fat0, map, blocks, copied, n_clusters, start, temp>>

SearchPasses ==
    /\ pc = "search" /\ i < ClusterCount /\ map[i] # EMPTY
    /\ i' = i + 1
    /\ UNCHANGED <<op, pc, fat0, map, blocks, copied, n_clusters, list, found, start, temp>>

SearchEnds ==
    /\ pc = "search" /\ i = ClusterCount
    /\ pc' = "link" /\ i' = 0
    /\ UNCHANGED <<op, fat0, map, blocks, copied, n_clusters, list, found, start, temp>>

BugNextCluster(k) == list[k] + 1
Successor(k)      == list[k + 1]

(* i has 8 bits in this loop.                                              *)
Link ==
    /\ pc = "link" /\ i < n_clusters - 1
    /\ map' = [map EXCEPT ![list[i]] = Successor(i)]
    /\ blocks' = [blocks EXCEPT ![list[i]] = i + 1]
    /\ i' = (i + 1) % CounterSize
    /\ UNCHANGED <<op, pc, fat0, copied, n_clusters, list, found, start, temp>>

Terminate ==
    /\ pc = "link" /\ i >= n_clusters - 1
    /\ map' = [map EXCEPT ![list[n_clusters - 1]] = END_OF_FILE]
    /\ blocks' = [blocks EXCEPT ![list[n_clusters - 1]] = n_clusters]
    /\ pc' = "done"
    /\ UNCHANGED <<op, fat0, copied, n_clusters, list, found, i, start, temp>>

-----------------------------------------------------------------------------
(* read and delete: the walk along the chain.                              *)

BugLinkIsEnd(c) == c \notin Clusters \/ map[c] = END_OF_FILE
IsOver(c)       == c \notin Clusters

BugEmptiedFirst(c) == EMPTY
LinkOf(c)          == map[c]

(* Bound: read copies a circle without end.                                *)
CopyBound == ClusterCount + 1

ReadStep ==
    /\ op = "read" /\ pc = "walk" /\ ~IsOver(temp)
    /\ Len(copied) < CopyBound
    /\ copied' = Append(copied, temp)
    /\ temp' = LinkOf(temp)
    /\ UNCHANGED <<op, pc, fat0, map, blocks, n_clusters, list, found, i, start>>

(* The link is read before the entry is emptied.                           *)
DeleteStep ==
    /\ op = "delete" /\ pc = "walk" /\ ~IsOver(temp)
    /\ temp' = LinkOf(temp)
    /\ blocks' = [blocks EXCEPT ![temp] = 0]
    /\ map' = [map EXCEPT ![temp] = EMPTY]
    /\ UNCHANGED <<op, pc, fat0, copied, n_clusters, list, found, i, start>>

WalkEnds ==
    /\ pc = "walk" /\ IsOver(temp)
    /\ pc' = IF temp = Driver!CLUSTER_0_VALUE THEN "outside" ELSE "done"
    /\ UNCHANGED <<op, fat0, map, blocks, copied, n_clusters, list, found, i, start, temp>>

Next ==
    \/ SearchTakes \/ SearchPasses \/ SearchEnds
    \/ Link \/ Terminate
    \/ ReadStep \/ DeleteStep \/ WalkEnds

Spec     == Init /\ [][Next]_vars
FairSpec == Spec /\ WF_vars(Next)

-----------------------------------------------------------------------------
(* Properties.                                                             *)

ListFrom1 == [k \in 1 .. n_clusters |-> list[k - 1]]

(* What Fat32Driver says of write in one step is what its loops compute,   *)
(* for every file of fewer clusters than the counters have values.         *)
WriteAsDescribed ==
    op = "write" /\ pc = "done" /\ n_clusters < CounterSize =>
        /\ \E m \in 0 .. n_clusters : Driver!FirstFit(ListFrom1, m, n_clusters)
        /\ map = Driver!Linked(fat0, ListFrom1, n_clusters)
        /\ blocks = [c \in Clusters |-> IF c \in Driver!Listed(ListFrom1)
                                          THEN Driver!LastAt(ListFrom1, c) ELSE NotWritten]

(* A file of as many clusters as the counters have values is stored in     *)
(* order too, in clusters that were free, though the search runs over all  *)
(* the FAT; and no other cluster is written or loses its link.             *)
StoredInOrder ==
    op = "write" /\ pc = "done" /\ n_clusters <= Cardinality(Driver!Free(fat0)) =>
        /\ Driver!Walk(map, list[0], n_clusters) = ListFrom1
        /\ \A k \in 1 .. n_clusters : ListFrom1[k] \in Driver!Free(fat0) /\ blocks[ListFrom1[k]] = k
        /\ map[list[n_clusters - 1]] = END_OF_FILE
        /\ \A c \in Clusters \ Driver!Listed(ListFrom1) : map[c] = fat0[c] /\ blocks[c] = NotWritten

(* What Fat32Driver says of delete's walk: it zeroes and frees the chain   *)
(* and, after a circle, what it comes to from the boot cluster; it returns *)
(* if and only if that ends.                                               *)
Zeroed == {c \in Clusters : blocks[c] = 0}

DeleteAsDescribed ==
    op = "delete" /\ pc \in {"done", "outside"} =>
        /\ Driver!EraseEnds(fat0, start) <=> pc = "done"
        /\ Zeroed = Driver!Erased(fat0, start)
        /\ map = Driver!Freed(fat0, Zeroed)

(* What Fat32Driver says of read: it copies the chain's clusters once each *)
(* in the order of the links, and returns if and only if the chain ends.   *)
ReadAsDescribed ==
    op = "read" /\ pc \in {"done", "outside"} =>
        /\ Driver!Ends(fat0, start) <=> pc = "done"
        /\ copied = Driver!Walk(fat0, start, Len(copied))
        /\ {copied[k] : k \in DOMAIN copied} = Driver!Chain(fat0, start)
        /\ \A j, k \in DOMAIN copied : copied[j] = copied[k] => j = k

(* The walk of a chain that ends is over; so is write, unless the file     *)
(* needs more clusters than its 8-bit counters have values: then it links  *)
(* for ever.                                                               *)
CallsEnd ==
    (pc = "walk" /\ Driver!Ends(fat0, start)) \/ (pc = "search" /\ n_clusters <= CounterSize)
        ~> pc = "done"

=============================================================================
