----------------------------- MODULE Fat32Driver -----------------------------
(***************************************************************************)
(* The FAT32 driver of the kernel (filesystem/fat32.c), one action per     *)
(* driver call.  A call runs inside a system call with interrupts off, so  *)
(* nothing of the machine can be observed half way through it; what a      *)
(* power cut can make of a half-finished call is the subject of            *)
(* Fat32PowerCut, which extends this module.                               *)
(*                                                                         *)
(* The disk is a function from cluster numbers to what a cluster holds.    *)
(* A file's bytes are a payload, an opaque value with a length in          *)
(* clusters; its k-th cluster on the disk is Data(payload, k).  A directory *)
(* table is a function from slots to entries.  Bytes that are not a        *)
(* directory table are never taken for one: they match no name.            *)
(***************************************************************************)
EXTENDS Integers, FiniteSets

CONSTANTS
    ClusterCount,  \* CLUSTER_MAP_SIZE: clusters the FAT describes (512 in the code)
    SlotCount,     \* entries of a directory table (64 in the code)
    Names,         \* the non-empty 8-byte names requests carry
    NoName,        \* eight zero bytes
    RootName,      \* the name create_fat32 gives the root directory
    RootLike,      \* the names whose first four characters are "root"
    Exts,          \* the extensions requests carry
    NoExt,         \* three zero bytes
    Payloads,      \* the buffers a file can be written from
    MaxSize,       \* the longest buffer, in clusters
    Size,          \* Size[p]: ceil_divide(buffer_size, CLUSTER_SIZE) for buffer p
    Sparse,        \* payloads whose first cluster, read as a table, lists nothing
    StackGarbage,  \* cluster numbers an element of an unassigned array may hold
    Tolerated      \* the mishaps the environment may provoke, see Mishaps

(* What the code does not guard against.  A behaviour records the ones it  *)
(* went through, so that a property can say which of them it survives:     *)
(*   noCluster  write found fewer free clusters than it needs              *)
(*   noSlot     write found no free slot in the parent's table             *)
(*   wrongKind  delete was asked for a folder as a file, or the reverse    *)
(*   noName     write was given an empty name                              *)
(*   emptySlot  read or delete was given an empty name and matched a slot  *)
(*              that holds no entry                                        *)
Mishaps == {"noCluster", "noSlot", "wrongKind", "noName", "emptySlot"}

BOOT_SECTOR         == 0
FAT_CLUSTER_NUMBER  == 1
ROOT_CLUSTER_NUMBER == 2

(* The FAT's special values.  0 is also the number of the boot cluster and *)
(* a chain that runs into an EMPTY entry goes on there.  The other two are *)
(* numbers beyond the map, of which only END_OF_FILE ends a chain.         *)
EMPTY           == 0
END_OF_FILE     == -1
CLUSTER_0_VALUE == -2

AllNames == Names \cup {NoName}
AllExts  == Exts \cup {NoExt}
Clusters == 0 .. ClusterCount - 1
Usable   == 3 .. ClusterCount - 1
Slots    == 0 .. SlotCount - 1
FatValues == Clusters \cup {END_OF_FILE, CLUSTER_0_VALUE}

ASSUME ClusterCountAssumption == ClusterCount \in Nat /\ ClusterCount > 3
ASSUME SlotCountAssumption    == SlotCount \in Nat /\ SlotCount > 1
ASSUME NameAssumption == NoName \notin Names /\ RootName \in Names /\ RootLike \subseteq Names
ASSUME SizeAssumption ==
    /\ MaxSize \in 1 .. 255   \* the counters of write's loops are 8 bits wide
    /\ Size \in [Payloads -> 1 .. MaxSize]
ASSUME SparseAssumption    == Sparse \subseteq Payloads
ASSUME GarbageAssumption   == StackGarbage \subseteq Clusters
ASSUME ToleratedAssumption == Tolerated \subseteq Mishaps

-----------------------------------------------------------------------------
(* Directory entries and what a cluster of the disk can hold.              *)

Entry == [used: BOOLEAN,        \* user_attribute = UATTR_NOT_EMPTY
          name: AllNames,
          ext: AllExts,
          dir: BOOLEAN,         \* attribute = ATTR_SUBDIRECTORY
          cluster: Clusters,
          size: 0 .. MaxSize]       \* filesize, in clusters

EmptyEntry == [used |-> FALSE, name |-> NoName, ext |-> NoExt,
               dir |-> FALSE, cluster |-> 0, size |-> 0]

DirEntry(name, c) == [used |-> TRUE, name |-> name, ext |-> NoExt,
                      dir |-> TRUE, cluster |-> c, size |-> 0]

FileEntry(name, ext, p, c) == [used |-> TRUE, name |-> name, ext |-> ext,
                               dir |-> FALSE, cluster |-> c, size |-> Size[p]]

(* init_directory_table: slot 0 of every table names the table itself.     *)
NewTable(name, c) == [i \in Slots |-> IF i = 0 THEN DirEntry(name, c) ELSE EmptyEntry]
EmptyTable        == [i \in Slots |-> EmptyEntry]

Boot        == [kind |-> "boot"]
Blank       == [kind |-> "blank"]
FatImage(m) == [kind |-> "fat", map |-> m]
Dir(t)      == [kind |-> "dir", table |-> t]
Data(p, k)  == [kind |-> "data", payload |-> p, index |-> k]

Maps    == [Clusters -> FatValues]
Tables  == [Slots -> Entry]
Content == {Boot, Blank} \cup [kind: {"fat"}, map: Maps]
                         \cup [kind: {"dir"}, table: Tables]
                         \cup [kind: {"data"}, payload: Payloads, index: 1 .. MaxSize]

VARIABLES
    disk,     \* what each cluster of the disk holds
    fat,      \* driver_state.fat_table: the FAT cached in memory
    status,   \* "off", "on", or "hung": in a loop or a halted CPU for good
    ret,      \* the code the last driver call returned
    mishaps   \* the mishaps so far (history, read by properties only)

vars == <<disk, fat, status, ret, mishaps>>

NoMap == [c \in Clusters |-> EMPTY]

TypeOK ==
    /\ disk \in [Clusters -> Content]
    /\ fat \in Maps
    /\ status \in {"off", "on", "hung"}
    /\ ret \in {-1, 0, 1, 2, 3}
    /\ mishaps \subseteq Tolerated

Init ==
    /\ disk = [c \in Clusters |-> Blank]
    /\ fat = NoMap
    /\ status = "off"
    /\ ret = 0
    /\ mishaps = {}

Provoke(kinds) == kinds \subseteq Tolerated /\ mishaps' = mishaps \cup kinds
Return(code)   == ret' = code

-----------------------------------------------------------------------------
(* Tables, chains and free clusters.                                       *)

Table(c)       == IF disk[c].kind = "dir" THEN disk[c].table ELSE EmptyTable
IsDirectory(c) == Table(c)[0].dir

(* The scan for the first slot of a set; the index stays 0 without one.    *)
First(S) == IF S = {} THEN 0 ELSE CHOOSE i \in S : \A j \in S : i <= j

Named(t, name)         == {i \in Slots : t[i].name = name}
Matching(t, name, ext) == {i \in Named(t, name) : t[i].ext = ext}
Unused(t)              == {i \in Slots : ~t[i].used}

(* The clusters a walk through map from c visits: those that no set        *)
(* without them, holding c, can be closed under the map.                   *)
Chain(map, c) ==
    {x \in Clusters : \A K \in SUBSET (Clusters \ {x}) :
                         c \in K => \E y \in K : map[y] \in Clusters \ K}

(* Does that walk end?  If not it circles, or leaves the map.              *)
Ends(map, c) == \E x \in Chain(map, c) : map[x] = END_OF_FILE

BugTakesLinked(map) == {c \in Usable : map[c] # END_OF_FILE}
Free(map) == {c \in Usable : map[c] = EMPTY}

(* cluster_number_list after write's search: its first m members are the   *)
(* lowest free clusters in ascending order, all n of them if there are     *)
(* that many; the rest of the array is never assigned, so it holds whatever *)
(* the stack held.                                                         *)
FirstFit(list, m, n) ==
    /\ \A i \in 1 .. m : list[i] \in Free(fat)
    /\ \A i \in m + 1 .. n : list[i] \in StackGarbage
    /\ \A i, j \in 1 .. m : i < j => list[i] < list[j]
    /\ \A c \in Free(fat) : (\A i \in 1 .. m : list[i] # c) => m = n /\ list[m] < c

(* The last place of c in list: a cluster listed twice is assigned twice.  *)
LastAt(list, c) ==
    CHOOSE i \in DOMAIN list : list[i] = c /\ \A j \in DOMAIN list : list[j] = c => j <= i

Listed(list) == {list[i] : i \in DOMAIN list}

(* Wrong variants of a definition, named Bug..., stand in front of it; they *)
(* show that the properties notice the mistake.                            *)
BugUnlinked(map, list, n) ==
    [c \in Clusters |-> IF c \in Listed(list) THEN END_OF_FILE ELSE map[c]]
BugUnterminated(map, list, n) ==
    [c \in Clusters |->
        IF c \notin Listed(list) \/ LastAt(list, c) = n THEN map[c]
        ELSE list[LastAt(list, c) + 1]]
BugShortTerminator(map, list, n) ==
    [c \in Clusters |-> IF c \in Listed(list) THEN 65535 ELSE map[c]]

Linked(map, list, n) ==
    [c \in Clusters |->
        IF c \notin Listed(list) THEN map[c]
        ELSE LET i == LastAt(list, c) IN IF i = n THEN END_OF_FILE ELSE list[i + 1]]

BugNeverChecked(content) == TRUE
BugSkipsFirstSlot(content) ==
    content.kind = "dir" => \A i \in Slots \ {0, 1} : content.table[i].name = NoName

(* Could the cluster be the table of an empty folder?  (first byte of the  *)
(* name, slots 1..).  The boot sector's text is not zero there; in a FAT,  *)
(* it is the low byte of every eighth entry.                               *)
ListsNothing(content) ==
    \/ content.kind = "dir" /\ \A i \in Slots \ {0} : content.table[i].name = NoName
    \/ content.kind = "data" /\ content.payload \in Sparse
    \/ content.kind = "fat" /\ \A c \in Clusters : c > 0 /\ c % 8 = 0 => content.map[c] % 256 = 0
    \/ content.kind = "blank"

-----------------------------------------------------------------------------
(* Power and boot.                                                         *)

PowerOff ==
    /\ status \in {"on", "hung"}
    /\ status' = "off"
    /\ fat' = NoMap
    /\ Return(0)
    /\ UNCHANGED <<disk, mishaps>>

FormattedMap == [c \in Clusters |->
    CASE c = BOOT_SECTOR -> CLUSTER_0_VALUE
      [] c \in {FAT_CLUSTER_NUMBER, ROOT_CLUSTER_NUMBER} -> END_OF_FILE
      [] OTHER -> EMPTY]

(* create_fat32, when the boot sector does not hold the signature.         *)
FormatAtBoot ==
    /\ status = "off"
    /\ disk[BOOT_SECTOR] # Boot
    /\ status' = "on"
    /\ fat' = FormattedMap
    /\ disk' = [disk EXCEPT ![BOOT_SECTOR] = Boot,
                            ![FAT_CLUSTER_NUMBER] = FatImage(FormattedMap),
                            ![ROOT_CLUSTER_NUMBER] = Dir(NewTable(RootName, ROOT_CLUSTER_NUMBER))]
    /\ UNCHANGED <<ret, mishaps>>

(* A FAT cluster whose bytes were zeroed reads as a map of EMPTY entries.  *)
MapOn(d) == IF d[FAT_CLUSTER_NUMBER].kind = "fat" THEN d[FAT_CLUSTER_NUMBER].map ELSE NoMap
SavedMap == MapOn(disk)

LoadAtBoot ==
    /\ status = "off"
    /\ disk[BOOT_SECTOR] = Boot
    /\ status' = "on"
    /\ fat' = SavedMap
    /\ UNCHANGED <<disk, ret, mishaps>>

-----------------------------------------------------------------------------
(* read_directory and read change nothing but the caller's buffer, unless  *)
(* the chain they follow has no end.                                       *)

ReadDirectoryCode(t, name, ext) ==
    LET full == Matching(t, name, ext) \ {0}
    IN  IF full # {} THEN IF t[First(full)].dir THEN 0 ELSE 1
        ELSE IF Named(t, name) \ {0} # {} THEN 1 ELSE 2

ReadDirectory(parent, name, ext) ==
    /\ status = "on"
    /\ Return(ReadDirectoryCode(Table(parent), name, ext))
    /\ UNCHANGED <<disk, fat, status, mishaps>>

Read(parent, name, ext, buffer) ==
    \E idx \in Slots :
        LET entry == Table(parent)[idx]
        IN  /\ status = "on"
            /\ idx = First(Matching(Table(parent), name, ext))
            /\ Provoke(IF idx # 0 /\ ~entry.used THEN {"emptySlot"} ELSE {})
            /\ UNCHANGED <<disk, fat>>
            /\ \/ idx = 0 /\ Return(3) /\ UNCHANGED status
               \/ idx # 0 /\ entry.dir /\ Return(1) /\ UNCHANGED status
               \/ idx # 0 /\ ~entry.dir /\ buffer < entry.size /\ Return(2) /\ UNCHANGED status
               \/ /\ idx # 0 /\ ~entry.dir /\ buffer >= entry.size
                  /\ IF Ends(fat, entry.cluster)
                       THEN Return(0) /\ UNCHANGED status
                       ELSE status' = "hung" /\ UNCHANGED ret

-----------------------------------------------------------------------------
(* write: a request without data makes a folder, any other stores a file.  *)

WriteInvalidParent(parent) ==
    /\ status = "on"
    /\ ~IsDirectory(parent)
    /\ Return(2)
    /\ UNCHANGED <<disk, fat, status, mishaps>>

BugFolderTestedLikeFile(t, name) == FALSE
FolderExists(t, name) == \E i \in Named(t, name) : t[i].dir

MakeDirectoryExists(parent, name) ==
    /\ status = "on"
    /\ IsDirectory(parent)
    /\ FolderExists(Table(parent), name)
    /\ Return(1)
    /\ UNCHANGED <<disk, fat, status, mishaps>>

WriteMishaps(parent, name, found, needed) ==
    (IF Unused(Table(parent)) = {} THEN {"noSlot"} ELSE {})
    \cup (IF name = NoName THEN {"noName"} ELSE {})
    \cup (IF found < needed THEN {"noCluster"} ELSE {})

(* The parent's table with its first unused slot (slot 0 if there is none) *)
(* given to entry.                                                         *)
BugLastUnused(t, entry) ==
    [t EXCEPT ![CHOOSE i \in Unused(t) : \A j \in Unused(t) : j <= i] = entry]
WithEntry(t, entry) == [t EXCEPT ![First(Unused(t))] = entry]

(* The last write to a cluster wins: new table, parent table, then FAT.    *)
DiskWithFolder(parent, name, c, map) ==
    [x \in Clusters |->
        IF x = FAT_CLUSTER_NUMBER THEN FatImage(map)
        ELSE IF x = parent THEN Dir(WithEntry(Table(parent), DirEntry(name, c)))
        ELSE IF x = c THEN Dir(NewTable(name, c))
        ELSE disk[x]]

BugUnclaimed(map, c) == map
Claimed(map, c) == [map EXCEPT ![c] = END_OF_FILE]

MakeDirectory(parent, name) ==
    LET c == First(Free(fat))
    IN  /\ status = "on"
        /\ IsDirectory(parent)
        /\ ~FolderExists(Table(parent), name)
        /\ Provoke(WriteMishaps(parent, name, IF Free(fat) = {} THEN 0 ELSE 1, 1))
        /\ fat' = IF Free(fat) = {} THEN fat ELSE Claimed(fat, c)
        /\ disk' = DiskWithFolder(parent, name, c, fat')
        /\ Return(0)
        /\ UNCHANGED status

(* Data clusters, parent table, FAT.                                       *)
DiskWithFile(parent, name, ext, p, list, map) ==
    [x \in Clusters |->
        IF x = FAT_CLUSTER_NUMBER THEN FatImage(map)
        ELSE IF x = parent THEN Dir(WithEntry(Table(parent), FileEntry(name, ext, p, list[1])))
        ELSE IF x \in Listed(list) THEN Data(p, LastAt(list, x))
        ELSE disk[x]]

(* The test for an existing file compares the address of a field with 0,   *)
(* so it never finds one.  The search found m clusters for list.           *)
StoreFileIn(parent, name, ext, p, list, m) ==
    /\ status = "on"
    /\ IsDirectory(parent)
    /\ FirstFit(list, m, Size[p])
    /\ Provoke(WriteMishaps(parent, name, m, Size[p]))
    /\ fat' = Linked(fat, list, Size[p])
    /\ disk' = DiskWithFile(parent, name, ext, p, list, fat')
    /\ Return(0)
    /\ UNCHANGED status

StoreFile(parent, name, ext, p) ==
    \E list \in [1 .. Size[p] -> Clusters], m \in 0 .. Size[p] :
        StoreFileIn(parent, name, ext, p, list, m)

-----------------------------------------------------------------------------
(* delete: a request with buffer_size = 0 means a folder and is matched by *)
(* name alone; any other is matched by name and extension.                 *)

TargetSlot(t, name, ext, asFolder) ==
    First(IF asFolder THEN Named(t, name) ELSE Matching(t, name, ext))

DeleteNotFound(parent, name, ext, asFolder) ==
    /\ status = "on"
    /\ TargetSlot(Table(parent), name, ext, asFolder) = 0
    /\ Return(1)
    /\ UNCHANGED <<disk, fat, status, mishaps>>

DeleteMishaps(entry, asFolder) ==
    IF ~entry.used THEN {"emptySlot"}
    ELSE IF entry.dir # asFolder THEN {"wrongKind"} ELSE {}

BugEntryKept(t, idx) == t
Without(t, idx) == [t EXCEPT ![idx] = EmptyEntry]

DeleteFolderRefused(parent, name) ==
    LET idx   == TargetSlot(Table(parent), name, NoExt, TRUE)
        entry == Table(parent)[idx]
    IN  /\ status = "on"
        /\ idx # 0
        /\ \/ name \in RootLike /\ Return(-1)
           \/ name \notin RootLike /\ ~ListsNothing(disk[entry.cluster]) /\ Return(2)
        /\ UNCHANGED <<disk, fat, status, mishaps>>

(* FAT, parent table, blank cluster, FAT again.                            *)
DiskWithoutFolder(parent, idx, c, map) ==
    [x \in Clusters |->
        IF x = FAT_CLUSTER_NUMBER THEN FatImage(map)
        ELSE IF x = c THEN Blank
        ELSE IF x = parent THEN Dir(Without(Table(parent), idx))
        ELSE disk[x]]

DeleteFolder(parent, name) ==
    LET idx   == TargetSlot(Table(parent), name, NoExt, TRUE)
        entry == Table(parent)[idx]
    IN  /\ status = "on"
        /\ idx # 0
        /\ name \notin RootLike
        /\ ListsNothing(disk[entry.cluster])
        /\ Provoke(DeleteMishaps(entry, TRUE))
        /\ fat' = [fat EXCEPT ![entry.cluster] = EMPTY]
        /\ disk' = DiskWithoutFolder(parent, idx, entry.cluster, fat')
        /\ Return(0)
        /\ UNCHANGED status

BugFatUnsaved(parent, idx, gone, map) ==
    [x \in Clusters |->
        IF x \in gone THEN Blank
        ELSE IF x = parent THEN Dir(Without(Table(parent), idx)) ELSE disk[x]]

(* Parent table, each cluster of the chain, FAT.                           *)
DiskWithoutFile(parent, idx, gone, map) ==
    [x \in Clusters |->
        IF x = FAT_CLUSTER_NUMBER THEN FatImage(map)
        ELSE IF x \in gone THEN Blank
        ELSE IF x = parent THEN Dir(Without(Table(parent), idx))
        ELSE disk[x]]

(* The disabled lines of delete's loop free the last cluster alone.        *)
BugLastFreed(map, gone) ==
    [c \in Clusters |-> IF c \in gone /\ map[c] = END_OF_FILE THEN EMPTY ELSE map[c]]

Freed(map, gone) == [c \in Clusters |-> IF c \in gone THEN EMPTY ELSE map[c]]

DeleteFile(parent, name, ext) ==
    LET idx   == TargetSlot(Table(parent), name, ext, FALSE)
        entry == Table(parent)[idx]
        gone  == Chain(fat, entry.cluster)
    IN  /\ status = "on"
        /\ idx # 0
        /\ Ends(fat, entry.cluster)
        /\ Provoke(DeleteMishaps(entry, FALSE))
        /\ fat' = Freed(fat, gone)
        /\ disk' = DiskWithoutFile(parent, idx, gone, fat')
        /\ Return(0)
        /\ UNCHANGED status

(* delete empties the entries behind it, so on a circle it comes back to   *)
(* an EMPTY one and goes on at the boot cluster, through what it has left. *)
Circles(map, c)     == \A x \in Chain(map, c) : map[x] \in Clusters
AfterCircle(map, c) == Freed(map, Chain(map, c))

Erased(map, c) ==
    IF Circles(map, c) THEN Chain(map, c) \cup Chain(AfterCircle(map, c), BOOT_SECTOR)
    ELSE Chain(map, c)

EraseEnds(map, c) ==
    Ends(map, c) \/ (Circles(map, c) /\ Ends(AfterCircle(map, c), BOOT_SECTOR))

(* The chain of a damaged FAT.  A walk that leaves the map, or circles     *)
(* through the boot cluster, never comes to the writing of the FAT.        *)
DeleteFileAstray(parent, name, ext) ==
    LET idx   == TargetSlot(Table(parent), name, ext, FALSE)
        entry == Table(parent)[idx]
        gone  == Erased(fat, entry.cluster)
        over  == EraseEnds(fat, entry.cluster)
    IN  /\ status = "on"
        /\ idx # 0
        /\ ~Ends(fat, entry.cluster)
        /\ Provoke(DeleteMishaps(entry, FALSE))
        /\ fat' = Freed(fat, gone)
        /\ disk' = [x \in Clusters |->
                       IF over /\ x = FAT_CLUSTER_NUMBER THEN FatImage(fat')
                       ELSE IF x \in gone THEN Blank
                       ELSE IF x = parent THEN Dir(Without(Table(parent), idx))
                       ELSE disk[x]]
        /\ status' = IF over THEN status ELSE "hung"
        /\ ret' = IF over THEN 0 ELSE ret

-----------------------------------------------------------------------------
DirectoryCall(parent, name) ==
    \/ MakeDirectoryExists(parent, name)
    \/ MakeDirectory(parent, name)
    \/ DeleteNotFound(parent, name, NoExt, TRUE)
    \/ DeleteFolderRefused(parent, name)
    \/ DeleteFolder(parent, name)

FileCall(parent, name, ext) ==
    \/ ReadDirectory(parent, name, ext)
    \/ \E buffer \in 0 .. MaxSize : Read(parent, name, ext, buffer)
    \/ \E p \in Payloads : StoreFile(parent, name, ext, p)
    \/ DeleteNotFound(parent, name, ext, FALSE)
    \/ DeleteFile(parent, name, ext)
    \/ DeleteFileAstray(parent, name, ext)

DriverCall ==
    \E parent \in Clusters :
        \/ WriteInvalidParent(parent)
        \/ \E name \in AllNames :
              \/ DirectoryCall(parent, name)
              \/ \E ext \in AllExts : FileCall(parent, name, ext)

Next == PowerOff \/ FormatAtBoot \/ LoadAtBoot \/ DriverCall

Spec == Init /\ [][Next]_vars

-----------------------------------------------------------------------------
(* Properties.  Everything is said of the disk, so that it also holds of   *)
(* what a machine that is switched off will find at its next boot.         *)

(* No call so far followed or wrote a cluster number that was never set.   *)
Sound == mishaps \cap {"noCluster", "emptySlot"} = {}

(* The places of the disk that list a file or a folder; slot 0 of a table  *)
(* is the folder's own entry.                                              *)
ListingsOn(d) == {s \in Clusters \X (Slots \ {0}) :
                     d[s[1]].kind = "dir" /\ d[s[1]].table[s[2]].used}
EntryOn(d, s) == d[s[1]].table[s[2]]

Listings   == ListingsOn(disk)
EntryAt(s) == EntryOn(disk, s)
ChainAt(s) == Chain(SavedMap, EntryAt(s).cluster)

(* Two entries never share a cluster: deleting or following one of them    *)
(* cannot touch the other (write's search, delete's freeing).              *)
OwnedOnce ==
    Sound => \A r, s \in Listings : r # s => ChainAt(r) \cap ChainAt(s) = {}

(* Every entry leads to clusters that are allocated, to a chain that ends, *)
(* and to a first cluster of the kind the entry promises.                  *)
NothingDangles ==
    Sound => \A s \in Listings :
        /\ ChainAt(s) \subseteq Usable \ Free(SavedMap)
        /\ Ends(SavedMap, EntryAt(s).cluster)
        /\ disk[EntryAt(s).cluster].kind = IF EntryAt(s).dir THEN "dir" ELSE "data"

(* Every allocated cluster belongs to an entry, so delete gives back all   *)
(* that write took.                                                        *)
NothingLeaks ==
    mishaps = {} => Usable \ Free(SavedMap) = UNION {ChainAt(s) : s \in Listings}

(* The first n clusters of the walk from c, beyond the map at the latest   *)
(* after its end, and what read copies from them to its caller.            *)
Walk(map, c, n) ==
    LET at[k \in 1 .. n] ==
            IF k = 1 THEN c
            ELSE IF at[k - 1] \in Clusters THEN map[at[k - 1]] ELSE END_OF_FILE
    IN  at

FileContents(map, c, n) ==
    [k \in 1 .. n |-> LET x == Walk(map, c, n)[k]
                      IN IF x \in Clusters THEN disk[x] ELSE Blank]

(* A file reads back as the payload it was written from, in order.         *)
ReadBack ==
    Sound => \A s \in Listings : ~EntryAt(s).dir =>
        \E p \in Payloads :
            /\ EntryAt(s).size = Size[p]
            /\ FileContents(SavedMap, EntryAt(s).cluster, Size[p]) = [k \in 1 .. Size[p] |-> Data(p, k)]

(* A folder's subfolders have different names, none of them the folder's   *)
(* own: the shell finds a folder by name alone.                            *)
FolderNamesDiffer ==
    mishaps = {} => \A d \in Clusters : disk[d].kind = "dir" =>
        \A i, j \in Slots : i # j /\ disk[d].table[i].dir /\ disk[d].table[j].dir
                              => disk[d].table[i].name # disk[d].table[j].name

(* Every table on the disk can be reached from the root's: no folder is    *)
(* deleted while it lists something.                                       *)
EveryFolderReachable ==
    mishaps = {} =>
        \A K \in SUBSET Clusters :
            /\ ROOT_CLUSTER_NUMBER \in K
            /\ \A s \in Listings : s[1] \in K /\ EntryAt(s).dir => EntryAt(s).cluster \in K
            => {d \in Clusters : disk[d].kind = "dir"} \subseteq K

(* Between two calls the disk carries the signature and the FAT in memory, *)
(* so a reboot goes on where the last call ended instead of formatting.    *)
RebootRestores ==
    Sound /\ status = "on" => disk[BOOT_SECTOR] = Boot /\ SavedMap = fat

(* No call loops for ever or leaves the FAT.                               *)
NeverHangs == Sound => status # "hung"

-----------------------------------------------------------------------------
(* The inductive invariant behind the safety properties, in terms of a map *)
(* and a disk.  Chains are spoken of one link at a time.                   *)

(* Links lead from usable clusters to allocated ones, no two to the same.  *)
LinksApart(map) ==
    /\ \A x \in {BOOT_SECTOR, FAT_CLUSTER_NUMBER, ROOT_CLUSTER_NUMBER} : map[x] \notin Clusters
    /\ \A x \in Usable : map[x] \in Usable \cup {EMPTY, END_OF_FILE}
    /\ \A x \in Usable : map[x] \in Usable => map[map[x]] # EMPTY
    /\ \A x, y \in Usable : map[x] \in Usable /\ map[x] = map[y] => x = y

(* A free cluster is blank; a table takes one cluster.                     *)
KindsAgree(map, d) ==
    \A x \in Usable :
        /\ map[x] = EMPTY => d[x] = Blank
        /\ d[x].kind = "dir" => map[x] = END_OF_FILE

(* The link of a file's k-th cluster leads to its (k+1)-th.                *)
DataInOrder(map, d) ==
    \A x \in Usable : d[x].kind = "data" =>
        LET p == d[x].payload
            k == d[x].index
        IN  /\ k <= Size[p]
            /\ k = Size[p] => map[x] = END_OF_FILE
            /\ k # Size[p] => map[x] \in Usable /\ d[map[x]] = Data(p, k + 1)

(* An entry leads to a cluster no other entry and no link leads to, a      *)
(* table or the first cluster of a file of the entry's size.               *)
EntriesOwn(map, d) ==
    /\ \A s \in ListingsOn(d) :
          LET c == EntryOn(d, s).cluster
          IN  /\ c \in Usable
              /\ \A x \in Usable : map[x] # c
              /\ EntryOn(d, s).dir => d[c].kind = "dir"
              /\ ~EntryOn(d, s).dir => /\ d[c].kind = "data"
                                       /\ d[c].index = 1
                                       /\ EntryOn(d, s).size = Size[d[c].payload]
    /\ \A r, s \in ListingsOn(d) : EntryOn(d, r).cluster = EntryOn(d, s).cluster => r = s

WellLinked(map, d) ==
    LinksApart(map) /\ KindsAgree(map, d) /\ DataInOrder(map, d) /\ EntriesOwn(map, d)

(* An allocated cluster is a table or a file's.  Only a power cut in the   *)
(* middle of a delete leaves blank ones: see Fat32PowerCut.                *)
Filled(map, d) == \A x \in Usable : map[x] # EMPTY => d[x].kind \in {"dir", "data"}

Virgin == status = "off" /\ disk = [c \in Clusters |-> Blank]

Bootable ==
    /\ disk[BOOT_SECTOR] = Boot
    /\ disk[FAT_CLUSTER_NUMBER].kind = "fat"
    /\ disk[ROOT_CLUSTER_NUMBER].kind = "dir"
    /\ status = "on" => fat = SavedMap
    /\ status # "hung"
    /\ WellLinked(SavedMap, disk)

Formatted == Bootable /\ Filled(SavedMap, disk)

(* As long as nothing was followed or written that was never set, the disk *)
(* is untouched or carries a consistent file system.                       *)
DiskInvariant == Sound => Virgin \/ Formatted

-----------------------------------------------------------------------------
(* What the interface's comments say and the code does not do.             *)

(* fat32.h on write: "1 file/folder already exist".                        *)
EntriesDiffer ==
    mishaps = {} => \A r, s \in Listings :
        r # s /\ r[1] = s[1] /\ EntryAt(r).name = EntryAt(s).name
              /\ EntryAt(r).dir = EntryAt(s).dir
            => EntryAt(r).ext # EntryAt(s).ext

(* fat32.h on delete: "buf and buffer_size is unused", "2 folder is not    *)
(* empty".                                                                 *)
OnlyEmptyFoldersGo ==
    [][\A s \in Listings \ Listings' :
          EntryAt(s).dir => \A r \in Listings : r[1] # EntryAt(s).cluster]_vars

=============================================================================
