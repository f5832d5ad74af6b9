--------------------------- MODULE Fat32StoreProofs ---------------------------
(***************************************************************************)
(* What the calls do to the tables, for every size of the disk and the     *)
(* tables: nothing on the disk is lost, and the driver implements the file *)
(* store.  The proofs rest on the disk's consistency, proved in            *)
(* Fat32InvariantProofs, and on what callers that give proper names and    *)
(* ask for what is there keep of the tables themselves (Tidy).             *)
(***************************************************************************)
EXTENDS Fat32Store, Fat32InvariantProofs

(* A table starts with the folder's own entry, an entry in use has a name, *)
(* a slot that is not in use is blank, and no two folders of a table, its  *)
(* own among them, share a name.                                           *)
Tidy(t) ==
    /\ t[0].used /\ t[0].dir
    /\ \A i \in Slots : t[i].used => t[i].name # NoName
    /\ \A i \in Slots : ~t[i].used => t[i] = EmptyEntry
    /\ \A i \in Slots : t[i].dir => t[i].ext = NoExt
    /\ \A i, j \in Slots : i # j /\ t[i].dir /\ t[j].dir => t[i].name # t[j].name

TablesTidy == \A c \in Clusters : disk[c].kind = "dir" => Tidy(disk[c].table)

(* What every call finds as long as the callers keep to the rules.         *)
Ready == TypeOK /\ Formatted /\ TablesTidy

LEMMA NewTableTidy ==
    ASSUME NEW name \in AllNames, name # NoName, NEW c \in Clusters
    PROVE  Tidy(NewTable(name, c))
<1> DEFINE t == NewTable(name, c)
<1>1. t[0] = DirEntry(name, c) /\ \A i \in Slots \ {0} : t[i] = EmptyEntry
    BY Numbers DEF NewTable
<1>2. /\ DirEntry(name, c).used = TRUE /\ DirEntry(name, c).dir = TRUE
      /\ DirEntry(name, c).name = name /\ DirEntry(name, c).ext = NoExt
      /\ EmptyEntry.used = FALSE /\ EmptyEntry.dir = FALSE
    BY DEF DirEntry, EmptyEntry
<1> HIDE DEF t
<1>3. Tidy(t)
    BY <1>1, <1>2, Numbers DEF Tidy
<1> QED
    BY <1>3 DEF t

LEMMA TidyWith ==
    ASSUME NEW t \in Tables, Tidy(t), NEW x \in Slots \ {0}, NEW entry \in Entry,
           entry.used, entry.name # NoName,
           entry.dir => entry.ext = NoExt /\ \A i \in Slots : t[i].dir => t[i].name # entry.name
    PROVE  Tidy([t EXCEPT ![x] = entry])
<1> DEFINE u == [t EXCEPT ![x] = entry]
<1>1. u[x] = entry /\ \A i \in Slots \ {x} : u[i] = t[i]
    BY DEF Tables
<1> HIDE DEF u
<1>2. Tidy(u)
    BY <1>1, Numbers DEF Tidy
<1> QED
    BY <1>2 DEF u

LEMMA TidyWithout ==
    ASSUME NEW t \in Tables, Tidy(t), NEW x \in Slots \ {0}
    PROVE  Tidy(Without(t, x))
<1> DEFINE u == Without(t, x)
<1>1. u[x] = EmptyEntry /\ \A i \in Slots \ {x} : u[i] = t[i]
    BY DEF Tables, Without
<1>2. EmptyEntry.used = FALSE /\ EmptyEntry.dir = FALSE
    BY DEF EmptyEntry
<1> HIDE DEF u
<1>3. Tidy(u)
    BY <1>1, <1>2, Numbers DEF Tidy
<1> QED
    BY <1>3 DEF u

-----------------------------------------------------------------------------
(* What the calls that change the disk do to its tables.                   *)

(* From disk d to disk e entry takes the slot at <<parent, x>>; of the     *)
(* other tables that were there and still are none changes, and neither    *)
(* does a file that is listed elsewhere.                                   *)
Replaces(d, e, parent, x, entry) ==
    /\ d[parent].kind = "dir" /\ x \in Slots \ {0}
    /\ e[BOOT_SECTOR] = Boot
    /\ e[parent] = Dir([d[parent].table EXCEPT ![x] = entry])
    /\ \A f \in Clusters \ {parent} : d[f].kind = "dir" /\ e[f].kind = "dir" => e[f] = d[f]
    /\ \A s \in ListingsOn(d) : s # <<parent, x>> /\ ~EntryOn(d, s).dir =>
          e[EntryOn(d, s).cluster] = d[EntryOn(d, s).cluster]

(* Of the usable clusters a call rewrites those of a set, and its parent's *)
(* table.                                                                  *)
RewritesOnly(S, parent) ==
    \A y \in Usable \ S : fat'[y] = fat[y] /\ (y # parent => disk'[y] = disk[y])

(* A file is laid out in free clusters, linked in their order in list.     *)
LaidOut(list, p) ==
    /\ list \in [1 .. Size[p] -> Usable]
    /\ \A i \in 1 .. Size[p] :
          /\ fat[list[i]] = EMPTY /\ disk'[list[i]] = Data(p, i)
          /\ i # Size[p] => fat'[list[i]] = list[i + 1]

(* The facts about the disk that the calls below start from.               *)
LEMMA ReadyFacts ==
    ASSUME Ready
    PROVE  /\ SavedMap \in Maps /\ disk \in [Clusters -> Content]
           /\ Reserved(SavedMap, disk) /\ WellLinked(SavedMap, disk)
           /\ disk[BOOT_SECTOR] = Boot
           /\ \A c \in Clusters : disk[c].kind = "dir" =>
                 /\ c # BOOT_SECTOR /\ c # FAT_CLUSTER_NUMBER
                 /\ Table(c) = disk[c].table /\ Table(c) \in Tables /\ Tidy(Table(c))
                 /\ IsDirectory(c)
           /\ \A c \in Clusters : disk[c].kind # "dir" => ~IsDirectory(c) /\ Table(c) = EmptyTable
<1>1. /\ SavedMap \in Maps /\ disk \in [Clusters -> Content]
      /\ Reserved(SavedMap, disk) /\ WellLinked(SavedMap, disk)
    BY FormattedDisk DEF Ready, Formatted
<1>2. disk[BOOT_SECTOR] = Boot /\ disk[FAT_CLUSTER_NUMBER].kind = "fat"
    BY DEF Ready, Formatted, Bootable
<1>3. ASSUME NEW c \in Clusters, disk[c].kind = "dir"
      PROVE  /\ c # BOOT_SECTOR /\ c # FAT_CLUSTER_NUMBER
             /\ Table(c) = disk[c].table /\ Table(c) \in Tables /\ Tidy(Table(c))
             /\ IsDirectory(c)
    <2>1. c # BOOT_SECTOR /\ c # FAT_CLUSTER_NUMBER
        BY <1>2, <1>3, Kinds
    <2>2. Table(c) = disk[c].table /\ Table(c) \in Tables /\ Tidy(Table(c))
        BY <1>3, TableTyped DEF Ready, TablesTidy, Table
    <2> QED
        BY <2>1, <2>2 DEF IsDirectory, Tidy
<1>4. ASSUME NEW c \in Clusters, disk[c].kind # "dir"
      PROVE  ~IsDirectory(c) /\ Table(c) = EmptyTable
    BY <1>4, DirectoryTable DEF Table
<1> QED
    BY <1>1, <1>2, <1>3, <1>4

(* A listed file's first cluster holds the file, a listed folder's a table.*)
LEMMA ListingTarget ==
    ASSUME Ready, NEW s \in ListingsOn(disk)
    PROVE  LET c == EntryOn(disk, s).cluster
           IN  /\ c \in Usable /\ c \in Clusters /\ SavedMap[c] # EMPTY
               /\ EntryOn(disk, s).dir => disk[c].kind = "dir"
               /\ ~EntryOn(disk, s).dir => /\ disk[c].kind = "data"
                                           /\ EntryOn(disk, s).size = Size[disk[c].payload]
                                           /\ disk[c].payload \in Payloads
               /\ Ends(SavedMap, c)
<1> DEFINE c == EntryOn(disk, s).cluster
<1>1. /\ c \in Usable /\ c \in Clusters
      /\ EntryOn(disk, s).dir => disk[c].kind = "dir"
      /\ ~EntryOn(disk, s).dir => /\ disk[c].kind = "data"
                                  /\ EntryOn(disk, s).size = Size[disk[c].payload]
    BY ReadyFacts, Numbers DEF WellLinked, EntriesOwn
<1>2. disk[c] \in Content
    BY <1>1, ReadyFacts
<1>3. SavedMap[c] # EMPTY /\ Ends(SavedMap, c)
    BY ReadyFacts, ListingChain
<1> QED
    BY <1>1, <1>2, <1>3, Parts

(* A step after which the callers still keep to the rules; Regular allows  *)
(* them to have deleted a folder as a file, or a file as a folder.         *)
Regular == mishaps \subseteq {"wrongKind"}

LEMMA NoMishap ==
    ASSUME NEW kinds, Provoke(kinds), mishaps' = {}
    PROVE  kinds = {} /\ mishaps = {} /\ Sound'
BY DEF Provoke, Sound

LEMMA NoneIsRegular == mishaps' = {} => Regular'
BY DEF Regular

LEMMA MakeDirectoryEffect ==
    ASSUME Ready, NEW parent \in Clusters, NEW name \in AllNames,
           MakeDirectory(parent, name), Regular'
    PROVE  /\ name # NoName
           /\ \E x \in Slots \ {0}, c \in Usable :
                 /\ \A i \in Slots : i < x => disk[parent].table[i].used
                 /\ ~disk[parent].table[x].used /\ disk[c] = Blank /\ c # parent
                 /\ Replaces(disk, disk', parent, x, DirEntry(name, c))
                 /\ disk'[c] = Dir(NewTable(name, c))
                 /\ \A f \in Clusters \ {c} : disk'[f].kind = "dir" <=> disk[f].kind = "dir"
                 /\ RewritesOnly({c}, parent)
<1> DEFINE c == First(Free(fat))
           x == First(Unused(Table(parent)))
<1>1. WriteMishaps(parent, name, IF Free(fat) = {} THEN 0 ELSE 1, 1) \subseteq {"wrongKind"}
    BY DEF MakeDirectory, Provoke, Regular
<1>2. Free(fat) # {} /\ name # NoName /\ Unused(Table(parent)) # {}
    BY <1>1 DEF WriteMishaps
<1>3. /\ c \in Usable /\ c \in Clusters /\ fat[c] = EMPTY
    BY <1>2, FreeTyped, Numbers DEF Free, Ready
<1>4. fat = SavedMap
    BY DEF Ready, Formatted, Bootable, MakeDirectory
<1>5. disk[c] = Blank
    BY <1>3, <1>4, ReadyFacts DEF WellLinked, KindsAgree
<1>6. /\ disk[parent].kind = "dir" /\ Table(parent) = disk[parent].table
      /\ Tidy(Table(parent)) /\ parent # BOOT_SECTOR /\ parent # FAT_CLUSTER_NUMBER
    BY ReadyFacts, DirectoryTable DEF MakeDirectory
<1>7. /\ x \in Slots \ {0} /\ ~Table(parent)[x].used
      /\ \A i \in Slots : i < x => Table(parent)[i].used
    <2>1. x \in Unused(Table(parent)) /\ \A i \in Unused(Table(parent)) : x <= i
        BY <1>2, FirstIn, Numbers DEF Unused
    <2>2. ASSUME NEW i \in Slots, i < x, i \in Unused(Table(parent)) PROVE FALSE
        <3>1. x \in Nat /\ i \in Nat /\ x <= i
            BY <2>1, <2>2, Numbers DEF Unused
        <3> HIDE DEF x
        <3> QED
            BY <2>2, <3>1
    <2>3. x \in Slots \ {0} /\ ~Table(parent)[x].used
        BY <1>6, <2>1 DEF Unused, Tidy
    <2> QED
        BY <2>2, <2>3 DEF Unused
<1>8. /\ disk'[FAT_CLUSTER_NUMBER] = FatImage(fat')
      /\ disk'[parent] = Dir([disk[parent].table EXCEPT ![x] = DirEntry(name, c)])
      /\ disk'[c] = Dir(NewTable(name, c)) /\ c # parent
      /\ \A f \in Clusters \ {c, parent, FAT_CLUSTER_NUMBER} : disk'[f] = disk[f]
    BY <1>2, <1>3, <1>5, <1>6, Numbers, Kinds DEF MakeDirectory, DiskWithFolder, WithEntry
<1>9. disk[FAT_CLUSTER_NUMBER].kind = "fat"
    BY DEF Ready, Formatted, Bootable
<1>10. \A s \in ListingsOn(disk) : ~EntryOn(disk, s).dir =>
          disk'[EntryOn(disk, s).cluster] = disk[EntryOn(disk, s).cluster]
    <2> SUFFICES ASSUME NEW s \in ListingsOn(disk), ~EntryOn(disk, s).dir
                 PROVE  disk'[EntryOn(disk, s).cluster] = disk[EntryOn(disk, s).cluster]
        OBVIOUS
    <2>1. EntryOn(disk, s).cluster \in Clusters /\ disk[EntryOn(disk, s).cluster].kind = "data"
        BY ListingTarget
    <2> QED
        BY <1>5, <1>6, <1>8, <1>9, <2>1, Kinds
<1>11. \A y \in Clusters \ {c} : fat'[y] = fat[y]
    BY <1>2 DEF MakeDirectory, Claimed, Ready, TypeOK, Maps
<1> HIDE DEF c, x
<1>12. Replaces(disk, disk', parent, x, DirEntry(name, c))
    <2>1. disk'[BOOT_SECTOR] = Boot
        BY <1>3, <1>6, <1>8, ReadyFacts, Numbers
    <2>2. \A f \in Clusters \ {parent} : disk[f].kind = "dir" => disk'[f] = disk[f]
        BY <1>5, <1>8, <1>9, Kinds
    <2> QED
        BY <1>6, <1>7, <1>8, <1>10, <2>1, <2>2 DEF Replaces
<1>13. \A f \in Clusters \ {c} : disk'[f].kind = "dir" <=> disk[f].kind = "dir"
    BY <1>6, <1>8, <1>9, Kinds
<1>14. RewritesOnly({c}, parent)
    BY <1>8, <1>11, Numbers DEF RewritesOnly
<1> QED
    BY <1>2, <1>3, <1>5, <1>6, <1>7, <1>8, <1>12, <1>13, <1>14

LEMMA StoreFileEffect ==
    ASSUME Ready, NEW parent \in Clusters, NEW name \in AllNames, NEW ext \in AllExts,
           NEW p \in Payloads, StoreFile(parent, name, ext, p), Regular'
    PROVE  /\ name # NoName
           /\ \E x \in Slots \ {0}, c \in Usable :
                 /\ \A i \in Slots : i < x => disk[parent].table[i].used
                 /\ ~disk[parent].table[x].used
                 /\ Replaces(disk, disk', parent, x, FileEntry(name, ext, p, c))
                 /\ disk'[c].payload = p
                 /\ \A f \in Clusters : disk'[f].kind = "dir" <=> disk[f].kind = "dir"
                 /\ \E list : LaidOut(list, p) /\ list[1] = c /\ RewritesOnly(Listed(list), parent)
<1> DEFINE n == Size[p]
           x == First(Unused(Table(parent)))
<1>1. PICK list \in [1 .. n -> Clusters], m \in 0 .. n :
          /\ FirstFit(list, m, n)
          /\ Provoke(WriteMishaps(parent, name, m, n))
          /\ fat' = Linked(fat, list, n)
          /\ disk' = DiskWithFile(parent, name, ext, p, list, fat')
    BY DEF StoreFile, StoreFileIn
<1> DEFINE c == list[1]
           taken == Listed(list)
<1>2. n \in Nat /\ n >= 1 /\ 1 \in 1 .. n
    BY SizeOfPayload
<1>3. WriteMishaps(parent, name, m, n) \subseteq {"wrongKind"}
    BY <1>1 DEF Provoke, Regular
<1>4. m = n /\ name # NoName /\ Unused(Table(parent)) # {}
    <2>1. {"noSlot", "noName", "noCluster"} \cap {"wrongKind"} = {}
        OBVIOUS
    <2>2. ~(m < n) /\ name # NoName /\ Unused(Table(parent)) # {}
        BY <1>3, <2>1 DEF WriteMishaps
    <2> QED
        BY <1>2, <2>2
<1>5. fat = SavedMap
    BY DEF Ready, Formatted, Bootable, StoreFile, StoreFileIn
<1>6. \A y \in taken : y \in Usable /\ y \in Clusters /\ disk[y] = Blank
    <2>1. \A i \in 1 .. n : list[i] \in Usable /\ SavedMap[list[i]] = EMPTY
        BY <1>1, <1>4, <1>5 DEF FirstFit, Free
    <2>2. \A z \in Usable : SavedMap[z] = EMPTY => disk[z] = Blank
        BY ReadyFacts DEF WellLinked, KindsAgree
    <2>3. \A y \in taken : \E i \in 1 .. n : y = list[i]
        BY DEF Listed
    <2>4. ASSUME NEW y \in taken PROVE y \in Usable /\ SavedMap[y] = EMPTY
        BY <2>1, <2>3
    <2> QED
        BY <2>2, <2>4, Numbers
<1>7. c \in taken /\ c \in Usable
    BY <1>2, <1>6 DEF Listed
<1>8. /\ disk[parent].kind = "dir" /\ Table(parent) = disk[parent].table
      /\ Tidy(Table(parent)) /\ parent # BOOT_SECTOR /\ parent # FAT_CLUSTER_NUMBER
    BY ReadyFacts, DirectoryTable DEF StoreFile, StoreFileIn
<1>9. /\ x \in Slots \ {0} /\ ~Table(parent)[x].used
      /\ \A i \in Slots : i < x => Table(parent)[i].used
    <2>1. x \in Unused(Table(parent)) /\ \A i \in Unused(Table(parent)) : x <= i
        BY <1>4, FirstIn, Numbers DEF Unused
    <2>2. ASSUME NEW i \in Slots, i < x, i \in Unused(Table(parent)) PROVE FALSE
        <3>1. x \in Nat /\ i \in Nat /\ x <= i
            BY <2>1, <2>2, Numbers DEF Unused
        <3> HIDE DEF x
        <3> QED
            BY <2>2, <3>1
    <2>3. x \in Slots \ {0} /\ ~Table(parent)[x].used
        BY <1>8, <2>1 DEF Unused, Tidy
    <2> QED
        BY <2>2, <2>3 DEF Unused
<1>10. parent \notin taken /\ FAT_CLUSTER_NUMBER \notin taken /\ BOOT_SECTOR \notin taken
    BY <1>6, <1>8, Kinds, Numbers
<1>11. /\ disk'[FAT_CLUSTER_NUMBER] = FatImage(fat')
       /\ disk'[parent] = Dir([disk[parent].table EXCEPT ![x] = FileEntry(name, ext, p, c)])
       /\ \A y \in taken : disk'[y] = Data(p, LastAt(list, y))
       /\ \A f \in Clusters \ (taken \cup {parent, FAT_CLUSTER_NUMBER}) : disk'[f] = disk[f]
    BY <1>1, <1>6, <1>8, <1>10, Numbers DEF DiskWithFile, WithEntry
<1>12. disk[FAT_CLUSTER_NUMBER].kind = "fat"
    BY DEF Ready, Formatted, Bootable
<1>17. LaidOut(list, p) /\ RewritesOnly(taken, parent)
    <2>1. \A i \in 1 .. n : list[i] \in taken /\ LastAt(list, list[i]) = i
        BY <1>1, <1>2, <1>4, FirstFitDistinct DEF FirstFit, Listed
    <2>2. \A i \in 1 .. n : disk'[list[i]] = Data(p, i) /\ list[i] \in Usable
        BY <1>6, <1>11, <2>1
    <2>7. \A i \in 1 .. n : fat[list[i]] = EMPTY
        BY <1>1, <1>4 DEF FirstFit, Free
    <2>3. \A i \in 1 .. n : i # n => fat'[list[i]] = list[i + 1]
        BY <1>1, <2>1 DEF Linked
    <2>4. \A y \in Clusters \ taken : fat'[y] = fat[y]
        BY <1>1 DEF Linked
    <2>5. RewritesOnly(taken, parent)
        <3> HIDE DEF taken
        <3> QED
            BY <1>11, <2>4, Numbers DEF RewritesOnly
    <2>6. list \in [1 .. n -> Usable]
        BY <2>2
    <2> QED
        BY <2>2, <2>3, <2>5, <2>6, <2>7 DEF LaidOut
<1> HIDE DEF c, x, taken
<1>13. \A s \in ListingsOn(disk) : ~EntryOn(disk, s).dir =>
          disk'[EntryOn(disk, s).cluster] = disk[EntryOn(disk, s).cluster]
    <2> SUFFICES ASSUME NEW s \in ListingsOn(disk), ~EntryOn(disk, s).dir
                 PROVE  disk'[EntryOn(disk, s).cluster] = disk[EntryOn(disk, s).cluster]
        OBVIOUS
    <2>1. EntryOn(disk, s).cluster \in Clusters /\ disk[EntryOn(disk, s).cluster].kind = "data"
        BY ListingTarget
    <2> QED
        BY <1>6, <1>8, <1>11, <1>12, <2>1, Kinds
<1>14. Replaces(disk, disk', parent, x, FileEntry(name, ext, p, c))
    <2>1. disk'[BOOT_SECTOR] = Boot
        BY <1>8, <1>10, <1>11, ReadyFacts, Numbers
    <2>2. \A f \in Clusters \ {parent} : disk[f].kind = "dir" => disk'[f] = disk[f]
        BY <1>6, <1>11, <1>12, Kinds
    <2> QED
        BY <1>8, <1>9, <1>11, <1>13, <2>1, <2>2 DEF Replaces
<1>15. \A f \in Clusters : disk'[f].kind = "dir" <=> disk[f].kind = "dir"
    BY <1>6, <1>8, <1>11, <1>12, Kinds
<1>16. disk'[c].payload = p
    BY <1>7, <1>11, Kinds
<1>18. LaidOut(list, p) /\ list[1] = c /\ RewritesOnly(Listed(list), parent)
    BY <1>17 DEF c, taken
<1> QED
    BY <1>4, <1>7, <1>8, <1>9, <1>14, <1>15, <1>16, <1>18

(* The subfolder of that name, at place x, goes: it listed nothing.        *)
RemovesFolder(parent, name, x) ==
    LET c == disk[parent].table[x].cluster
    IN  /\ disk[parent].table[x].used /\ disk[parent].table[x].dir
        /\ disk[parent].table[x].name = name
        /\ c # parent /\ c \in Usable /\ disk[c].kind = "dir"
        /\ \A i \in Slots \ {0} : ~disk[c].table[i].used
        /\ Replaces(disk, disk', parent, x, EmptyEntry)
        /\ disk'[c] = Blank
        /\ \A f \in Clusters \ {c} : disk'[f].kind = "dir" <=> disk[f].kind = "dir"
        /\ fat'[c] = EMPTY /\ RewritesOnly({c}, parent)

LEMMA DeleteFolderEffect ==
    ASSUME Ready, NEW parent \in Clusters, NEW name \in AllNames,
           DeleteFolder(parent, name), mishaps' = {}
    PROVE  \E x \in Slots \ {0} : RemovesFolder(parent, name, x)
<1> DEFINE x == TargetSlot(Table(parent), name, NoExt, TRUE)
           entry == Table(parent)[x]
           c == entry.cluster
           s == <<parent, x>>
<1>1. x \in Slots /\ x # 0 /\ ListsNothing(disk[c])
    BY SlotsFound DEF DeleteFolder
<1>2. entry.used /\ entry.dir
    <2>1. DeleteMishaps(entry, TRUE) = {}
        BY NoMishap DEF DeleteFolder
    <2> QED
        BY <2>1 DEF DeleteMishaps
<1>3. /\ s \in ListingsOn(disk) /\ EntryOn(disk, s) = entry
      /\ Table(parent) = disk[parent].table /\ disk[parent].kind = "dir"
    <2>1. /\ s \in ListingsOn(disk) /\ EntryOn(disk, s) = entry
          /\ Table(parent) = disk[parent].table
        BY <1>1, <1>2, FoundListing DEF Ready
    <2>2. ~EmptyTable[x].used
        BY <1>1 DEF EmptyTable, EmptyEntry
    <2>3. disk[parent].kind = "dir"
        BY <1>2, <2>2, ReadyFacts
    <2> QED
        BY <2>1, <2>3
<1>4. entry.name = name
    <2>1. x \in Named(Table(parent), name)
        BY <1>1, FirstIn, Numbers DEF TargetSlot, Named
    <2> QED
        BY <2>1 DEF Named
<1>5. c \in Usable /\ c \in Clusters /\ disk[c].kind = "dir"
    BY <1>2, <1>3, ListingTarget
<1>6. \A i \in Slots \ {0} : ~disk[c].table[i].used
    <2>1. \A i \in Slots \ {0} : disk[c].table[i].name = NoName
        BY <1>1, <1>5, Kinds DEF ListsNothing
    <2>2. Tidy(disk[c].table)
        BY <1>5, ReadyFacts
    <2> QED
        BY <2>1, <2>2 DEF Tidy
<1>7. c # parent
    BY <1>1, <1>2, <1>3, <1>6
<1>8. Tidy(disk[parent].table) /\ parent # BOOT_SECTOR /\ parent # FAT_CLUSTER_NUMBER
    BY <1>3, ReadyFacts
<1>9. /\ disk'[FAT_CLUSTER_NUMBER] = FatImage(fat')
      /\ disk'[parent] = Dir([disk[parent].table EXCEPT ![x] = EmptyEntry])
      /\ disk'[c] = Blank
      /\ \A f \in Clusters \ {c, parent, FAT_CLUSTER_NUMBER} : disk'[f] = disk[f]
    BY <1>3, <1>5, <1>7, <1>8, Numbers DEF DeleteFolder, DiskWithoutFolder, Without
<1>10. disk[FAT_CLUSTER_NUMBER].kind = "fat"
    BY DEF Ready, Formatted, Bootable
<1>15. fat'[c] = EMPTY /\ RewritesOnly({c}, parent)
    <2>1. fat' = [fat EXCEPT ![c] = EMPTY] /\ fat \in Maps
        BY DEF DeleteFolder, Ready, TypeOK
    <2> HIDE DEF c
    <2> QED
        BY <1>5, <1>9, <2>1, Numbers DEF Maps, RewritesOnly
<1> HIDE DEF c, x, entry
<1>11. \A r \in ListingsOn(disk) : ~EntryOn(disk, r).dir =>
          disk'[EntryOn(disk, r).cluster] = disk[EntryOn(disk, r).cluster]
    <2> SUFFICES ASSUME NEW r \in ListingsOn(disk), ~EntryOn(disk, r).dir
                 PROVE  disk'[EntryOn(disk, r).cluster] = disk[EntryOn(disk, r).cluster]
        OBVIOUS
    <2>1. EntryOn(disk, r).cluster \in Clusters /\ disk[EntryOn(disk, r).cluster].kind = "data"
        BY ListingTarget
    <2> QED
        BY <1>3, <1>5, <1>9, <1>10, <2>1
<1>12. Replaces(disk, disk', parent, x, EmptyEntry)
    <2>1. disk'[BOOT_SECTOR] = Boot
        BY <1>5, <1>8, <1>9, ReadyFacts, Numbers
    <2>2. \A f \in Clusters \ {parent} : disk[f].kind = "dir" /\ disk'[f].kind = "dir" => disk'[f] = disk[f]
        BY <1>9, <1>10, Kinds
    <2> QED
        BY <1>1, <1>3, <1>9, <1>11, <2>1, <2>2 DEF Replaces
<1>13. \A f \in Clusters \ {c} : disk'[f].kind = "dir" <=> disk[f].kind = "dir"
    BY <1>3, <1>9, <1>10, Kinds
<1>14. entry = disk[parent].table[x] /\ c = disk[parent].table[x].cluster
    BY <1>3 DEF entry, c
<1> QED
    BY <1>1, <1>2, <1>4, <1>5, <1>6, <1>7, <1>9, <1>12, <1>13, <1>14, <1>15 DEF RemovesFolder

(* delete of a file, whose entry is at place x; of a folder that is taken  *)
(* for a file the table goes.                                              *)
RemovesAsFile(parent, name, ext, x) ==
    LET entry == disk[parent].table[x]
        gone  == Chain(SavedMap, entry.cluster)
    IN  /\ x = TargetSlot(Table(parent), name, ext, FALSE)
        /\ entry.used /\ entry.name = name /\ entry.ext = ext
        /\ entry.dir => mishaps' # {}
        /\ Replaces(disk, disk', parent, x, EmptyEntry)
        /\ disk'[entry.cluster] = Blank
        /\ \A f \in Clusters : f # entry.cluster => (disk'[f].kind = "dir" <=> disk[f].kind = "dir")
        /\ \A y \in gone : fat'[y] = EMPTY
        /\ RewritesOnly(gone, parent)

LEMMA DeleteEffect ==
    ASSUME Ready, NEW parent \in Clusters, NEW name \in AllNames, NEW ext \in AllExts,
           DeleteFile(parent, name, ext) \/ DeleteFileAstray(parent, name, ext), Regular',
           LET entry == Table(parent)[TargetSlot(Table(parent), name, ext, FALSE)]
           IN  entry.dir => entry.cluster # parent
    PROVE  /\ DeleteFile(parent, name, ext)
           /\ \E x \in Slots \ {0} : RemovesAsFile(parent, name, ext, x)
<1> DEFINE x == TargetSlot(Table(parent), name, ext, FALSE)
           entry == Table(parent)[x]
           c == entry.cluster
           s == <<parent, x>>
           gone == Chain(SavedMap, c)
<1>1. x \in Slots /\ x # 0
    BY SlotsFound DEF DeleteFile, DeleteFileAstray
<1>2. entry.used /\ (entry.dir => mishaps' # {} /\ c # parent)
    <2>1. Provoke(DeleteMishaps(entry, FALSE))
        BY DEF DeleteFile, DeleteFileAstray
    <2> QED
        BY <2>1 DEF DeleteMishaps, Provoke, Regular
<1>3. /\ s \in ListingsOn(disk) /\ EntryOn(disk, s) = entry
      /\ Table(parent) = disk[parent].table /\ disk[parent].kind = "dir"
    <2>1. /\ s \in ListingsOn(disk) /\ EntryOn(disk, s) = entry
          /\ Table(parent) = disk[parent].table
        BY <1>1, <1>2, FoundListing DEF Ready
    <2>2. ~EmptyTable[x].used
        BY <1>1 DEF EmptyTable, EmptyEntry
    <2>3. disk[parent].kind = "dir"
        BY <1>2, <2>2, ReadyFacts
    <2> QED
        BY <2>1, <2>3
<1>4. entry.name = name /\ entry.ext = ext
    <2>1. x \in Matching(Table(parent), name, ext)
        BY <1>1, FirstIn, Numbers DEF TargetSlot, Matching, Named
    <2> QED
        BY <2>1 DEF Named, Matching
<1>5. /\ c \in Usable /\ c \in Clusters /\ c # parent /\ Ends(SavedMap, c)
      /\ disk[c].kind = IF entry.dir THEN "dir" ELSE "data"
    <2>1. /\ c \in Usable /\ c \in Clusters /\ Ends(SavedMap, c)
          /\ disk[c].kind = IF entry.dir THEN "dir" ELSE "data"
        BY <1>3, ListingTarget
    <2>2. c # parent
        BY <1>2, <1>3, <2>1
    <2> QED
        BY <2>1, <2>2
<1>6. fat = SavedMap
    BY DEF Ready, Formatted, Bootable, DeleteFile, DeleteFileAstray
<1>7. DeleteFile(parent, name, ext)
    BY <1>5, <1>6 DEF DeleteFileAstray
<1>8. \A y \in gone : y \in Usable /\ (y = c \/ disk[y].kind = "data")
    <2>1. SavedMap \in Maps /\ disk \in [Clusters -> Content] /\ WellLinked(SavedMap, disk)
        BY ReadyFacts
    <2> HIDE DEF c
    <2>2. CASE disk[c].kind = "data"
        BY <1>5, <2>1, <2>2, ChainOfFile
    <2>3. CASE disk[c].kind = "dir"
        <3>1. SavedMap[c] \notin Clusters
            BY <1>5, <2>1, <2>3, Numbers DEF WellLinked, KindsAgree
        <3>2. gone = {c}
            BY <1>5, <3>1, ChainOfTable
        <3> QED
            BY <1>5, <3>2
    <2> QED
        BY <1>5, <2>2, <2>3
<1>19. c \in gone
    BY <1>5, ChainBasics
<1>9. \A r \in ListingsOn(disk) : r # s => EntryOn(disk, r).cluster \notin gone
    <2> HIDE DEF s
    <2> QED
        BY <1>3, ReadyFacts, ListingChain
<1>10. /\ Tidy(disk[parent].table) /\ parent # BOOT_SECTOR /\ parent # FAT_CLUSTER_NUMBER
       /\ parent \notin gone /\ BOOT_SECTOR \notin gone /\ FAT_CLUSTER_NUMBER \notin gone
    <2>1. Tidy(disk[parent].table) /\ parent # BOOT_SECTOR /\ parent # FAT_CLUSTER_NUMBER
        BY <1>3, ReadyFacts
    <2>2. parent \notin gone
        BY <1>3, <1>5, <1>8
    <2> HIDE DEF gone
    <2> QED
        BY <1>8, <2>1, <2>2, Numbers
<1>11. /\ disk'[FAT_CLUSTER_NUMBER] = FatImage(fat')
       /\ disk'[parent] = Dir([disk[parent].table EXCEPT ![x] = EmptyEntry])
       /\ \A f \in Clusters \cap gone : disk'[f] = Blank
       /\ \A f \in Clusters \ (gone \cup {parent, FAT_CLUSTER_NUMBER}) : disk'[f] = disk[f]
    BY <1>3, <1>6, <1>7, <1>10, Numbers DEF DeleteFile, DiskWithoutFile, Without
<1>12. disk[FAT_CLUSTER_NUMBER].kind = "fat"
    BY DEF Ready, Formatted, Bootable
<1>17. (\A y \in gone : fat'[y] = EMPTY) /\ RewritesOnly(gone, parent)
    <2>1. fat' = Freed(fat, gone)
        BY <1>3, <1>6, <1>7 DEF DeleteFile
    <2> HIDE DEF gone
    <2> QED
        BY <1>8, <1>11, <2>1, Numbers DEF Freed, RewritesOnly
<1> HIDE DEF c, x, entry, gone
<1>13. \A r \in ListingsOn(disk) : r # s /\ ~EntryOn(disk, r).dir =>
          disk'[EntryOn(disk, r).cluster] = disk[EntryOn(disk, r).cluster]
    <2> SUFFICES ASSUME NEW r \in ListingsOn(disk), r # s, ~EntryOn(disk, r).dir
                 PROVE  disk'[EntryOn(disk, r).cluster] = disk[EntryOn(disk, r).cluster]
        OBVIOUS
    <2>1. EntryOn(disk, r).cluster \in Clusters /\ disk[EntryOn(disk, r).cluster].kind = "data"
        BY ListingTarget
    <2> QED
        BY <1>3, <1>9, <1>11, <1>12, <2>1
<1>20. disk'[c] = Blank /\ disk[parent].table[x].cluster = c
    BY <1>3, <1>5, <1>11, <1>19 DEF entry, c
<1>14. Replaces(disk, disk', parent, x, EmptyEntry)
    <2>1. disk'[BOOT_SECTOR] = Boot
        BY <1>10, <1>11, ReadyFacts, Numbers
    <2>2. \A f \in Clusters \ {parent} : disk[f].kind = "dir" /\ disk'[f].kind = "dir" => disk'[f] = disk[f]
        BY <1>11, <1>12, Kinds
    <2> QED
        BY <1>1, <1>3, <1>11, <1>13, <2>1, <2>2 DEF Replaces
<1>15. \A f \in Clusters : f # c => (disk'[f].kind = "dir" <=> disk[f].kind = "dir")
    BY <1>3, <1>8, <1>11, <1>12, Kinds
<1>16. entry = disk[parent].table[x]
    BY <1>3 DEF entry
<1>18. gone = Chain(SavedMap, disk[parent].table[x].cluster)
    BY <1>16 DEF gone, c
<1> QED
    BY <1>1, <1>2, <1>4, <1>7, <1>14, <1>15, <1>16, <1>17, <1>18, <1>20 DEF x, RemovesAsFile

LEMMA DeleteFileEffect ==
    ASSUME Ready, NEW parent \in Clusters, NEW name \in AllNames, NEW ext \in AllExts,
           DeleteFile(parent, name, ext) \/ DeleteFileAstray(parent, name, ext), mishaps' = {}
    PROVE  /\ DeleteFile(parent, name, ext)
           /\ \E x \in Slots \ {0} :
                 /\ disk[parent].table[x].used /\ ~disk[parent].table[x].dir
                 /\ disk[parent].table[x].name = name /\ disk[parent].table[x].ext = ext
                 /\ Replaces(disk, disk', parent, x, EmptyEntry)
                 /\ \A f \in Clusters : disk'[f].kind = "dir" <=> disk[f].kind = "dir"
                 /\ LET gone == Chain(SavedMap, disk[parent].table[x].cluster)
                    IN  (\A y \in gone : fat'[y] = EMPTY) /\ RewritesOnly(gone, parent)
<1> DEFINE x == TargetSlot(Table(parent), name, ext, FALSE)
           entry == Table(parent)[x]
<1>1. entry.used /\ ~entry.dir /\ Regular'
    <2>1. DeleteMishaps(entry, FALSE) = {}
        BY NoMishap DEF DeleteFile, DeleteFileAstray
    <2> QED
        BY <2>1, NoneIsRegular DEF DeleteMishaps
<1>2. DeleteFile(parent, name, ext)
    BY <1>1, DeleteEffect
<1>3. PICK y \in Slots \ {0} : RemovesAsFile(parent, name, ext, y)
    BY <1>1, DeleteEffect
<1> DEFINE c == disk[parent].table[y].cluster
<1>4. disk[c].kind = "data"
    <2>1. <<parent, y>> \in ListingsOn(disk) /\ EntryOn(disk, <<parent, y>>) = disk[parent].table[y]
        BY <1>3 DEF RemovesAsFile, Replaces, ListingsOn, EntryOn
    <2> QED
        BY <1>3, <2>1, ListingTarget DEF RemovesAsFile
<1>5. \A f \in Clusters : disk'[f].kind = "dir" <=> disk[f].kind = "dir"
    BY <1>3, <1>4, Kinds DEF RemovesAsFile
<1> QED
    BY <1>2, <1>3, <1>5 DEF RemovesAsFile

-----------------------------------------------------------------------------
(* Tidy tables stay tidy.                                                  *)

LEMMA ReplacesKeepsTidy ==
    ASSUME Ready, NEW parent \in Clusters, NEW x, NEW entry,
           Replaces(disk, disk', parent, x, entry),
           Tidy([disk[parent].table EXCEPT ![x] = entry]),
           \A f \in Clusters : disk'[f].kind = "dir" =>
               disk[f].kind = "dir" \/ Tidy(disk'[f].table)
    PROVE  TablesTidy'
<1> SUFFICES ASSUME NEW f \in Clusters, disk'[f].kind = "dir"
             PROVE  Tidy(disk'[f].table)
    BY DEF TablesTidy
<1>1. CASE f = parent
    BY <1>1, Kinds DEF Replaces
<1>2. CASE f # parent /\ disk[f].kind = "dir"
    <2>1. disk'[f] = disk[f]
        BY <1>2 DEF Replaces
    <2> QED
        BY <1>2, <2>1 DEF Ready, TablesTidy
<1> QED
    BY <1>1, <1>2

LEMMA MakeDirectoryTidy ==
    ASSUME Ready, NEW parent \in Clusters, NEW name \in AllNames,
           MakeDirectory(parent, name), Regular'
    PROVE  TablesTidy'
<1>1. PICK x \in Slots \ {0}, c \in Usable :
          /\ ~disk[parent].table[x].used
          /\ Replaces(disk, disk', parent, x, DirEntry(name, c))
          /\ disk'[c] = Dir(NewTable(name, c))
          /\ \A f \in Clusters \ {c} : disk'[f].kind = "dir" <=> disk[f].kind = "dir"
    BY MakeDirectoryEffect
<1>2. disk[parent].table \in Tables /\ Tidy(disk[parent].table) /\ Table(parent) = disk[parent].table
    BY <1>1, ReadyFacts DEF Replaces
<1>3. name # NoName /\ \A i \in Slots : disk[parent].table[i].dir => disk[parent].table[i].name # name
    BY <1>2, MakeDirectoryEffect DEF MakeDirectory, FolderExists, Named
<1>4. Tidy([disk[parent].table EXCEPT ![x] = DirEntry(name, c)])
    <2>1. /\ DirEntry(name, c) \in Entry /\ DirEntry(name, c).used
          /\ DirEntry(name, c).name = name /\ DirEntry(name, c).ext = NoExt
        BY Entries, Numbers DEF DirEntry
    <2> QED
        BY <1>1, <1>2, <1>3, <2>1, TidyWith
<1>5. Tidy(disk'[c].table)
    BY <1>1, <1>3, NewTableTidy, Numbers, Kinds
<1> QED
    BY <1>1, <1>4, <1>5, ReplacesKeepsTidy

LEMMA StoreFileTidy ==
    ASSUME Ready, NEW parent \in Clusters, NEW name \in AllNames, NEW ext \in AllExts,
           NEW p \in Payloads, StoreFile(parent, name, ext, p), Regular'
    PROVE  TablesTidy'
<1>1. PICK x \in Slots \ {0}, c \in Usable :
          /\ ~disk[parent].table[x].used
          /\ Replaces(disk, disk', parent, x, FileEntry(name, ext, p, c))
          /\ \A f \in Clusters : disk'[f].kind = "dir" <=> disk[f].kind = "dir"
    BY StoreFileEffect
<1>2. disk[parent].table \in Tables /\ Tidy(disk[parent].table)
    BY <1>1, ReadyFacts DEF Replaces
<1>3. Tidy([disk[parent].table EXCEPT ![x] = FileEntry(name, ext, p, c)])
    <2>1. /\ FileEntry(name, ext, p, c) \in Entry /\ FileEntry(name, ext, p, c).used
          /\ FileEntry(name, ext, p, c).name = name /\ ~FileEntry(name, ext, p, c).dir
        BY Entries, Numbers DEF FileEntry
    <2>2. name # NoName
        BY StoreFileEffect
    <2> QED
        BY <1>1, <1>2, <2>1, <2>2, TidyWith
<1> QED
    BY <1>1, <1>3, ReplacesKeepsTidy

LEMMA DeleteTidy ==
    ASSUME Ready, NEW parent \in Clusters, NEW name \in AllNames, NEW ext \in AllExts,
           \/ DeleteFolder(parent, name)
           \/ DeleteFile(parent, name, ext) \/ DeleteFileAstray(parent, name, ext),
           mishaps' = {}
    PROVE  TablesTidy'
<1>1. PICK x \in Slots \ {0}, c \in Clusters :
          /\ Replaces(disk, disk', parent, x, EmptyEntry)
          /\ disk'[c].kind = "dir" => disk[c].kind = "dir"
          /\ \A f \in Clusters \ {c} : disk'[f].kind = "dir" <=> disk[f].kind = "dir"
    <2>1. CASE DeleteFolder(parent, name)
        <3>1. PICK x \in Slots \ {0} : RemovesFolder(parent, name, x)
            BY <2>1, DeleteFolderEffect
        <3> QED
            BY <3>1, Numbers, Kinds DEF RemovesFolder
    <2>2. CASE DeleteFile(parent, name, ext) \/ DeleteFileAstray(parent, name, ext)
        BY <2>2, DeleteFileEffect
    <2> QED
        BY <2>1, <2>2
<1>2. disk[parent].table \in Tables /\ Tidy(disk[parent].table)
    BY <1>1, ReadyFacts DEF Replaces
<1>3. Tidy([disk[parent].table EXCEPT ![x] = EmptyEntry])
    BY <1>2, TidyWithout DEF Without
<1> QED
    BY <1>1, <1>3, ReplacesKeepsTidy

LEMMA RemovesAsFileTidy ==
    ASSUME Ready, NEW parent \in Clusters, NEW name, NEW ext, NEW x \in Slots \ {0},
           RemovesAsFile(parent, name, ext, x)
    PROVE  TablesTidy'
<1>1. Replaces(disk, disk', parent, x, EmptyEntry)
    BY DEF RemovesAsFile
<1>2. disk[parent].table \in Tables /\ Tidy(disk[parent].table)
    BY <1>1, ReadyFacts DEF Replaces
<1>3. Tidy([disk[parent].table EXCEPT ![x] = EmptyEntry])
    BY <1>2, TidyWithout DEF Without
<1>4. \A f \in Clusters : disk'[f].kind = "dir" => disk[f].kind = "dir"
    BY Kinds DEF RemovesAsFile
<1> QED
    BY <1>1, <1>3, <1>4, ReplacesKeepsTidy

Tidiness == mishaps = {} => TablesTidy

LEMMA TidinessKept ==
    ASSUME TypeOK, DiskInvariant, Tidiness, [Next]_vars
    PROVE  Tidiness'
<1> SUFFICES ASSUME mishaps' = {}
             PROVE  TablesTidy'
    BY DEF Tidiness
<1>1. CASE UNCHANGED vars
    BY <1>1 DEF vars, Tidiness, TablesTidy
<1>2. CASE PowerOff \/ LoadAtBoot
    BY <1>2 DEF PowerOff, LoadAtBoot, Tidiness, TablesTidy
<1>3. CASE FormatAtBoot
    <2>1. Virgin
        BY <1>3 DEF FormatAtBoot, DiskInvariant, Sound, Formatted, Bootable
    <2>2. \A c \in Clusters : disk'[c].kind = "dir" =>
             disk'[c] = Dir(NewTable(RootName, ROOT_CLUSTER_NUMBER))
        BY <1>3, <2>1, Kinds, Numbers DEF FormatAtBoot, Virgin
    <2>3. RootName \in AllNames /\ RootName # NoName
        BY NameAssumption DEF AllNames
    <2>4. Tidy(NewTable(RootName, ROOT_CLUSTER_NUMBER))
        BY <2>3, NewTableTidy, Numbers
    <2> QED
        BY <2>2, <2>4, Kinds DEF TablesTidy
<1>4. CASE DriverCall
    <2>1. status = "on" /\ mishaps = {}
        BY <1>4, CallsRemember
    <2>2. Ready
        BY <2>1 DEF DiskInvariant, Sound, Virgin, Tidiness, Ready
    <2>3. PICK parent \in Clusters :
              \/ WriteInvalidParent(parent)
              \/ \E name \in AllNames :
                    \/ DirectoryCall(parent, name)
                    \/ \E ext \in AllExts : FileCall(parent, name, ext)
        BY <1>4 DEF DriverCall
    <2>4. CASE UNCHANGED disk
        BY <2>1, <2>4 DEF Tidiness, TablesTidy
    <2>5. CASE WriteInvalidParent(parent)
        BY <2>4, <2>5 DEF WriteInvalidParent
    <2>6. ASSUME NEW name \in AllNames, DirectoryCall(parent, name) PROVE TablesTidy'
        <3>1. NoExt \in AllExts
            BY DEF AllExts
        <3> QED
            BY <2>2, <2>4, <2>6, <3>1, NoneIsRegular, MakeDirectoryTidy, DeleteTidy
               DEF DirectoryCall, MakeDirectoryExists, DeleteNotFound, DeleteFolderRefused
    <2>7. ASSUME NEW name \in AllNames, NEW ext \in AllExts, FileCall(parent, name, ext)
          PROVE  TablesTidy'
        BY <2>2, <2>4, <2>7, NoneIsRegular, StoreFileTidy, DeleteTidy
           DEF FileCall, ReadDirectory, Read, DeleteNotFound
    <2> QED
        BY <2>3, <2>5, <2>6, <2>7
<1> QED
    BY <1>1, <1>2, <1>3, <1>4 DEF Next

(* Tables are tidy as long as the callers keep to the rules.               *)
THEOREM TablesStayTidy == Spec => []Tidiness
<1>1. Init => Tidiness
    BY Kinds DEF Init, Tidiness, TablesTidy
<1>2. TypeOK /\ DiskInvariant /\ Tidiness /\ [Next]_vars => Tidiness'
    BY TidinessKept
<1> QED
    BY <1>1, <1>2, TypeCorrect, DiskStaysConsistent, PTL DEF Spec

(* The shell finds a folder by its name alone.                             *)
THEOREM FoldersHaveOwnNames == Spec => []FolderNamesDiffer
<1>1. Tidiness => FolderNamesDiffer
    BY DEF Tidiness, TablesTidy, Tidy, FolderNamesDiffer
<1> QED
    BY <1>1, TablesStayTidy, PTL

-----------------------------------------------------------------------------
(* Folders and the root.                                                   *)

Folders(d) == {c \in Clusters : d[c].kind = "dir"}

(* K holds the root and with a folder its subfolders.                      *)
Descends(d, K) ==
    /\ ROOT_CLUSTER_NUMBER \in K
    /\ \A s \in ListingsOn(d) : s[1] \in K /\ EntryOn(d, s).dir => EntryOn(d, s).cluster \in K

Reached(d) == \A K \in SUBSET Clusters : Descends(d, K) => Folders(d) \subseteq K

Reachable == mishaps = {} => Reached(disk)

(* A call that replaces one entry leaves the others of the tables it keeps.*)
LEMMA KeptListing ==
    ASSUME NEW d, NEW e, NEW parent \in Clusters, NEW x, NEW entry,
           Replaces(d, e, parent, x, entry), d[parent].table \in Tables,
           NEW s \in ListingsOn(d), s # <<parent, x>>, e[s[1]].kind = "dir"
    PROVE  s \in ListingsOn(e) /\ EntryOn(e, s) = EntryOn(d, s)
<1>1. /\ s[1] \in Clusters /\ s[2] \in Slots \ {0} /\ s = <<s[1], s[2]>>
      /\ s \in Clusters \X (Slots \ {0})
      /\ d[s[1]].kind = "dir" /\ d[s[1]].table[s[2]].used
    BY DEF ListingsOn
<1>2. e[s[1]].table[s[2]] = d[s[1]].table[s[2]]
    <2>1. CASE s[1] = parent
        <3>1. s[2] # x
            BY <1>1, <2>1
        <3>2. e[parent].table = [d[parent].table EXCEPT ![x] = entry]
            BY Kinds DEF Replaces
        <3> QED
            BY <1>1, <2>1, <3>1, <3>2 DEF Tables
    <2>2. CASE s[1] # parent
        BY <1>1, <2>2 DEF Replaces
    <2> QED
        BY <2>1, <2>2
<1> QED
    BY <1>1, <1>2 DEF ListingsOn, EntryOn

(* The entry that is put at place x is listed there.                       *)
LEMMA NewListing ==
    ASSUME NEW d, NEW e, NEW parent \in Clusters, NEW x, NEW entry,
           Replaces(d, e, parent, x, entry), d[parent].table \in Tables, entry.used
    PROVE  <<parent, x>> \in ListingsOn(e) /\ EntryOn(e, <<parent, x>>) = entry
<1>1. /\ x \in Slots \ {0}
      /\ e[parent].kind = "dir" /\ e[parent].table = [d[parent].table EXCEPT ![x] = entry]
    BY Kinds DEF Replaces
<1>2. e[parent].table[x] = entry
    BY <1>1 DEF Tables
<1>3. <<parent, x>> \in Clusters \X (Slots \ {0}) /\ <<parent, x>>[1] = parent /\ <<parent, x>>[2] = x
    BY <1>1
<1> QED
    BY <1>1, <1>2, <1>3 DEF ListingsOn, EntryOn

LEMMA FoldersKept ==
    ASSUME Ready, NEW parent \in Clusters, NEW x, NEW entry,
           Replaces(disk, disk', parent, x, entry), ~disk[parent].table[x].used,
           NEW c, \A f \in Clusters \ {c} : disk'[f].kind = "dir" <=> disk[f].kind = "dir",
           disk'[c].kind = "dir"
    PROVE  \A s \in ListingsOn(disk) :
              s \in ListingsOn(disk') /\ EntryOn(disk', s) = EntryOn(disk, s)
<1>1. disk[parent].table \in Tables
    BY ReadyFacts DEF Replaces
<1> SUFFICES ASSUME NEW s \in ListingsOn(disk)
             PROVE  s \in ListingsOn(disk') /\ EntryOn(disk', s) = EntryOn(disk, s)
    OBVIOUS
<1>2. s # <<parent, x>>
    BY DEF ListingsOn
<1>3. disk'[s[1]].kind = "dir"
    BY DEF ListingsOn
<1> QED
    BY <1>1, <1>2, <1>3, KeptListing

(* So do the listings outside a folder that goes.                          *)
LEMMA OthersKept ==
    ASSUME Ready, NEW parent \in Clusters, NEW x, NEW entry,
           Replaces(disk, disk', parent, x, entry),
           NEW c, \A f \in Clusters \ {c} : disk'[f].kind = "dir" <=> disk[f].kind = "dir"
    PROVE  \A s \in ListingsOn(disk) : s # <<parent, x>> /\ s[1] # c =>
              s \in ListingsOn(disk') /\ EntryOn(disk', s) = EntryOn(disk, s)
<1>1. disk[parent].table \in Tables
    BY ReadyFacts DEF Replaces
<1> SUFFICES ASSUME NEW s \in ListingsOn(disk), s # <<parent, x>>, s[1] # c
             PROVE  s \in ListingsOn(disk') /\ EntryOn(disk', s) = EntryOn(disk, s)
    OBVIOUS
<1>2. disk'[s[1]].kind = "dir"
    BY DEF ListingsOn
<1> QED
    BY <1>1, <1>2, KeptListing

LEMMA MakeDirectoryReaches ==
    ASSUME Ready, Reached(disk), NEW parent \in Clusters, NEW name \in AllNames,
           MakeDirectory(parent, name), mishaps' = {}
    PROVE  Reached(disk')
<1>1. PICK x \in Slots \ {0}, c \in Usable :
          /\ ~disk[parent].table[x].used
          /\ Replaces(disk, disk', parent, x, DirEntry(name, c))
          /\ disk'[c] = Dir(NewTable(name, c))
          /\ \A f \in Clusters \ {c} : disk'[f].kind = "dir" <=> disk[f].kind = "dir"
    BY NoneIsRegular, MakeDirectoryEffect
<1>2. disk[parent].table \in Tables /\ disk[parent].kind = "dir"
    BY <1>1, ReadyFacts DEF Replaces
<1> SUFFICES ASSUME NEW K \in SUBSET Clusters, Descends(disk', K) PROVE Folders(disk') \subseteq K
    BY DEF Reached
<1>3. \A s \in ListingsOn(disk) : s \in ListingsOn(disk') /\ EntryOn(disk', s) = EntryOn(disk, s)
    <2>1. \A f \in Clusters \ {c} : disk'[f].kind = "dir" <=> disk[f].kind = "dir"
        BY <1>1
    <2>2. disk'[c].kind = "dir"
        BY <1>1, Kinds
    <2>3. Replaces(disk, disk', parent, x, DirEntry(name, c))
        BY <1>1
    <2>4. ~disk[parent].table[x].used
        BY <1>1
    <2> QED
        BY <2>1, <2>2, <2>3, <2>4, FoldersKept
<1>4. Folders(disk) \subseteq K
    BY <1>3 DEF Descends, Reached
<1>5. c \in K
    <2>1. /\ DirEntry(name, c).used = TRUE /\ DirEntry(name, c).dir = TRUE
          /\ DirEntry(name, c).cluster = c
        BY DEF DirEntry
    <2>2. <<parent, x>> \in ListingsOn(disk') /\ EntryOn(disk', <<parent, x>>) = DirEntry(name, c)
        BY <1>1, <1>2, <2>1, NewListing
    <2>3. parent \in K
        BY <1>2, <1>4 DEF Folders
    <2> QED
        BY <2>1, <2>2, <2>3 DEF Descends
<1> QED
    BY <1>1, <1>4, <1>5 DEF Folders

(* Storing and deleting files changes no folder's entry.                   *)
LEMMA FilesReach ==
    ASSUME Ready, Reached(disk), NEW parent \in Clusters, NEW x, NEW entry,
           Replaces(disk, disk', parent, x, entry),
           ~disk[parent].table[x].used \/ ~disk[parent].table[x].dir,
           \A f \in Clusters : disk'[f].kind = "dir" <=> disk[f].kind = "dir"
    PROVE  Reached(disk')
<1>1. disk[parent].table \in Tables
    BY ReadyFacts DEF Replaces
<1> SUFFICES ASSUME NEW K \in SUBSET Clusters, Descends(disk', K) PROVE Folders(disk') \subseteq K
    BY DEF Reached
<1>2. ASSUME NEW s \in ListingsOn(disk), EntryOn(disk, s).dir
      PROVE  s \in ListingsOn(disk') /\ EntryOn(disk', s) = EntryOn(disk, s)
    <2>1. s # <<parent, x>>
        BY <1>2 DEF ListingsOn, EntryOn
    <2>2. disk'[s[1]].kind = "dir"
        BY DEF ListingsOn
    <2> QED
        BY <1>1, <2>1, <2>2, KeptListing
<1>3. Descends(disk, K)
    BY <1>2 DEF Descends
<1> QED
    BY <1>3 DEF Reached, Folders

LEMMA DeleteFolderReaches ==
    ASSUME Ready, Reached(disk), NEW parent \in Clusters, NEW name \in AllNames,
           DeleteFolder(parent, name), mishaps' = {}
    PROVE  Reached(disk')
<1>1. PICK x \in Slots \ {0} : RemovesFolder(parent, name, x)
    BY DeleteFolderEffect
<1> DEFINE c == disk[parent].table[x].cluster
<1>2. /\ c \in Usable /\ c \in Clusters
      /\ \A i \in Slots \ {0} : ~disk[c].table[i].used
      /\ Replaces(disk, disk', parent, x, EmptyEntry)
      /\ disk'[c].kind # "dir"
      /\ \A f \in Clusters \ {c} : disk'[f].kind = "dir" <=> disk[f].kind = "dir"
    BY <1>1, Numbers, Kinds DEF RemovesFolder
<1>3. disk[parent].table \in Tables
    BY <1>2, ReadyFacts DEF Replaces
<1> SUFFICES ASSUME NEW K \in SUBSET Clusters, Descends(disk', K) PROVE Folders(disk') \subseteq K
    BY DEF Reached
<1>4. Descends(disk, K \cup {c})
    <2> SUFFICES ASSUME NEW s \in ListingsOn(disk), s[1] \in K \cup {c}, EntryOn(disk, s).dir
                 PROVE  EntryOn(disk, s).cluster \in K \cup {c}
        BY DEF Descends
    <2>1. s[1] \in Clusters /\ s[2] \in Slots \ {0} /\ disk[s[1]].kind = "dir" /\ disk[s[1]].table[s[2]].used
        BY DEF ListingsOn
    <2>2. s[1] # c
        BY <1>2, <2>1
    <2>3. CASE s = <<parent, x>>
        BY <2>3 DEF EntryOn
    <2>4. CASE s # <<parent, x>>
        <3>1. disk'[s[1]].kind = "dir"
            BY <1>2, <2>1, <2>2
        <3>2. s \in ListingsOn(disk') /\ EntryOn(disk', s) = EntryOn(disk, s)
            BY <1>2, <1>3, <2>4, <3>1, KeptListing
        <3>3. s[1] \in K
            BY <2>2
        <3>4. EntryOn(disk', s).dir
            BY <3>2
        <3>5. EntryOn(disk', s).cluster \in K
            BY <3>2, <3>3, <3>4 DEF Descends
        <3> QED
            BY <3>2, <3>5
    <2> QED
        BY <2>3, <2>4
<1>5. Folders(disk) \subseteq K \cup {c}
    BY <1>2, <1>4 DEF Reached
<1> HIDE DEF c
<1> QED
    BY <1>2, <1>5 DEF Folders

LEMMA CallReaches ==
    ASSUME Ready, Reached(disk), DriverCall, mishaps' = {}
    PROVE  Reached(disk')
<1>1. PICK parent \in Clusters :
          \/ WriteInvalidParent(parent)
          \/ \E name \in AllNames :
                \/ DirectoryCall(parent, name)
                \/ \E ext \in AllExts : FileCall(parent, name, ext)
    BY DEF DriverCall
<1>2. CASE UNCHANGED disk
    BY <1>2
<1>3. CASE WriteInvalidParent(parent)
    BY <1>2, <1>3 DEF WriteInvalidParent
<1>4. ASSUME NEW name \in AllNames, DirectoryCall(parent, name) PROVE Reached(disk')
    BY <1>2, <1>4, MakeDirectoryReaches, DeleteFolderReaches
       DEF DirectoryCall, MakeDirectoryExists, DeleteNotFound, DeleteFolderRefused
<1>5. ASSUME NEW name \in AllNames, NEW ext \in AllExts, FileCall(parent, name, ext)
      PROVE  Reached(disk')
    <2>1. ASSUME NEW p \in Payloads, StoreFile(parent, name, ext, p) PROVE Reached(disk')
        <3>1. PICK x \in Slots \ {0}, c \in Usable :
                  /\ ~disk[parent].table[x].used
                  /\ Replaces(disk, disk', parent, x, FileEntry(name, ext, p, c))
                  /\ \A f \in Clusters : disk'[f].kind = "dir" <=> disk[f].kind = "dir"
            BY NoneIsRegular, <2>1, StoreFileEffect
        <3> QED
            BY <3>1, FilesReach
    <2>2. ASSUME DeleteFile(parent, name, ext) \/ DeleteFileAstray(parent, name, ext)
          PROVE  Reached(disk')
        <3>1. PICK x \in Slots \ {0} :
                  /\ ~disk[parent].table[x].dir
                  /\ Replaces(disk, disk', parent, x, EmptyEntry)
                  /\ \A f \in Clusters : disk'[f].kind = "dir" <=> disk[f].kind = "dir"
            BY <2>2, DeleteFileEffect
        <3> QED
            BY <3>1, FilesReach
    <2> QED
        BY <1>2, <1>5, <2>1, <2>2 DEF FileCall, ReadDirectory, Read, DeleteNotFound
<1> QED
    BY <1>1, <1>3, <1>4, <1>5

LEMMA StaysReachable == Spec => []Reachable
<1>1. Init => Reachable
    BY Kinds DEF Init, Reachable, Reached, Folders
<1>2. TypeOK /\ DiskInvariant /\ Tidiness /\ Reachable /\ [Next]_vars => Reachable'
    <2> SUFFICES ASSUME TypeOK, DiskInvariant, Tidiness, Reachable, [Next]_vars, mishaps' = {}
                 PROVE  Reached(disk')
        BY DEF Reachable
    <2>1. CASE UNCHANGED vars \/ PowerOff \/ LoadAtBoot
        <3>1. UNCHANGED <<disk, mishaps>>
            BY <2>1 DEF vars, PowerOff, LoadAtBoot
        <3> QED
            BY <3>1 DEF Reachable
    <2>2. CASE FormatAtBoot
        <3>1. Virgin
            BY <2>2 DEF FormatAtBoot, DiskInvariant, Sound, Formatted, Bootable
        <3>2. \A c \in Clusters : disk'[c].kind = "dir" => c = ROOT_CLUSTER_NUMBER
            BY <2>2, <3>1, Kinds, Numbers DEF FormatAtBoot, Virgin
        <3> QED
            BY <3>2 DEF Reached, Descends, Folders
    <2>3. CASE DriverCall
        <3>1. status = "on" /\ mishaps = {}
            BY <2>3, CallsRemember
        <3>2. Ready
            BY <3>1 DEF DiskInvariant, Sound, Virgin, Tidiness, Ready
        <3> QED
            BY <2>3, <3>1, <3>2, CallReaches DEF Reachable
    <2> QED
        BY <2>1, <2>2, <2>3 DEF Next
<1> QED
    BY <1>1, <1>2, TypeCorrect, DiskStaysConsistent, TablesStayTidy, PTL DEF Spec

(* No folder is deleted while it lists something, so every table on the    *)
(* disk can be reached from the root's.                                    *)
THEOREM FoldersStayReachable == Spec => []EveryFolderReachable
<1>1. Reachable => EveryFolderReachable
    BY DEF Reachable, Reached, Descends, Folders, EveryFolderReachable, Listings, EntryAt
<1> QED
    BY <1>1, StaysReachable, PTL

-----------------------------------------------------------------------------
(* What is allocated has an owner: a listing that leads to it, or the      *)
(* cluster of its file before it.                                          *)

OwnerOf(map, d, y) ==
    /\ d[y].kind = "dir" \/ d[y].index = 1 => \E s \in ListingsOn(d) : EntryOn(d, s).cluster = y
    /\ d[y].kind # "dir" /\ d[y].index # 1 => \E z \in Usable : map[z] = y

Owned(map, d) == \A y \in Usable : map[y] # EMPTY => OwnerOf(map, d, y)

NoOrphans == mishaps = {} => Owned(SavedMap, disk)

LEMMA OwnerStays ==
    ASSUME NEW map, NEW d, NEW map2, NEW e, NEW y \in Usable, OwnerOf(map, d, y),
           e[y] = d[y] \/ (e[y].kind = "dir" /\ d[y].kind = "dir"),
           \A s \in ListingsOn(d) : EntryOn(d, s).cluster = y =>
              s \in ListingsOn(e) /\ EntryOn(e, s) = EntryOn(d, s),
           \A z \in Usable : map[z] = y => map2[z] = map[z]
    PROVE  OwnerOf(map2, e, y)
<1>1. ASSUME e[y].kind = "dir" \/ e[y].index = 1
      PROVE  \E s \in ListingsOn(e) : EntryOn(e, s).cluster = y
    <2>1. PICK s \in ListingsOn(d) : EntryOn(d, s).cluster = y
        BY <1>1 DEF OwnerOf
    <2>2. s \in ListingsOn(e) /\ EntryOn(e, s).cluster = y
        BY <2>1
    <2> QED
        BY <2>2
<1>2. ASSUME e[y].kind # "dir", e[y].index # 1
      PROVE  \E z \in Usable : map2[z] = y
    BY <1>2 DEF OwnerOf
<1> QED
    BY <1>1, <1>2 DEF OwnerOf

LEMMA MakeDirectoryOwned ==
    ASSUME Ready, status = "on", Owned(fat, disk), NEW parent \in Clusters, NEW name \in AllNames,
           MakeDirectory(parent, name), mishaps' = {}
    PROVE  Owned(fat', disk')
<1>1. PICK x \in Slots \ {0}, c \in Usable :
          /\ ~disk[parent].table[x].used /\ disk[c] = Blank
          /\ Replaces(disk, disk', parent, x, DirEntry(name, c))
          /\ disk'[c] = Dir(NewTable(name, c))
          /\ \A f \in Clusters \ {c} : disk'[f].kind = "dir" <=> disk[f].kind = "dir"
          /\ RewritesOnly({c}, parent)
    BY NoneIsRegular, MakeDirectoryEffect
<1>2. disk[parent].table \in Tables /\ disk[parent].kind = "dir"
    BY <1>1, ReadyFacts DEF Replaces
<1>3. \A s \in ListingsOn(disk) : s \in ListingsOn(disk') /\ EntryOn(disk', s) = EntryOn(disk, s)
    <2>1. \A f \in Clusters \ {c} : disk'[f].kind = "dir" <=> disk[f].kind = "dir"
        BY <1>1
    <2>2. disk'[c].kind = "dir"
        BY <1>1, Kinds
    <2>3. Replaces(disk, disk', parent, x, DirEntry(name, c))
        BY <1>1
    <2>4. ~disk[parent].table[x].used
        BY <1>1
    <2> QED
        BY <2>1, <2>2, <2>3, <2>4, FoldersKept
<1>4. OwnerOf(fat', disk', c)
    <2>1. /\ DirEntry(name, c).used = TRUE /\ DirEntry(name, c).cluster = c
          /\ disk'[c].kind = "dir"
        BY <1>1, Kinds DEF DirEntry
    <2>2. <<parent, x>> \in ListingsOn(disk') /\ EntryOn(disk', <<parent, x>>) = DirEntry(name, c)
        BY <1>1, <1>2, <2>1, NewListing
    <2> QED
        BY <2>1, <2>2 DEF OwnerOf
<1>5. fat[c] = EMPTY
    BY <1>1, ReadyFacts, Kinds DEF Ready, Formatted, Bootable, WellLinked, KindsAgree, Filled
<1>6. ASSUME NEW y \in Usable, y # c, fat'[y] # EMPTY PROVE OwnerOf(fat', disk', y)
    <2>1. fat'[y] = fat[y] /\ OwnerOf(fat, disk, y)
        BY <1>1, <1>6 DEF RewritesOnly, Owned
    <2>2. disk'[y] = disk[y] \/ (disk'[y].kind = "dir" /\ disk[y].kind = "dir")
        BY <1>1, <1>2, <1>6, Kinds DEF RewritesOnly, Replaces
    <2>3. \A z \in Usable : fat[z] = y => fat'[z] = fat[z]
        BY <1>1, <1>5, Numbers DEF RewritesOnly
    <2> QED
        BY <1>3, <2>1, <2>2, <2>3, OwnerStays
<1> QED
    BY <1>4, <1>6 DEF Owned

LEMMA StoreFileOwned ==
    ASSUME Ready, status = "on", Owned(fat, disk), NEW parent \in Clusters, NEW name \in AllNames,
           NEW ext \in AllExts, NEW p \in Payloads, StoreFile(parent, name, ext, p), mishaps' = {}
    PROVE  Owned(fat', disk')
<1>1. PICK x \in Slots \ {0}, c \in Usable :
          /\ ~disk[parent].table[x].used
          /\ Replaces(disk, disk', parent, x, FileEntry(name, ext, p, c))
          /\ \A f \in Clusters : disk'[f].kind = "dir" <=> disk[f].kind = "dir"
          /\ \E list : LaidOut(list, p) /\ list[1] = c /\ RewritesOnly(Listed(list), parent)
    BY NoneIsRegular, StoreFileEffect
<1>2. disk[parent].table \in Tables /\ disk[parent].kind = "dir"
    BY <1>1, ReadyFacts DEF Replaces
<1>3. \A s \in ListingsOn(disk) : s \in ListingsOn(disk') /\ EntryOn(disk', s) = EntryOn(disk, s)
    <2>1. \A f \in Clusters \ {parent} : disk'[f].kind = "dir" <=> disk[f].kind = "dir"
        BY <1>1
    <2>2. disk'[parent].kind = "dir"
        BY <1>1, <1>2
    <2>3. Replaces(disk, disk', parent, x, FileEntry(name, ext, p, c))
        BY <1>1
    <2>4. ~disk[parent].table[x].used
        BY <1>1
    <2> QED
        BY <2>1, <2>2, <2>3, <2>4, FoldersKept
<1>4. PICK list : LaidOut(list, p) /\ list[1] = c /\ RewritesOnly(Listed(list), parent)
    BY <1>1
<1>5. ASSUME NEW i \in 1 .. Size[p] PROVE OwnerOf(fat', disk', list[i])
    <2>1. disk'[list[i]].kind = "data" /\ disk'[list[i]].index = i
        BY <1>4, <1>5, Kinds DEF LaidOut
    <2>2. CASE i = 1
        <3>1. FileEntry(name, ext, p, c).used = TRUE /\ FileEntry(name, ext, p, c).cluster = c
            BY DEF FileEntry
        <3>2. /\ <<parent, x>> \in ListingsOn(disk')
              /\ EntryOn(disk', <<parent, x>>) = FileEntry(name, ext, p, c)
            BY <1>1, <1>2, <3>1, NewListing
        <3> QED
            BY <1>4, <2>1, <2>2, <3>1, <3>2 DEF OwnerOf
    <2>3. CASE i # 1
        <3>1. i - 1 \in 1 .. Size[p] /\ i - 1 # Size[p] /\ (i - 1) + 1 = i
            BY <2>3, SizeOfPayload
        <3>2. list[i - 1] \in Usable /\ fat'[list[i - 1]] = list[i]
            BY <1>4, <3>1 DEF LaidOut
        <3> QED
            BY <2>1, <2>3, <3>2 DEF OwnerOf
    <2> QED
        BY <2>2, <2>3
<1>6. \A y \in Listed(list) : \E i \in 1 .. Size[p] : y = list[i]
    BY <1>4 DEF Listed, LaidOut
<1>7. \A y \in Listed(list) : OwnerOf(fat', disk', y) /\ fat[y] = EMPTY
    BY <1>4, <1>5, <1>6 DEF LaidOut
<1>8. ASSUME NEW y \in Usable, y \notin Listed(list), fat'[y] # EMPTY PROVE OwnerOf(fat', disk', y)
    <2>1. fat'[y] = fat[y] /\ OwnerOf(fat, disk, y)
        BY <1>4, <1>8 DEF RewritesOnly, Owned
    <2>2. disk'[y] = disk[y] \/ (disk'[y].kind = "dir" /\ disk[y].kind = "dir")
        BY <1>1, <1>2, <1>4, <1>8 DEF RewritesOnly
    <2>3. \A z \in Usable : fat[z] = y => fat'[z] = fat[z]
        BY <1>4, <1>7, Numbers DEF RewritesOnly
    <2> QED
        BY <1>3, <2>1, <2>2, <2>3, OwnerStays
<1> QED
    BY <1>7, <1>8 DEF Owned
LEMMA DeleteFolderOwned ==
    ASSUME Ready, status = "on", Owned(fat, disk), NEW parent \in Clusters, NEW name \in AllNames,
           DeleteFolder(parent, name), mishaps' = {}
    PROVE  Owned(fat', disk')
<1>1. PICK x \in Slots \ {0} : RemovesFolder(parent, name, x)
    BY DeleteFolderEffect
<1> DEFINE c == disk[parent].table[x].cluster
<1>2. /\ c # parent /\ c \in Usable /\ c \in Clusters /\ disk[c].kind = "dir"
      /\ \A i \in Slots \ {0} : ~disk[c].table[i].used
      /\ Replaces(disk, disk', parent, x, EmptyEntry)
      /\ \A f \in Clusters \ {c} : disk'[f].kind = "dir" <=> disk[f].kind = "dir"
      /\ fat'[c] = EMPTY /\ RewritesOnly({c}, parent)
    BY <1>1, Numbers DEF RemovesFolder
<1>3. disk[parent].table \in Tables /\ disk[parent].kind = "dir"
    BY <1>2, ReadyFacts DEF Replaces
<1>4. fat[c] = END_OF_FILE
    BY <1>2, ReadyFacts DEF Ready, Formatted, Bootable, WellLinked, KindsAgree
<1> SUFFICES ASSUME NEW y \in Usable, fat'[y] # EMPTY PROVE OwnerOf(fat', disk', y)
    BY DEF Owned
<1>5. y # c
    BY <1>2
<1>6. ASSUME NEW s \in ListingsOn(disk), EntryOn(disk, s).cluster = y
      PROVE  s \in ListingsOn(disk') /\ EntryOn(disk', s) = EntryOn(disk, s)
    <2>1. s[1] \in Clusters /\ s[2] \in Slots \ {0} /\ disk[s[1]].kind = "dir" /\ disk[s[1]].table[s[2]].used
        BY DEF ListingsOn
    <2>2. s[1] # c
        BY <1>2, <2>1
    <2>3. s # <<parent, x>>
        BY <1>5, <1>6 DEF EntryOn
    <2>4. Replaces(disk, disk', parent, x, EmptyEntry)
        BY <1>2
    <2>5. \A f \in Clusters \ {c} : disk'[f].kind = "dir" <=> disk[f].kind = "dir"
        BY <1>2
    <2> HIDE DEF c
    <2> QED
        BY <2>2, <2>3, <2>4, <2>5, OthersKept
<1>7. fat'[y] = fat[y] /\ OwnerOf(fat, disk, y)
    BY <1>2, <1>5 DEF RewritesOnly, Owned
<1>8. disk'[y] = disk[y] \/ (disk'[y].kind = "dir" /\ disk[y].kind = "dir")
    BY <1>2, <1>3, <1>5, Kinds DEF RewritesOnly, Replaces
<1>9. \A z \in Usable : fat[z] = y => fat'[z] = fat[z]
    BY <1>2, <1>4, Numbers DEF RewritesOnly
<1> QED
    BY <1>6, <1>7, <1>8, <1>9, OwnerStays

LEMMA DeleteFileOwned ==
    ASSUME Ready, status = "on", Owned(fat, disk), NEW parent \in Clusters, NEW name \in AllNames,
           NEW ext \in AllExts, DeleteFile(parent, name, ext) \/ DeleteFileAstray(parent, name, ext),
           mishaps' = {}
    PROVE  Owned(fat', disk')
<1>1. PICK x \in Slots \ {0} :
          /\ disk[parent].table[x].used
          /\ Replaces(disk, disk', parent, x, EmptyEntry)
          /\ \A f \in Clusters : disk'[f].kind = "dir" <=> disk[f].kind = "dir"
          /\ LET gone == Chain(SavedMap, disk[parent].table[x].cluster)
             IN  (\A y \in gone : fat'[y] = EMPTY) /\ RewritesOnly(gone, parent)
    BY DeleteFileEffect
<1> DEFINE c == disk[parent].table[x].cluster
           gone == Chain(fat, c)
<1>2. fat = SavedMap
    BY DEF Ready, Formatted, Bootable
<1>3. /\ Replaces(disk, disk', parent, x, EmptyEntry)
      /\ \A f \in Clusters : disk'[f].kind = "dir" <=> disk[f].kind = "dir"
      /\ \A y \in gone : fat'[y] = EMPTY
      /\ RewritesOnly(gone, parent)
    BY <1>1, <1>2
<1>4. disk[parent].table \in Tables /\ disk[parent].kind = "dir"
    BY <1>3, ReadyFacts DEF Replaces
<1>5. c \in gone /\ \A z \in gone : fat[z] \in Clusters => fat[z] \in gone
    <2>1. <<parent, x>> \in ListingsOn(disk) /\ EntryOn(disk, <<parent, x>>).cluster = c
        BY <1>1, <1>4 DEF ListingsOn, EntryOn
    <2>2. c \in Clusters
        BY <2>1, ListingTarget
    <2> QED
        BY <2>2, ChainBasics DEF Closed
<1> HIDE DEF gone
<1> SUFFICES ASSUME NEW y \in Usable, fat'[y] # EMPTY PROVE OwnerOf(fat', disk', y)
    BY DEF Owned
<1>6. y \notin gone
    BY <1>3
<1>7. ASSUME NEW s \in ListingsOn(disk), EntryOn(disk, s).cluster = y
      PROVE  s \in ListingsOn(disk') /\ EntryOn(disk', s) = EntryOn(disk, s)
    <2>1. s[1] \in Clusters /\ disk[s[1]].kind = "dir"
        BY DEF ListingsOn
    <2>2. s # <<parent, x>>
        BY <1>5, <1>6, <1>7 DEF EntryOn
    <2>3. disk'[s[1]].kind = "dir"
        BY <1>3, <2>1
    <2> QED
        BY <1>3, <1>4, <2>2, <2>3, KeptListing
<1>8. fat'[y] = fat[y] /\ OwnerOf(fat, disk, y)
    BY <1>3, <1>6 DEF RewritesOnly, Owned
<1>9. disk'[y] = disk[y] \/ (disk'[y].kind = "dir" /\ disk[y].kind = "dir")
    BY <1>3, <1>4, <1>6, Kinds DEF RewritesOnly, Replaces
<1>10. \A z \in Usable : fat[z] = y => fat'[z] = fat[z]
    BY <1>3, <1>5, <1>6, Numbers DEF RewritesOnly
<1> QED
    BY <1>7, <1>8, <1>9, <1>10, OwnerStays

LEMMA CallOwned ==
    ASSUME Ready, status = "on", Owned(fat, disk), DriverCall, mishaps' = {}
    PROVE  Owned(fat', disk')
<1>1. PICK parent \in Clusters :
          \/ WriteInvalidParent(parent)
          \/ \E name \in AllNames :
                \/ DirectoryCall(parent, name)
                \/ \E ext \in AllExts : FileCall(parent, name, ext)
    BY DEF DriverCall
<1>2. CASE UNCHANGED <<disk, fat>>
    BY <1>2
<1>3. CASE WriteInvalidParent(parent)
    BY <1>2, <1>3 DEF WriteInvalidParent
<1>4. ASSUME NEW name \in AllNames, DirectoryCall(parent, name) PROVE Owned(fat', disk')
    BY <1>2, <1>4, MakeDirectoryOwned, DeleteFolderOwned
       DEF DirectoryCall, MakeDirectoryExists, DeleteNotFound, DeleteFolderRefused
<1>5. ASSUME NEW name \in AllNames, NEW ext \in AllExts, FileCall(parent, name, ext)
      PROVE  Owned(fat', disk')
    BY <1>2, <1>5, StoreFileOwned, DeleteFileOwned DEF FileCall, ReadDirectory, Read, DeleteNotFound
<1> QED
    BY <1>1, <1>3, <1>4, <1>5

LEMMA StaysOn ==
    ASSUME DriverCall
    PROVE  status' # "off"
<1>1. PICK parent \in Clusters :
          \/ WriteInvalidParent(parent)
          \/ \E name \in AllNames :
                \/ DirectoryCall(parent, name)
                \/ \E ext \in AllExts : FileCall(parent, name, ext)
    BY DEF DriverCall
<1>2. CASE WriteInvalidParent(parent)
    BY <1>2 DEF WriteInvalidParent
<1>3. ASSUME NEW name \in AllNames, DirectoryCall(parent, name) PROVE status' # "off"
    BY <1>3 DEF DirectoryCall, MakeDirectoryExists, MakeDirectory, DeleteNotFound,
                DeleteFolderRefused, DeleteFolder
<1>4. ASSUME NEW name \in AllNames, NEW ext \in AllExts, FileCall(parent, name, ext)
      PROVE  status' # "off"
    BY <1>4 DEF FileCall, ReadDirectory, Read, StoreFile, StoreFileIn, DeleteNotFound, DeleteFile, DeleteFileAstray
<1> QED
    BY <1>1, <1>2, <1>3, <1>4

LEMMA StaysOwned == Spec => []NoOrphans
<1>1. Init => NoOrphans
    <2> SUFFICES ASSUME Init PROVE Owned(SavedMap, disk)
        BY DEF NoOrphans
    <2>1. SavedMap = NoMap
        BY Numbers, Kinds DEF Init, SavedMap, MapOn
    <2> QED
        BY <2>1, Numbers DEF NoMap, Owned
<1>2. /\ TypeOK /\ DiskInvariant /\ Tidiness /\ NoOrphans
      /\ TypeOK' /\ DiskInvariant' /\ [Next]_vars
      => NoOrphans'
    <2> SUFFICES ASSUME TypeOK, DiskInvariant, TypeOK', DiskInvariant', Tidiness, NoOrphans,
                        [Next]_vars, mishaps' = {}
                 PROVE  Owned(SavedMap', disk')
        BY DEF NoOrphans
    <2>1. CASE UNCHANGED vars \/ PowerOff \/ LoadAtBoot
        <3>1. UNCHANGED <<disk, mishaps>>
            BY <2>1 DEF vars, PowerOff, LoadAtBoot
        <3>2. SavedMap' = SavedMap
            BY <3>1 DEF SavedMap
        <3> QED
            BY <3>1, <3>2 DEF NoOrphans
    <2>2. CASE FormatAtBoot
        <3>1. SavedMap' = FormattedMap
            BY <2>2, Numbers, Kinds DEF FormatAtBoot, TypeOK, SavedMap, MapOn
        <3>2. \A y \in Usable : FormattedMap[y] = EMPTY
            BY Numbers DEF FormattedMap
        <3> QED
            BY <3>1, <3>2 DEF Owned
    <2>3. CASE DriverCall
        <3>1. status = "on" /\ mishaps = {}
            BY <2>3, CallsRemember
        <3>2. Ready /\ fat = SavedMap
            BY <3>1 DEF DiskInvariant, Sound, Virgin, Tidiness, Ready, Formatted, Bootable
        <3>3. Owned(fat', disk')
            BY <2>3, <3>1, <3>2, CallOwned DEF NoOrphans
        <3>4. fat' = SavedMap'
            <4>1. status' # "off"
                BY <2>3, StaysOn
            <4> QED
                BY <4>1 DEF DiskInvariant, Sound, Virgin, Formatted, Bootable, TypeOK
        <3> QED
            BY <3>3, <3>4
    <2> QED
        BY <2>1, <2>2, <2>3 DEF Next
<1> QED
    BY <1>1, <1>2, TypeCorrect, DiskStaysConsistent, TablesStayTidy, PTL DEF Spec
(* What is allocated lies on the chain of a listing: going back from a     *)
(* file's cluster to its first leads to the listing.                       *)
LEMMA OwnedIsListed ==
    ASSUME NEW map \in Maps, NEW d \in [Clusters -> Content],
           WellLinked(map, d), Filled(map, d), Owned(map, d),
           NEW y \in Usable, map[y] # EMPTY
    PROVE  \E s \in ListingsOn(d) : y \in Chain(map, EntryOn(d, s).cluster)
<1> DEFINE Found(z) == \E s \in ListingsOn(d) : z \in Chain(map, EntryOn(d, s).cluster)
           Lost == {z \in Usable : map[z] # EMPTY /\ ~Found(z)}
           I == {i \in Nat : \E z \in Lost : d[z].index = i}
<1>1. ASSUME NEW z \in Lost
      PROVE  /\ d[z].kind = "data" /\ d[z].index \in Nat
             /\ \E w \in Lost : d[w].index < d[z].index
    <2>1. /\ z \in Usable /\ z \in Clusters /\ map[z] # EMPTY /\ ~Found(z)
          /\ OwnerOf(map, d, z) /\ d[z].kind \in {"dir", "data"}
        BY <1>1, Numbers DEF Owned, Filled
    <2>2. ~ \E s \in ListingsOn(d) : EntryOn(d, s).cluster = z
        <3> SUFFICES ASSUME NEW s \in ListingsOn(d), EntryOn(d, s).cluster = z PROVE FALSE
            OBVIOUS
        <3>1. z \in Chain(map, EntryOn(d, s).cluster)
            BY <2>1, ChainBasics
        <3> QED
            BY <2>1, <3>1
    <2> HIDE DEF Found
    <2>3. PICK w \in Usable : map[w] = z /\ d[z].kind = "data"
        BY <2>1, <2>2 DEF OwnerOf
    <2>4. w \in Clusters /\ map[w] # EMPTY /\ map[w] # END_OF_FILE
        BY <2>1, <2>3, Numbers
    <2>5. d[w].kind = "data" /\ d[w].payload \in Payloads /\ d[w].index \in 1 .. MaxSize
        BY <2>3, <2>4, Parts DEF WellLinked, KindsAgree, Filled
    <2>6. d[z] = Data(d[w].payload, d[w].index + 1)
        BY <2>3, <2>4, <2>5 DEF WellLinked, DataInOrder
    <2>7. d[z].index = d[w].index + 1 /\ d[w].index \in Nat /\ d[z].index \in Nat
        BY <2>5, <2>6, Kinds, SizeAssumption
    <2>8. ~Found(w)
        <3> SUFFICES ASSUME Found(w) PROVE Found(z)
            BY <2>1
        <3>1. PICK s \in ListingsOn(d) : w \in Chain(map, EntryOn(d, s).cluster)
            BY DEF Found
        <3>2. EntryOn(d, s).cluster \in Clusters
            BY ListingChain, Numbers
        <3>3. z \in Chain(map, EntryOn(d, s).cluster)
            BY <2>1, <2>3, <3>1, <3>2, ChainBasics DEF Closed
        <3> QED
            BY <3>3 DEF Found
    <2> QED
        BY <2>3, <2>4, <2>7, <2>8
<1> SUFFICES ASSUME y \in Lost PROVE FALSE
    OBVIOUS
<1> HIDE DEF Lost
<1>2. I \in SUBSET Nat /\ I # {}
    BY <1>1
<1>3. PICK i \in I : \A j \in I : i <= j
    <2> HIDE DEF I
    <2> QED
        BY <1>2, LeastNumber
<1>4. PICK z \in Lost : d[z].index = i /\ i \in Nat
    BY <1>3
<1>5. PICK w \in Lost : d[w].index < i
    BY <1>1, <1>4
<1>6. d[w].index \in I
    BY <1>1, <1>5
<1> QED
    BY <1>3, <1>4, <1>5, <1>6

(* Delete gives back all that write took: what is allocated belongs to an  *)
(* entry.                                                                  *)
THEOREM NothingIsLost == Spec => []NothingLeaks
<1>1. TypeOK /\ DiskInvariant /\ NoOrphans => NothingLeaks
    <2> SUFFICES ASSUME TypeOK, DiskInvariant, NoOrphans, mishaps = {}
                 PROVE  Usable \ Free(SavedMap) = UNION {ChainAt(s) : s \in Listings}
        BY DEF NothingLeaks
    <2>1. CASE Virgin
        <3>1. SavedMap = NoMap /\ Listings = {}
            BY <2>1, Numbers, Kinds DEF Virgin, SavedMap, MapOn, Listings, ListingsOn
        <3>2. Usable \ Free(SavedMap) = {}
            BY <3>1, Numbers DEF NoMap, Free
        <3> QED
            BY <3>1, <3>2
    <2>2. CASE Formatted
        <3>1. /\ SavedMap \in Maps /\ disk \in [Clusters -> Content]
              /\ WellLinked(SavedMap, disk) /\ Filled(SavedMap, disk)
            BY <2>2, FormattedDisk DEF Formatted
        <3>2. \A s \in Listings : ChainAt(s) \subseteq Usable \ Free(SavedMap)
            BY <3>1, ListingChain DEF Listings, ChainAt, EntryAt, Free
        <3>3. \A y \in Usable \ Free(SavedMap) : \E s \in Listings : y \in ChainAt(s)
            BY <3>1, OwnedIsListed DEF NoOrphans, Free, Listings, ChainAt, EntryAt
        <3> QED
            BY <3>2, <3>3
    <2> QED
        BY <2>1, <2>2 DEF DiskInvariant, Sound
<1> QED
    BY <1>1, TypeCorrect, DiskStaysConsistent, StaysOwned, PTL
-----------------------------------------------------------------------------
(* Files read back: what read copies.                                      *)

WalkFrom(map, c, n, at) ==
    at = [k \in 1 .. n |-> IF k = 1 THEN c
                           ELSE IF at[k - 1] \in Clusters THEN map[at[k - 1]] ELSE END_OF_FILE]

LEMMA WalkExists ==
    ASSUME NEW map, NEW c, NEW n \in Nat
    PROVE  \E at : WalkFrom(map, c, n, at)
<1> DEFINE S == {m \in Nat : ~ \E at : WalkFrom(map, c, m, at)}
<1> SUFFICES ASSUME S # {} PROVE FALSE
    OBVIOUS
<1>1. PICK m \in S : \A j \in S : m <= j
    <2> S \in SUBSET Nat
        OBVIOUS
    <2> HIDE DEF S
    <2> QED
        BY LeastNumber
<1>2. m \in Nat /\ ~ \E at : WalkFrom(map, c, m, at)
    OBVIOUS
<1>3. CASE m = 0
    <2> DEFINE at == [k \in 1 .. m |-> c]
    <2>1. 1 .. m = {}
        BY <1>3
    <2>2. WalkFrom(map, c, m, at)
        BY <2>1 DEF WalkFrom
    <2> QED
        BY <1>2, <2>2
<1>4. CASE m # 0
    <2>1. m - 1 \in Nat /\ m - 1 \notin S
        BY <1>1, <1>2, <1>4
    <2>2. PICK before : WalkFrom(map, c, m - 1, before)
        BY <2>1
    <2> DEFINE Next1(at, k) == IF k = 1 THEN c
                               ELSE IF at[k - 1] \in Clusters THEN map[at[k - 1]] ELSE END_OF_FILE
               at == [k \in 1 .. m |-> Next1(before, k)]
    <2>3. ASSUME NEW k \in 1 .. m, k # 1 PROVE at[k - 1] = before[k - 1]
        <3>1. k - 1 \in 1 .. m - 1 /\ k - 1 \in 1 .. m
            BY <1>2, <2>3
        <3>2. before[k - 1] = Next1(before, k - 1)
            BY <2>2, <3>1 DEF WalkFrom
        <3> QED
            BY <3>1, <3>2
    <2>4. \A k \in 1 .. m : Next1(before, k) = Next1(at, k)
        BY <2>3
    <2>5. at = [k \in 1 .. m |-> Next1(at, k)]
        BY <2>4
    <2>6. WalkFrom(map, c, m, at)
        BY <2>5 DEF WalkFrom
    <2> QED
        BY <1>2, <2>6
<1> QED
    BY <1>3, <1>4

LEMMA WalkSteps ==
    ASSUME NEW map, NEW c, NEW n \in Nat
    PROVE  WalkFrom(map, c, n, Walk(map, c, n))
<1>1. Walk(map, c, n) = CHOOSE at : WalkFrom(map, c, n, at)
    BY Zenon DEF Walk, WalkFrom
<1>2. \E at : WalkFrom(map, c, n, at)
    BY WalkExists
<1> QED
    BY <1>1, <1>2, Zenon
(* The walk from a file's first cluster passes its clusters in order.      *)
LEMMA WalkInOrder ==
    ASSUME NEW map \in Maps, NEW d \in [Clusters -> Content], WellLinked(map, d),
           NEW c \in Usable, NEW p \in Payloads, d[c] = Data(p, 1)
    PROVE  \A k \in 1 .. Size[p] : /\ Walk(map, c, Size[p])[k] \in Clusters
                                   /\ d[Walk(map, c, Size[p])[k]] = Data(p, k)
<1> DEFINE n == Size[p]
           at == Walk(map, c, n)
           Right(k) == at[k] \in Usable /\ d[at[k]] = Data(p, k)
           Wrong == {k \in 1 .. n : ~Right(k)}
<1>1. n \in Nat /\ n >= 1 /\ n \in 1 .. MaxSize
    BY SizeOfPayload
<1>2. at = [k \in 1 .. n |-> IF k = 1 THEN c
                             ELSE IF at[k - 1] \in Clusters THEN map[at[k - 1]] ELSE END_OF_FILE]
    BY <1>1, WalkSteps DEF WalkFrom
<1> HIDE DEF at
<1>3. Wrong = {}
    <2> SUFFICES ASSUME Wrong # {} PROVE FALSE
        OBVIOUS
    <2>1. Wrong \in SUBSET Nat
        BY <1>1
    <2>2. PICK k \in Wrong : \A j \in Wrong : k <= j
        <3> HIDE DEF Wrong
        <3> QED
            BY <2>1, LeastNumber
    <2>3. k \in 1 .. n /\ ~Right(k)
        OBVIOUS
    <2>4. k # 1
        BY <1>1, <1>2, <2>3
    <2>5. k - 1 \in 1 .. n /\ k - 1 # n /\ (k - 1) + 1 = k /\ k - 1 \notin Wrong
        BY <1>1, <2>2, <2>3, <2>4
    <2> DEFINE x == at[k - 1]
    <2>6. x \in Usable /\ x \in Clusters /\ d[x] = Data(p, k - 1)
        BY <2>5, Numbers
    <2>7. at[k] = map[x]
        BY <1>2, <2>3, <2>4, <2>6
    <2> HIDE DEF x
    <2>8. d[x].kind = "data" /\ d[x].payload = p /\ d[x].index = k - 1
        BY <2>6, Kinds
    <2>9. map[x] \in Usable /\ d[map[x]] = Data(p, k)
        BY <2>5, <2>6, <2>8 DEF WellLinked, DataInOrder
    <2> QED
        BY <2>3, <2>7, <2>9
<1>4. \A k \in 1 .. n : at[k] \in Clusters /\ d[at[k]] = Data(p, k)
    <2> SUFFICES ASSUME NEW k \in 1 .. n PROVE at[k] \in Clusters /\ d[at[k]] = Data(p, k)
        OBVIOUS
    <2>1. Right(k)
        BY <1>3
    <2> QED
        BY <2>1, Numbers
<1> QED
    BY <1>4 DEF at

LEMMA ReadBackOnDisk ==
    ASSUME TypeOK, Virgin \/ Bootable
    PROVE  ReadBack
<1> SUFFICES ASSUME NEW s \in Listings, ~EntryAt(s).dir
             PROVE  \E p \in Payloads :
                       /\ EntryAt(s).size = Size[p]
                       /\ FileContents(SavedMap, EntryAt(s).cluster, Size[p])
                             = [k \in 1 .. Size[p] |-> Data(p, k)]
    BY DEF ReadBack
<1> DEFINE c == EntryAt(s).cluster
           p == disk[c].payload
<1>1. /\ SavedMap \in Maps /\ disk \in [Clusters -> Content]
      /\ WellLinked(SavedMap, disk) /\ s \in ListingsOn(disk)
    BY InvariantListings
<1>2. /\ c \in Usable /\ c \in Clusters /\ disk[c].kind = "data" /\ disk[c].index = 1
      /\ EntryAt(s).size = Size[p]
    BY <1>1, Numbers DEF WellLinked, EntriesOwn, EntryAt
<1>3. p \in Payloads /\ disk[c] = Data(p, 1)
    BY <1>1, <1>2, Parts
<1> HIDE DEF c, p
<1>4. \A k \in 1 .. Size[p] : /\ Walk(SavedMap, c, Size[p])[k] \in Clusters
                              /\ disk[Walk(SavedMap, c, Size[p])[k]] = Data(p, k)
    BY <1>1, <1>2, <1>3, WalkInOrder
<1>5. FileContents(SavedMap, c, Size[p]) = [k \in 1 .. Size[p] |-> Data(p, k)]
    BY <1>4 DEF FileContents
<1> QED
    BY <1>2, <1>3, <1>5 DEF c, p

(* A file reads back as the payload it was written from, in order.         *)
THEOREM FilesReadBack == Spec => []ReadBack
<1>1. TypeOK /\ DiskInvariant => ReadBack
    BY InvariantLinks, ReadBackOnDisk DEF ReadBack
<1> QED
    BY <1>1, TypeCorrect, DiskStaysConsistent, PTL

-----------------------------------------------------------------------------
(* The file store on the disk, in the terms of the driver.                 *)

LEMMA StoredWhenReady ==
    ASSUME NEW d, d[BOOT_SECTOR] = Boot
    PROVE  FoldersStored(d) = [c \in Folders(d) |-> FolderStored(d, c)]
BY DEF FoldersStored, Folders

LEMMA StoreOperators ==
    ASSUME Ready, NEW h \in Clusters
    PROVE  /\ Store!IsFolder(h) <=> disk[h].kind = "dir"
           /\ Store!IsFolder(h) <=> IsDirectory(h)
           /\ \A name : Store!IsOwnName(h, name) <=> IsDirectory(h) /\ Table(h)[0].name = name
           /\ IsDirectory(h) =>
                 \A x \in Slots \ {0} : Store!Entries(h, x) = EntryStored(disk, Table(h)[x])
<1>1. FoldersStored(disk) = [c \in Folders(disk) |-> FolderStored(disk, c)]
    BY ReadyFacts, StoredWhenReady
<1>2. Store!IsFolder(h) <=> disk[h].kind = "dir"
    BY <1>1 DEF Store!IsFolder, Folders
<1>3. IsDirectory(h) <=> disk[h].kind = "dir"
    BY ReadyFacts
<1>4. IsDirectory(h) => FoldersStored(disk)[h] = FolderStored(disk, h) /\ disk[h].table = Table(h)
    BY <1>1, <1>3, ReadyFacts DEF Folders
<1>5. \A name : Store!IsOwnName(h, name) <=> IsDirectory(h) /\ Table(h)[0].name = name
    BY <1>2, <1>3, <1>4 DEF Store!IsOwnName, FolderStored
<1>6. ASSUME IsDirectory(h), NEW x \in Slots \ {0}
      PROVE  Store!Entries(h, x) = EntryStored(disk, Table(h)[x])
    BY <1>4, <1>6 DEF Store!Entries, FolderStored
<1> QED
    BY <1>2, <1>3, <1>5, <1>6

LEMMA StoredKinds ==
    ASSUME NEW d, NEW entry
    PROVE  /\ EntryStored(d, entry) = Store!Nothing <=> ~entry.used
           /\ EntryStored(d, entry).kind = "folder" <=> entry.used /\ entry.dir
           /\ EntryStored(d, entry).kind = "file" <=> entry.used /\ ~entry.dir
           /\ entry.used => EntryStored(d, entry).name = entry.name
           /\ entry.used /\ entry.dir =>
                 EntryStored(d, entry) = Store!Folder(entry.name, entry.cluster)
                 /\ EntryStored(d, entry).handle = entry.cluster
           /\ entry.used /\ ~entry.dir =>
                 /\ EntryStored(d, entry) = Store!File(entry.name, entry.ext, d[entry.cluster].payload)
                 /\ EntryStored(d, entry).ext = entry.ext
                 /\ EntryStored(d, entry).contents = d[entry.cluster].payload
BY DEF EntryStored, Store!Nothing, Store!Folder, Store!File

(* A slot of the parent's table with a folder or a file is one of the file *)
(* store's places for it, and the reverse.                                 *)
LEMMA StorePlaces ==
    ASSUME Ready, NEW h \in Clusters, NEW name, NEW ext
    PROVE  /\ Store!FoldersNamed(h, name)
                 = {x \in Slots \ {0} : Table(h)[x].used /\ Table(h)[x].dir /\ Table(h)[x].name = name}
           /\ Store!FilesNamed(h, name, ext)
                 = {x \in Slots \ {0} : /\ Table(h)[x].used /\ ~Table(h)[x].dir
                                        /\ Table(h)[x].name = name /\ Table(h)[x].ext = ext}
<1>1. ASSUME NEW x \in Slots \ {0}, Table(h)[x].used PROVE IsDirectory(h)
    BY <1>1, ReadyFacts DEF EmptyTable, EmptyEntry
<1>2. ASSUME NEW x \in Slots \ {0}
      PROVE  x \in Store!FoldersNamed(h, name)
                <=> Table(h)[x].used /\ Table(h)[x].dir /\ Table(h)[x].name = name
    BY <1>1, StoreOperators, StoredKinds DEF Store!FoldersNamed
<1>3. ASSUME NEW x \in Slots \ {0}
      PROVE  x \in Store!FilesNamed(h, name, ext)
                <=> /\ Table(h)[x].used /\ ~Table(h)[x].dir
                    /\ Table(h)[x].name = name /\ Table(h)[x].ext = ext
    BY <1>1, StoreOperators, StoredKinds DEF Store!FilesNamed
<1>4. Store!FoldersNamed(h, name) \subseteq Slots \ {0} /\ Store!FilesNamed(h, name, ext) \subseteq Slots \ {0}
    BY DEF Store!FoldersNamed, Store!FilesNamed
<1> QED
    BY <1>2, <1>3, <1>4

(* Replacing one slot of one table is one Put of the file store.           *)
LEMMA OthersStored ==
    ASSUME Ready, NEW parent \in Clusters, NEW x, NEW entry,
           Replaces(disk, disk', parent, x, entry),
           NEW f \in Folders(disk), NEW i \in Slots \ {0}, <<f, i>> # <<parent, x>>
    PROVE  EntryStored(disk', disk[f].table[i]) = EntryStored(disk, disk[f].table[i])
<1> DEFINE e == disk[f].table[i]
           s == <<f, i>>
<1>1. CASE e.used /\ ~e.dir
    <2>1. s \in ListingsOn(disk) /\ EntryOn(disk, s) = e
        BY <1>1 DEF ListingsOn, EntryOn, Folders
    <2>2. disk'[e.cluster] = disk[e.cluster]
        BY <1>1, <2>1 DEF Replaces
    <2> QED
        BY <2>2 DEF EntryStored
<1>2. CASE ~(e.used /\ ~e.dir)
    BY <1>2 DEF EntryStored
<1> QED
    BY <1>1, <1>2

LEMMA PutStored ==
    ASSUME Ready, NEW parent \in Clusters, NEW x, NEW entry,
           Replaces(disk, disk', parent, x, entry)
    PROVE  /\ FoldersStored(disk') = [c \in Folders(disk') |-> FolderStored(disk', c)]
           /\ FoldersStored(disk) = [c \in Folders(disk) |-> FolderStored(disk, c)]
           /\ parent \in Folders(disk) /\ parent \in Folders(disk')
           /\ \A f \in Folders(disk) \cap Folders(disk') :
                 FolderStored(disk', f) = Store!Put(parent, x, EntryStored(disk', entry))[f]
           /\ DOMAIN Store!Put(parent, x, EntryStored(disk', entry)) = Folders(disk)
<1> DEFINE put == Store!Put(parent, x, EntryStored(disk', entry))
<1>1. /\ FoldersStored(disk') = [c \in Folders(disk') |-> FolderStored(disk', c)]
      /\ FoldersStored(disk) = [c \in Folders(disk) |-> FolderStored(disk, c)]
    BY ReadyFacts, StoredWhenReady DEF Replaces
<1>2. parent \in Folders(disk) /\ parent \in Folders(disk') /\ x \in Slots \ {0}
    BY Kinds DEF Replaces, Folders
<1>3. /\ DOMAIN put = Folders(disk)
      /\ \A f \in Folders(disk) \ {parent} : put[f] = FolderStored(disk, f)
      /\ put[parent] = [FolderStored(disk, parent) EXCEPT !.entries[x] = EntryStored(disk', entry)]
    BY <1>1, <1>2 DEF Store!Put
<1>4. ASSUME NEW f \in Folders(disk) \cap Folders(disk'), f # parent
      PROVE  FolderStored(disk', f) = put[f]
    <2>1. disk'[f] = disk[f]
        BY <1>4 DEF Replaces, Folders
    <2>2. \A i \in Slots \ {0} :
             EntryStored(disk', disk[f].table[i]) = EntryStored(disk, disk[f].table[i])
        BY <1>4, OthersStored
    <2>3. [i \in Slots \ {0} |-> EntryStored(disk', disk'[f].table[i])]
             = [i \in Slots \ {0} |-> EntryStored(disk, disk[f].table[i])]
        BY <2>1, <2>2
    <2>4. FolderStored(disk', f) = FolderStored(disk, f)
        BY <2>1, <2>3 DEF FolderStored
    <2> QED
        BY <1>3, <1>4, <2>4
<1>5. FolderStored(disk', parent) = put[parent]
    <2> DEFINE t == disk[parent].table
               u == disk'[parent].table
    <2>1. u = [t EXCEPT ![x] = entry] /\ t \in Tables
        BY <1>2, ReadyFacts, Kinds DEF Replaces, Folders
    <2>2. u[0] = t[0] /\ u[x] = entry /\ \A i \in Slots \ {x} : u[i] = t[i]
        BY <1>2, <2>1, Numbers DEF Tables
    <2>3. \A i \in Slots \ {0} :
             EntryStored(disk', u[i]) = IF i = x THEN EntryStored(disk', entry) ELSE EntryStored(disk, t[i])
        BY <1>2, <2>2, OthersStored
    <2>4. FolderStored(disk', parent) =
             [name |-> t[0].name, entries |-> [i \in Slots \ {0} |-> EntryStored(disk', u[i])]]
        BY <2>2 DEF FolderStored
    <2>5. FolderStored(disk, parent) =
             [name |-> t[0].name, entries |-> [i \in Slots \ {0} |-> EntryStored(disk, t[i])]]
        BY DEF FolderStored
    <2>6. put[parent] = [name |-> t[0].name,
                         entries |-> [[i \in Slots \ {0} |-> EntryStored(disk, t[i])]
                                         EXCEPT ![x] = EntryStored(disk', entry)]]
        <3> DEFINE g == [i \in Slots \ {0} |-> EntryStored(disk, t[i])]
        <3>1. put[parent] = [[name |-> t[0].name, entries |-> g]
                                EXCEPT !.entries = [g EXCEPT ![x] = EntryStored(disk', entry)]]
            BY <1>3, <2>5
        <3> HIDE DEF g
        <3>2. put[parent] = [name |-> t[0].name, entries |-> [g EXCEPT ![x] = EntryStored(disk', entry)]]
            BY <3>1
        <3> QED
            BY <3>2 DEF g
    <2>7. [[i \in Slots \ {0} |-> EntryStored(disk, t[i])] EXCEPT ![x] = EntryStored(disk', entry)]
             = [i \in Slots \ {0} |-> EntryStored(disk', u[i])]
        BY <1>2, <2>3
    <2> QED
        BY <2>4, <2>6, <2>7
<1> QED
    BY <1>1, <1>2, <1>3, <1>4, <1>5

LEMMA PutIsFunction ==
    ASSUME NEW h, NEW x, NEW entry
    PROVE  Store!Put(h, x, entry) = [f \in DOMAIN Store!Put(h, x, entry) |-> Store!Put(h, x, entry)[f]]
BY DEF Store!Put

-----------------------------------------------------------------------------
(* Each call does what the file store promises.  First those that change   *)
(* nothing on the disk.                                                    *)

LEMMA AnswersStored ==
    ASSUME UNCHANGED disk, NEW code, Return(code)
    PROVE  Store!Answers(code)
BY DEF Store!Answers, Return

(* The first slot that a request matches, when it is not the folder's own. *)
LEMMA FoundSlot ==
    ASSUME NEW t, NEW name, NEW ext
    PROVE  /\ First(Matching(t, name, ext)) # 0 =>
                 LET x == First(Matching(t, name, ext))
                 IN  x \in Slots \ {0} /\ t[x].name = name /\ t[x].ext = ext
           /\ First(Named(t, name)) # 0 =>
                 LET x == First(Named(t, name)) IN x \in Slots \ {0} /\ t[x].name = name
           /\ First(Matching(t, name, ext)) = 0 =>
                 \/ t[0].name = name /\ t[0].ext = ext
                 \/ \A x \in Slots : ~(t[x].name = name /\ t[x].ext = ext)
           /\ First(Named(t, name)) = 0 => t[0].name = name \/ \A x \in Slots : t[x].name # name
<1>1. Matching(t, name, ext) \in SUBSET Nat /\ Named(t, name) \in SUBSET Nat
    BY Numbers DEF Matching, Named
<1>2. /\ First(Matching(t, name, ext)) # 0 =>
            First(Matching(t, name, ext)) \in Matching(t, name, ext)
      /\ First(Named(t, name)) # 0 => First(Named(t, name)) \in Named(t, name)
      /\ First(Matching(t, name, ext)) = 0 =>
            0 \in Matching(t, name, ext) \/ Matching(t, name, ext) = {}
      /\ First(Named(t, name)) = 0 => 0 \in Named(t, name) \/ Named(t, name) = {}
    BY <1>1, FirstIn
<1> HIDE DEF First
<1>3. \A x : x \in Named(t, name) <=> x \in Slots /\ t[x].name = name
    BY DEF Named
<1>4. \A x : x \in Matching(t, name, ext) <=> x \in Slots /\ t[x].name = name /\ t[x].ext = ext
    BY DEF Named, Matching
<1> QED
    BY <1>2, <1>3, <1>4

(* In a folder's table slots are used, named and typed alike.              *)
LEMMA SlotFacts ==
    ASSUME Ready, NEW h \in Clusters
    PROVE  /\ \A x \in Slots : Table(h)[x].name # NoName => Table(h)[x].used /\ IsDirectory(h)
           /\ \A x \in Slots : Table(h)[x].dir => /\ Table(h)[x].used /\ IsDirectory(h)
                                                  /\ Table(h)[x].ext = NoExt
           /\ \A x \in Slots : Table(h)[x].ext \in AllExts
           /\ IsDirectory(h) => Table(h)[0].dir
           /\ \A i, j \in Slots : i # j /\ Table(h)[i].dir /\ Table(h)[j].dir
                                    => Table(h)[i].name # Table(h)[j].name
<1>1. EmptyEntry.name = NoName /\ EmptyEntry.dir = FALSE /\ EmptyEntry.used = FALSE
    BY DEF EmptyEntry
<1>2. \A x \in Slots : Table(h)[x].ext \in AllExts
    BY TableTyped DEF Ready, Tables, Entry
<1>3. CASE IsDirectory(h)
    <2>1. Tidy(Table(h))
        BY <1>3, ReadyFacts
    <2>2. \A x \in Slots : Table(h)[x].dir => Table(h)[x].used
        BY <1>1, <2>1 DEF Tidy
    <2>3. \A x \in Slots : Table(h)[x].name # NoName => Table(h)[x].used
        BY <1>1, <2>1 DEF Tidy
    <2> QED
        BY <1>2, <1>3, <2>1, <2>2, <2>3 DEF Tidy
<1>4. CASE ~IsDirectory(h)
    <2>1. \A x \in Slots : Table(h)[x] = EmptyEntry
        BY <1>4, ReadyFacts DEF EmptyTable
    <2> QED
        BY <1>1, <1>2, <1>4, <2>1
<1> QED
    BY <1>3, <1>4

LEMMA ReadDirectoryStored ==
    ASSUME Ready, NEW h \in Clusters, NEW name \in AllNames, NEW ext \in AllExts,
           ReadDirectory(h, name, ext)
    PROVE  Store!ReadDirectory(h, name, ext)
<1> DEFINE t == Table(h)
           full == Matching(t, name, ext) \ {0}
           x == First(full)
<1>1. \A code : ReadDirectoryCode(t, name, ext) = code => Store!Answers(code)
    BY AnswersStored DEF ReadDirectory
<1>2. CASE full # {}
    <2>1. x \in full
        BY <1>2, FirstIn, Numbers DEF Matching, Named
    <2>2. x \in Slots \ {0} /\ t[x].name = name /\ t[x].ext = ext
        BY <2>1 DEF Matching, Named
    <2> HIDE DEF full, x
    <2>3. CASE t[x].dir
        <3>1. ReadDirectoryCode(t, name, ext) = 0
            BY <1>2, <2>3 DEF ReadDirectoryCode, full, x
        <3>2. ext = NoExt /\ t[x].used
            BY <2>2, <2>3, SlotFacts
        <3>3. x \in Store!FoldersNamed(h, name)
            BY <2>2, <2>3, <3>2, StorePlaces
        <3> QED
            BY <1>1, <3>1, <3>2, <3>3 DEF Store!ReadDirectory
    <2>4. CASE ~t[x].dir
        <3>1. ReadDirectoryCode(t, name, ext) = 1
            BY <1>2, <2>4 DEF ReadDirectoryCode, full, x
        <3>2. name # NoName => x \in Store!FilesNamed(h, name, ext)
            BY <2>2, <2>4, SlotFacts, StorePlaces
        <3>3. name = NoName \/ Store!SomeFile(h, name)
            BY <3>2 DEF Store!SomeFile
        <3> QED
            BY <1>1, <3>1, <3>3 DEF Store!ReadDirectory
    <2> QED
        BY <2>3, <2>4
<1>3. CASE full = {} /\ Named(t, name) \ {0} # {}
    <2>1. ReadDirectoryCode(t, name, ext) = 1
        BY <1>3 DEF ReadDirectoryCode
    <2>2. PICK y \in Slots \ {0} : t[y].name = name /\ t[y].ext # ext
        BY <1>3 DEF Named, Matching
    <2>3. CASE name = NoName
        BY <1>1, <2>1, <2>3 DEF Store!ReadDirectory
    <2>4. CASE name # NoName /\ t[y].dir
        <3>1. ext # NoExt /\ t[y].used
            BY <2>2, <2>4, SlotFacts
        <3>2. y \in Store!FoldersNamed(h, name)
            BY <2>2, <2>4, <3>1, StorePlaces
        <3> QED
            BY <1>1, <2>1, <3>1, <3>2 DEF Store!ReadDirectory
    <2>5. CASE name # NoName /\ ~t[y].dir
        <3>1. t[y].ext \in AllExts /\ y \in Store!FilesNamed(h, name, t[y].ext)
            BY <2>2, <2>5, SlotFacts, StorePlaces
        <3>2. Store!SomeFile(h, name)
            BY <3>1 DEF Store!SomeFile
        <3> QED
            BY <1>1, <2>1, <3>2 DEF Store!ReadDirectory
    <2> QED
        BY <2>3, <2>4, <2>5
<1>4. CASE full = {} /\ Named(t, name) \ {0} = {}
    <2>1. ReadDirectoryCode(t, name, ext) = 2
        BY <1>4 DEF ReadDirectoryCode
    <2>2. \A y \in Slots \ {0} : t[y].name # name
        BY <1>4 DEF Named
    <2>3. Store!FoldersNamed(h, name) = {} /\ \A e : Store!FilesNamed(h, name, e) = {}
        BY <2>2, StorePlaces
    <2> QED
        BY <1>1, <2>1, <2>3 DEF Store!ReadDirectory, Store!SomeFile
<1> QED
    BY <1>2, <1>3, <1>4

LEMMA ReadStored ==
    ASSUME Ready, NEW h \in Clusters, NEW name \in AllNames, NEW ext \in AllExts,
           NEW buffer \in 0 .. MaxSize, Read(h, name, ext, buffer), mishaps' = {}
    PROVE  Store!Read(h, name, ext, buffer) /\ UNCHANGED status
<1> DEFINE t == Table(h)
           x == First(Matching(t, name, ext))
<1>1. /\ UNCHANGED disk
      /\ x # 0 => t[x].used
      /\ \/ x = 0 /\ Return(3) /\ UNCHANGED status
         \/ x # 0 /\ t[x].dir /\ Return(1) /\ UNCHANGED status
         \/ x # 0 /\ ~t[x].dir /\ buffer < t[x].size /\ Return(2) /\ UNCHANGED status
         \/ /\ x # 0 /\ ~t[x].dir /\ buffer >= t[x].size
            /\ Ends(fat, t[x].cluster) => Return(0) /\ UNCHANGED status
    BY NoMishap DEF Read
<1>2. \A code : Return(code) => Store!Answers(code)
    BY <1>1, AnswersStored
<1>3. CASE x = 0
    <2>1. Return(3) /\ UNCHANGED status
        BY <1>1, <1>3
    <2>2. CASE t[0].name = name /\ t[0].ext = ext
        <3>1. CASE IsDirectory(h)
            <4>1. ext = NoExt /\ Store!IsOwnName(h, name)
                BY <2>2, <3>1, SlotFacts, StoreOperators, Numbers
            <4> QED
                BY <1>2, <2>1, <4>1 DEF Store!Read
        <3>2. CASE ~IsDirectory(h)
            <4>1. Store!FilesNamed(h, name, ext) = {} /\ Store!FoldersNamed(h, name) = {}
                BY <3>2, SlotFacts, StorePlaces, StoreOperators DEF Store!FilesNamed, Store!FoldersNamed
            <4> QED
                BY <1>2, <2>1, <4>1 DEF Store!Read
        <3> QED
            BY <3>1, <3>2
    <2>3. CASE \A y \in Slots : ~(t[y].name = name /\ t[y].ext = ext)
        <3>1. Store!FilesNamed(h, name, ext) = {}
            BY <2>3, StorePlaces
        <3>2. ext # NoExt \/ Store!FoldersNamed(h, name) = {}
            BY <2>3, SlotFacts, StorePlaces
        <3> QED
            BY <1>2, <2>1, <3>1, <3>2 DEF Store!Read
    <2> QED
        BY <1>3, <2>2, <2>3, FoundSlot
<1>4. CASE x # 0
    <2>1. x \in Slots \ {0} /\ t[x].name = name /\ t[x].ext = ext /\ t[x].used
        BY <1>1, <1>4, FoundSlot
    <2> HIDE DEF x
    <2>2. CASE t[x].dir
        <3>1. ext = NoExt /\ Store!FoldersNamed(h, name) # {}
            BY <2>1, <2>2, SlotFacts, StorePlaces
        <3> QED
            BY <1>1, <1>2, <1>4, <2>2, <3>1 DEF Store!Read
    <2>3. CASE ~t[x].dir
        <3>1. x \in Store!FilesNamed(h, name, ext)
            BY <2>1, <2>3, StorePlaces
        <3>2. <<h, x>> \in ListingsOn(disk) /\ EntryOn(disk, <<h, x>>) = t[x]
            BY <2>1, FoundListing DEF Ready
        <3>3. t[x].size = Size[disk[t[x].cluster].payload] /\ Ends(SavedMap, t[x].cluster)
            BY <2>3, <3>2, ListingTarget
        <3>4. fat = SavedMap
            BY DEF Ready, Formatted, Bootable, Read
        <3>5. IsDirectory(h)
            BY <2>1, ReadyFacts DEF EmptyTable, EmptyEntry
        <3>6. Store!Entries(h, x).contents = disk[t[x].cluster].payload
            BY <2>1, <2>3, <3>5, StoreOperators, StoredKinds
        <3>7. Return(IF buffer < Size[Store!Entries(h, x).contents] THEN 2 ELSE 0) /\ UNCHANGED status
            <4>1. disk[t[x].cluster].payload \in Payloads
                BY <2>3, <3>2, ListingTarget
            <4>2. t[x].size \in Nat /\ buffer \in Int
                BY <3>3, <4>1, SizeOfPayload
            <4>3. Ends(fat, t[x].cluster)
                BY <3>3, <3>4
            <4>4. CASE buffer < t[x].size
                BY <1>1, <1>4, <2>3, <3>3, <3>6, <4>2, <4>4
            <4>5. CASE ~(buffer < t[x].size)
                BY <1>1, <1>4, <2>3, <3>3, <3>6, <4>2, <4>3, <4>5
            <4> QED
                BY <4>4, <4>5
        <3> QED
            BY <1>2, <3>1, <3>7 DEF Store!Read
    <2> QED
        BY <2>2, <2>3
<1> QED
    BY <1>3, <1>4

LEMMA InvalidParentStored ==
    ASSUME Ready, NEW h \in Clusters, NEW name, NEW ext, NEW p, WriteInvalidParent(h)
    PROVE  Store!MakeFolder(h, name) /\ Store!StoreFile(h, name, ext, p)
<1>1. ~Store!IsFolder(h) /\ Store!Answers(2)
    BY StoreOperators, AnswersStored DEF WriteInvalidParent
<1> QED
    BY <1>1 DEF Store!MakeFolder, Store!StoreFile

LEMMA FolderExistsStored ==
    ASSUME Ready, NEW h \in Clusters, NEW name \in AllNames, MakeDirectoryExists(h, name)
    PROVE  Store!MakeFolder(h, name)
<1>1. PICK x \in Slots : Table(h)[x].name = name /\ Table(h)[x].dir
    BY DEF MakeDirectoryExists, FolderExists, Named
<1>2. Store!Answers(1) /\ IsDirectory(h)
    BY AnswersStored DEF MakeDirectoryExists
<1>3. CASE x = 0
    BY <1>1, <1>2, <1>3, StoreOperators DEF Store!MakeFolder
<1>4. CASE x # 0
    <2>1. x \in Store!FoldersNamed(h, name)
        BY <1>1, <1>4, SlotFacts, StorePlaces
    <2> QED
        BY <1>2, <2>1 DEF Store!MakeFolder
<1> QED
    BY <1>3, <1>4

LEMMA FolderNotFoundStored ==
    ASSUME Ready, NEW h \in Clusters, NEW name \in AllNames, DeleteNotFound(h, name, NoExt, TRUE)
    PROVE  Store!DeleteFolder(h, name)
<1>1. First(Named(Table(h), name)) = 0 /\ Store!Answers(1)
    BY AnswersStored DEF DeleteNotFound, TargetSlot
<1>2. ASSUME NEW x \in Store!FoldersNamed(h, name) PROVE FALSE
    <2>1. x \in Slots \ {0} /\ Table(h)[x].dir /\ Table(h)[x].name = name
        BY <1>2, StorePlaces
    <2>2. Table(h)[0].dir /\ Table(h)[0].name # name
        BY <2>1, SlotFacts, Numbers
    <2> QED
        BY <1>1, <2>1, <2>2, FoundSlot
<1> QED
    BY <1>1, <1>2 DEF Store!DeleteFolder

LEMMA FileNotFoundStored ==
    ASSUME Ready, NEW h \in Clusters, NEW name \in AllNames, NEW ext \in AllExts,
           DeleteNotFound(h, name, ext, FALSE)
    PROVE  Store!DeleteFile(h, name, ext)
<1>1. First(Matching(Table(h), name, ext)) = 0 /\ Store!Answers(1)
    BY AnswersStored DEF DeleteNotFound, TargetSlot
<1>2. CASE Store!FilesNamed(h, name, ext) = {}
    BY <1>1, <1>2 DEF Store!DeleteFile
<1>3. CASE Store!FilesNamed(h, name, ext) # {}
    <2>1. PICK x \in Slots \ {0} : Table(h)[x].used /\ Table(h)[x].name = name /\ Table(h)[x].ext = ext
        BY <1>3, StorePlaces
    <2>2. IsDirectory(h)
        BY <2>1, ReadyFacts DEF EmptyTable, EmptyEntry
    <2>3. Table(h)[0].name = name /\ Table(h)[0].ext = ext
        BY <1>1, <2>1, FoundSlot
    <2>4. ext = NoExt /\ Store!IsOwnName(h, name)
        BY <2>2, <2>3, SlotFacts, StoreOperators, Numbers
    <2> QED
        BY <1>1, <2>4 DEF Store!DeleteFile
<1> QED
    BY <1>2, <1>3

(* A folder is empty for the file store just when delete finds it so.      *)
LEMMA EmptyStored ==
    ASSUME Ready, NEW c \in Clusters, disk[c].kind = "dir"
    PROVE  Store!IsEmpty(c) <=> \A i \in Slots \ {0} : ~disk[c].table[i].used
BY ReadyFacts, StoreOperators, StoredKinds DEF Store!IsEmpty

LEMMA FolderRefusedStored ==
    ASSUME Ready, NEW h \in Clusters, NEW name \in AllNames, DeleteFolderRefused(h, name)
    PROVE  Store!DeleteFolder(h, name)
<1> DEFINE t == Table(h)
           x == First(Named(t, name))
           c == t[x].cluster
<1>1. x \in Slots \ {0} /\ t[x].name = name
    BY FoundSlot DEF DeleteFolderRefused, TargetSlot
<1>2. \/ name \in RootLike /\ Store!Answers(-1)
      \/ name \notin RootLike /\ ~ListsNothing(disk[c]) /\ Store!Answers(2)
    BY AnswersStored DEF DeleteFolderRefused, TargetSlot
<1>3. NoName \notin RootLike
    BY NameAssumption
<1> HIDE DEF x
<1>4. CASE name = NoName
    BY <1>2, <1>3, <1>4 DEF Store!DeleteFolder
<1>5. CASE name # NoName /\ t[x].dir
    <2>1. x \in Store!FoldersNamed(h, name) /\ t[x].used
        BY <1>1, <1>5, SlotFacts, StorePlaces
    <2>2. CASE name \in RootLike
        BY <1>2, <2>1, <2>2 DEF Store!DeleteFolder
    <2>3. CASE name \notin RootLike
        <3>1. /\ <<h, x>> \in ListingsOn(disk) /\ EntryOn(disk, <<h, x>>) = t[x] /\ IsDirectory(h)
            BY <1>1, <2>1, FoundListing, StoreOperators, ReadyFacts DEF Ready, EmptyTable, EmptyEntry
        <3>2. c \in Clusters /\ disk[c].kind = "dir"
            BY <1>5, <3>1, ListingTarget
        <3>3. PICK i \in Slots \ {0} : disk[c].table[i].name # NoName
            BY <1>2, <2>3, <3>2 DEF ListsNothing
        <3>4. disk[c].table[i].used
            BY <3>2, <3>3, SlotFacts, ReadyFacts
        <3>5. ~Store!IsEmpty(c)
            BY <3>2, <3>4, EmptyStored
        <3>6. Store!Entries(h, x).handle = c
            BY <1>1, <1>5, <2>1, <3>1, StoreOperators, StoredKinds
        <3> QED
            BY <1>2, <2>1, <2>3, <3>5, <3>6 DEF Store!DeleteFolder
    <2> QED
        BY <2>2, <2>3
<1>6. CASE name # NoName /\ ~t[x].dir
    <2>1. t[x].ext \in AllExts /\ x \in Store!FilesNamed(h, name, t[x].ext)
        BY <1>1, <1>6, SlotFacts, StorePlaces
    <2>2. Store!SomeFile(h, name)
        BY <2>1 DEF Store!SomeFile
    <2> QED
        BY <1>2, <2>2 DEF Store!DeleteFolder
<1> QED
    BY <1>4, <1>5, <1>6

-----------------------------------------------------------------------------
(* The calls that change the disk.                                         *)

LEMMA MakeDirectoryStored ==
    ASSUME Ready, NEW h \in Clusters, NEW name \in AllNames,
           MakeDirectory(h, name), mishaps' = {}
    PROVE  Store!MakeFolder(h, name)
<1>1. PICK x \in Slots \ {0}, c \in Usable :
          /\ ~disk[h].table[x].used /\ disk[c] = Blank /\ c # h
          /\ Replaces(disk, disk', h, x, DirEntry(name, c))
          /\ disk'[c] = Dir(NewTable(name, c))
          /\ \A f \in Clusters \ {c} : disk'[f].kind = "dir" <=> disk[f].kind = "dir"
    BY NoneIsRegular, MakeDirectoryEffect
<1>2. c \in Clusters /\ c \notin Folders(disk) /\ Folders(disk') = Folders(disk) \cup {c}
    <2>1. c \in Clusters /\ disk[c].kind # "dir" /\ disk'[c].kind = "dir"
        BY <1>1, Numbers, Kinds
    <2>2. \A f \in Clusters : disk'[f].kind = "dir" <=> disk[f].kind = "dir" \/ f = c
        BY <1>1, <2>1
    <2> QED
        BY <2>1, <2>2 DEF Folders
<1>3. /\ IsDirectory(h) /\ Table(h) = disk[h].table
      /\ \A i \in Slots : Table(h)[i].dir => Table(h)[i].name # name
    BY DirectoryTable DEF MakeDirectory, FolderExists, Named
<1>4. Store!IsFolder(h) /\ ~Store!IsOwnName(h, name) /\ Store!FoldersNamed(h, name) = {}
    <2>1. Table(h)[0].dir /\ Table(h)[0].name # name
        BY <1>3, SlotFacts, Numbers
    <2>2. Store!IsFolder(h) /\ ~Store!IsOwnName(h, name)
        BY <1>3, <2>1, StoreOperators
    <2>3. ASSUME NEW y \in Store!FoldersNamed(h, name) PROVE FALSE
        BY <1>3, <2>3, StorePlaces
    <2> QED
        BY <2>2, <2>3
<1>5. Store!Entries(h, x) = Store!Nothing
    BY <1>1, <1>3, StoreOperators, StoredKinds
<1>6. FolderStored(disk', c) = Store!NewFolder(name)
    <2>1. disk'[c].table = NewTable(name, c)
        BY <1>1, Kinds
    <2>2. NewTable(name, c)[0].name = name /\ \A i \in Slots \ {0} : ~NewTable(name, c)[i].used
        BY Numbers DEF NewTable, DirEntry, EmptyEntry
    <2>3. \A i \in Slots \ {0} : EntryStored(disk', disk'[c].table[i]) = Store!Nothing
        BY <2>1, <2>2, StoredKinds
    <2> QED
        BY <2>1, <2>2, <2>3 DEF FolderStored, Store!NewFolder
<1>7. EntryStored(disk', DirEntry(name, c)) = Store!Folder(name, c)
    BY DEF EntryStored, DirEntry, Store!Folder
<1>8. FoldersStored(disk') = [f \in DOMAIN FoldersStored(disk) \cup {c} |->
                                 IF f = c THEN Store!NewFolder(name)
                                 ELSE Store!Put(h, x, Store!Folder(name, c))[f]]
    <2> DEFINE put == Store!Put(h, x, Store!Folder(name, c))
    <2>1. /\ FoldersStored(disk') = [f \in Folders(disk') |-> FolderStored(disk', f)]
          /\ DOMAIN FoldersStored(disk) = Folders(disk)
          /\ \A f \in Folders(disk) \cap Folders(disk') : FolderStored(disk', f) = put[f]
        BY <1>1, <1>7, PutStored
    <2> HIDE DEF put
    <2>2. \A f \in Folders(disk) \cup {c} :
             FolderStored(disk', f) = IF f = c THEN Store!NewFolder(name) ELSE put[f]
        BY <1>2, <1>6, <2>1
    <2>3. FoldersStored(disk') = [f \in Folders(disk) \cup {c} |->
                                     IF f = c THEN Store!NewFolder(name) ELSE put[f]]
        BY <1>2, <2>1, <2>2
    <2> QED
        BY <2>1, <2>3 DEF put
<1>9. c \in Clusters \ DOMAIN FoldersStored(disk)
    BY <1>1, <1>2, PutStored
<1>10. ret' = 0
    BY DEF MakeDirectory, Return
<1> QED
    BY <1>4, <1>5, <1>8, <1>9, <1>10 DEF Store!MakeFolder

LEMMA StoreFileStored ==
    ASSUME Ready, NEW h \in Clusters, NEW name \in AllNames, NEW ext \in AllExts,
           NEW p \in Payloads, StoreFile(h, name, ext, p), mishaps' = {}
    PROVE  Store!StoreFile(h, name, ext, p)
<1>1. PICK x \in Slots \ {0}, c \in Usable :
          /\ ~disk[h].table[x].used
          /\ Replaces(disk, disk', h, x, FileEntry(name, ext, p, c))
          /\ disk'[c].payload = p
          /\ \A f \in Clusters : disk'[f].kind = "dir" <=> disk[f].kind = "dir"
    BY NoneIsRegular, StoreFileEffect
<1>2. Folders(disk') = Folders(disk)
    BY <1>1 DEF Folders
<1>3. IsDirectory(h) /\ Table(h) = disk[h].table
    BY DirectoryTable DEF StoreFile, StoreFileIn
<1>4. Store!IsFolder(h) /\ Store!Entries(h, x) = Store!Nothing
    BY <1>1, <1>3, StoreOperators, StoredKinds
<1>5. EntryStored(disk', FileEntry(name, ext, p, c)) = Store!File(name, ext, p)
    BY <1>1 DEF EntryStored, FileEntry, Store!File
<1>6. FoldersStored(disk') = Store!Put(h, x, Store!File(name, ext, p))
    <2>1. /\ DOMAIN Store!Put(h, x, Store!File(name, ext, p)) = Folders(disk)
          /\ \A f \in Folders(disk) : FolderStored(disk', f) = Store!Put(h, x, Store!File(name, ext, p))[f]
          /\ FoldersStored(disk') = [f \in Folders(disk) |-> FolderStored(disk', f)]
        BY <1>1, <1>2, <1>5, PutStored
    <2>2. Store!Put(h, x, Store!File(name, ext, p))
             = [f \in Folders(disk) |-> Store!Put(h, x, Store!File(name, ext, p))[f]]
        BY <2>1, PutIsFunction
    <2>3. [f \in Folders(disk) |-> FolderStored(disk', f)]
             = [f \in Folders(disk) |-> Store!Put(h, x, Store!File(name, ext, p))[f]]
        BY <2>1
    <2> QED
        BY <2>1, <2>2, <2>3
<1>7. ret' = 0
    BY DEF StoreFile, StoreFileIn, Return
<1> QED
    BY <1>4, <1>6, <1>7 DEF Store!StoreFile

LEMMA DeleteFileStored ==
    ASSUME Ready, NEW h \in Clusters, NEW name \in AllNames, NEW ext \in AllExts,
           DeleteFile(h, name, ext) \/ DeleteFileAstray(h, name, ext), mishaps' = {}
    PROVE  Store!DeleteFile(h, name, ext) /\ UNCHANGED status
<1>1. PICK x \in Slots \ {0} :
          /\ disk[h].table[x].used /\ ~disk[h].table[x].dir
          /\ disk[h].table[x].name = name /\ disk[h].table[x].ext = ext
          /\ Replaces(disk, disk', h, x, EmptyEntry)
          /\ \A f \in Clusters : disk'[f].kind = "dir" <=> disk[f].kind = "dir"
    BY DeleteFileEffect
<1>2. Folders(disk') = Folders(disk)
    BY <1>1 DEF Folders
<1>3. disk[h].kind = "dir" /\ Table(h) = disk[h].table
    BY <1>1, ReadyFacts DEF Replaces
<1>4. x \in Store!FilesNamed(h, name, ext)
    BY <1>1, <1>3, StorePlaces
<1>5. EntryStored(disk', EmptyEntry) = Store!Nothing
    BY StoredKinds DEF EmptyEntry
<1>6. FoldersStored(disk') = Store!Put(h, x, Store!Nothing)
    <2>1. /\ DOMAIN Store!Put(h, x, Store!Nothing) = Folders(disk)
          /\ \A f \in Folders(disk) : FolderStored(disk', f) = Store!Put(h, x, Store!Nothing)[f]
          /\ FoldersStored(disk') = [f \in Folders(disk) |-> FolderStored(disk', f)]
        BY <1>1, <1>2, <1>5, PutStored
    <2>2. Store!Put(h, x, Store!Nothing) = [f \in Folders(disk) |-> Store!Put(h, x, Store!Nothing)[f]]
        BY <2>1, PutIsFunction
    <2>3. [f \in Folders(disk) |-> FolderStored(disk', f)]
             = [f \in Folders(disk) |-> Store!Put(h, x, Store!Nothing)[f]]
        BY <2>1
    <2> QED
        BY <2>1, <2>2, <2>3
<1>7. ret' = 0 /\ UNCHANGED status
    BY DeleteFileEffect DEF DeleteFile, Return
<1> QED
    BY <1>4, <1>6, <1>7 DEF Store!DeleteFile

LEMMA DeleteFolderStored ==
    ASSUME Ready, NEW h \in Clusters, NEW name \in AllNames,
           DeleteFolder(h, name), mishaps' = {}
    PROVE  Store!DeleteFolder(h, name)
<1>0. PICK x \in Slots \ {0} : RemovesFolder(h, name, x)
    BY DeleteFolderEffect
<1> DEFINE c == disk[h].table[x].cluster
<1>1. /\ disk[h].table[x].used /\ disk[h].table[x].dir
      /\ disk[h].table[x].name = name
      /\ c # h /\ c \in Usable /\ disk[c].kind = "dir"
      /\ \A i \in Slots \ {0} : ~disk[c].table[i].used
      /\ Replaces(disk, disk', h, x, EmptyEntry)
      /\ disk'[c] = Blank
      /\ \A f \in Clusters \ {c} : disk'[f].kind = "dir" <=> disk[f].kind = "dir"
    BY <1>0 DEF RemovesFolder
<1>2. c \in Clusters /\ Folders(disk') = Folders(disk) \ {c}
    <2>1. c \in Clusters /\ disk'[c].kind # "dir"
        BY <1>1, Numbers, Kinds
    <2>2. \A f \in Clusters : disk'[f].kind = "dir" <=> disk[f].kind = "dir" /\ f # c
        BY <1>1, <2>1
    <2> HIDE DEF c
    <2> QED
        BY <2>1, <2>2 DEF Folders
<1>3. disk[h].kind = "dir" /\ IsDirectory(h) /\ Table(h) = disk[h].table
    BY <1>1, ReadyFacts DEF Replaces
<1>4. x \in Store!FoldersNamed(h, name)
    BY <1>1, <1>3, StorePlaces
<1>5. Store!Entries(h, x).handle = c
    BY <1>1, <1>3, StoreOperators, StoredKinds
<1>6. Store!IsEmpty(c)
    BY <1>1, <1>2, EmptyStored
<1>7. EntryStored(disk', EmptyEntry) = Store!Nothing
    BY StoredKinds DEF EmptyEntry
<1>8. FoldersStored(disk') = [f \in DOMAIN FoldersStored(disk) \ {c} |-> Store!Put(h, x, Store!Nothing)[f]]
    <2> DEFINE put == Store!Put(h, x, Store!Nothing)
    <2>1. /\ FoldersStored(disk') = [f \in Folders(disk') |-> FolderStored(disk', f)]
          /\ DOMAIN FoldersStored(disk) = Folders(disk)
          /\ \A f \in Folders(disk) \cap Folders(disk') : FolderStored(disk', f) = put[f]
        BY <1>1, <1>7, PutStored
    <2> HIDE DEF put, c
    <2>2. \A f \in Folders(disk) \ {c} : FolderStored(disk', f) = put[f]
        BY <1>2, <2>1
    <2>3. FoldersStored(disk') = [f \in Folders(disk) \ {c} |-> put[f]]
        BY <1>2, <2>1, <2>2
    <2> QED
        BY <2>1, <2>3 DEF put
<1>9. ret' = 0 /\ name \notin RootLike
    BY DEF DeleteFolder, Return
<1> QED
    BY <1>4, <1>5, <1>6, <1>8, <1>9 DEF Store!DeleteFolder

-----------------------------------------------------------------------------
(* Power.                                                                  *)

LEMMA PowerStored ==
    ASSUME TypeOK, DiskInvariant, mishaps = {}
    PROVE  /\ PowerOff /\ request' = [call |-> "none"] => Store!SwitchOff
           /\ (FormatAtBoot \/ LoadAtBoot) /\ UNCHANGED request => Store!SwitchOn
<1>1. status # "hung"
    BY DEF DiskInvariant, Sound, Virgin, Formatted, Bootable
<1>2. ASSUME PowerOff, request' = [call |-> "none"] PROVE Store!SwitchOff
    <2>1. status = "on" /\ status' = "off" /\ Return(0) /\ UNCHANGED disk
        BY <1>1, <1>2 DEF PowerOff
    <2> QED
        BY <1>2, <2>1, AnswersStored DEF Store!SwitchOff, Store!NoRequest
<1>3. ASSUME LoadAtBoot, UNCHANGED request PROVE Store!SwitchOn
    BY <1>3 DEF LoadAtBoot, Store!SwitchOn
<1>4. ASSUME FormatAtBoot, UNCHANGED request PROVE Store!SwitchOn
    <2>1. Virgin
        BY <1>4 DEF FormatAtBoot, DiskInvariant, Sound, Formatted, Bootable
    <2>2. /\ status = "off" /\ status' = "on" /\ UNCHANGED ret
          /\ disk'[BOOT_SECTOR] = Boot
          /\ disk'[ROOT_CLUSTER_NUMBER] = Dir(NewTable(RootName, ROOT_CLUSTER_NUMBER))
          /\ \A c \in Clusters \ {ROOT_CLUSTER_NUMBER} : disk'[c].kind # "dir"
        BY <1>4, <2>1, Numbers, Kinds DEF FormatAtBoot, Virgin
    <2>3. Folders(disk') = {ROOT_CLUSTER_NUMBER}
        <3>1. ROOT_CLUSTER_NUMBER \in Clusters /\ disk'[ROOT_CLUSTER_NUMBER].kind = "dir"
            BY <2>2, Numbers, Kinds
        <3>2. \A c \in Clusters : disk'[c].kind = "dir" <=> c = ROOT_CLUSTER_NUMBER
            BY <2>2, <3>1
        <3> QED
            BY <3>1, <3>2 DEF Folders
    <2>4. FolderStored(disk', ROOT_CLUSTER_NUMBER)
             = [name |-> RootName, entries |-> [i \in Slots \ {0} |-> [kind |-> "nothing"]]]
        <3> DEFINE t == NewTable(RootName, ROOT_CLUSTER_NUMBER)
        <3>1. disk'[ROOT_CLUSTER_NUMBER].table = t
            BY <2>2, Kinds
        <3>2. t[0].name = RootName /\ \A i \in Slots \ {0} : ~t[i].used
            BY Numbers DEF NewTable, DirEntry, EmptyEntry
        <3> HIDE DEF t
        <3>3. \A i \in Slots \ {0} : EntryStored(disk', t[i]) = [kind |-> "nothing"]
            BY <3>2 DEF EntryStored
        <3> QED
            BY <3>1, <3>2, <3>3 DEF FolderStored
    <2>5. FoldersStored(disk') = [c \in {ROOT_CLUSTER_NUMBER} |->
              [name |-> RootName, entries |-> [i \in Slots \ {0} |-> [kind |-> "nothing"]]]]
        BY <2>2, <2>3, <2>4, StoredWhenReady
    <2>6. disk[BOOT_SECTOR] # Boot
        BY <1>4 DEF FormatAtBoot
    <2>7. FoldersStored(disk) = [c \in {ROOT_CLUSTER_NUMBER} |->
              [name |-> RootName, entries |-> [i \in Slots \ {0} |-> [kind |-> "nothing"]]]]
        BY <2>6 DEF FoldersStored
    <2> QED
        BY <1>4, <2>2, <2>5, <2>7 DEF Store!SwitchOn
<1> QED
    BY <1>2, <1>3, <1>4

-----------------------------------------------------------------------------
(* Putting the calls together.                                             *)

LEMMA RequestsAreCalls ==
    ASSUME NEW parent \in Clusters, NEW name \in AllNames, NEW ext \in AllExts
    PROVE  FolderRequest(parent, name) \/ FileRequest(parent, name, ext) => DriverCall
<1>1. FolderRequest(parent, name) => WriteInvalidParent(parent) \/ DirectoryCall(parent, name)
    BY DEF FolderRequest, DirectoryCall
<1>2. FileRequest(parent, name, ext) => WriteInvalidParent(parent) \/ FileCall(parent, name, ext)
    BY DEF FileRequest, FileCall
<1> QED
    BY <1>1, <1>2 DEF DriverCall

LEMMA RequestStep == [RequestNext]_requestVars => [Next]_vars
<1> SUFFICES ASSUME [RequestNext]_requestVars PROVE [Next]_vars
    OBVIOUS
<1>1. CASE UNCHANGED requestVars
    BY <1>1 DEF requestVars, vars
<1>2. ASSUME NEW parent \in Clusters, NEW name \in AllNames,
             \/ FolderRequest(parent, name)
             \/ \E ext \in AllExts : FileRequest(parent, name, ext)
      PROVE  Next
    <2>1. NoExt \in AllExts
        BY DEF AllExts
    <2> QED
        BY <1>2, <2>1, RequestsAreCalls DEF Next
<1>3. CASE PowerOff \/ FormatAtBoot \/ LoadAtBoot
    BY <1>3 DEF Next
<1> QED
    BY <1>1, <1>2, <1>3 DEF RequestNext

LEMMA RequestsStayReady == RequestSpec => [](TypeOK /\ DiskInvariant /\ Tidiness)
<1>1. RequestInit => Init
    BY DEF RequestInit
<1>2. RequestSpec => Spec
    BY <1>1, RequestStep, PTL DEF RequestSpec, Spec
<1> QED
    BY <1>2, TypeCorrect, DiskStaysConsistent, TablesStayTidy, PTL

LEMMA FolderRequestStored ==
    ASSUME Ready, status = "on", mishaps' = {},
           NEW h \in Clusters, NEW name \in AllNames, FolderRequest(h, name)
    PROVE  Store!Call
<1>1. CASE /\ \/ WriteInvalidParent(h) \/ MakeDirectoryExists(h, name) \/ MakeDirectory(h, name)
           /\ Makes("makeFolder", h, name)
    <2> DEFINE r == [call |-> "makeFolder", folder |-> h, name |-> name]
    <2>1. Store!MakeFolder(h, name)
        BY <1>1, InvalidParentStored, FolderExistsStored, MakeDirectoryStored
    <2>2. status' = "on"
        BY <1>1 DEF WriteInvalidParent, MakeDirectoryExists, MakeDirectory
    <2>3. r \in Store!Requests /\ request' = r /\ Store!Performs(r)
        BY <1>1, <2>1 DEF Store!Requests, Store!Performs, Makes
    <2> QED
        BY <2>2, <2>3 DEF Store!Call
<1>2. CASE /\ \/ DeleteNotFound(h, name, NoExt, TRUE) \/ DeleteFolderRefused(h, name)
              \/ DeleteFolder(h, name)
           /\ Makes("deleteFolder", h, name)
    <2> DEFINE r == [call |-> "deleteFolder", folder |-> h, name |-> name]
    <2>1. Store!DeleteFolder(h, name)
        BY <1>2, FolderNotFoundStored, FolderRefusedStored, DeleteFolderStored
    <2>2. status' = "on"
        BY <1>2 DEF DeleteNotFound, DeleteFolderRefused, DeleteFolder
    <2>3. r \in Store!Requests /\ request' = r /\ Store!Performs(r)
        BY <1>2, <2>1 DEF Store!Requests, Store!Performs, Makes
    <2> QED
        BY <2>2, <2>3 DEF Store!Call
<1> QED
    BY <1>1, <1>2 DEF FolderRequest

LEMMA FileRequestStored ==
    ASSUME Ready, status = "on", mishaps' = {},
           NEW h \in Clusters, NEW name \in AllNames, NEW ext \in AllExts, FileRequest(h, name, ext)
    PROVE  Store!Call
<1>1. CASE ReadDirectory(h, name, ext) /\ MakesWith("readDirectory", h, name, ext)
    <2> DEFINE r == [call |-> "readDirectory", folder |-> h, name |-> name, ext |-> ext]
    <2>1. Store!ReadDirectory(h, name, ext) /\ status' = "on"
        BY <1>1, ReadDirectoryStored DEF ReadDirectory
    <2>2. r \in Store!Requests /\ request' = r /\ Store!Performs(r)
        BY <1>1, <2>1 DEF Store!Requests, Store!Performs, MakesWith
    <2> QED
        BY <2>1, <2>2 DEF Store!Call
<1>2. ASSUME NEW buffer \in 0 .. MaxSize,
             Read(h, name, ext, buffer) /\ Reads(h, name, ext, buffer)
      PROVE  Store!Call
    <2> DEFINE r == [call |-> "read", folder |-> h, name |-> name, ext |-> ext, buffer |-> buffer]
    <2>1. Store!Read(h, name, ext, buffer) /\ status' = "on"
        BY <1>2, ReadStored
    <2>2. r \in Store!Requests /\ request' = r /\ Store!Performs(r)
        BY <1>2, <2>1 DEF Store!Requests, Store!Performs, Reads
    <2> QED
        BY <2>1, <2>2 DEF Store!Call
<1>3. ASSUME NEW p \in Payloads,
             WriteInvalidParent(h) \/ StoreFile(h, name, ext, p), Stores(h, name, ext, p)
      PROVE  Store!Call
    <2> DEFINE r == [call |-> "storeFile", folder |-> h, name |-> name, ext |-> ext, data |-> p]
    <2>1. Store!StoreFile(h, name, ext, p)
        BY <1>3, InvalidParentStored, StoreFileStored
    <2>2. status' = "on"
        BY <1>3 DEF WriteInvalidParent, StoreFile, StoreFileIn
    <2>3. r \in Store!Requests /\ request' = r /\ Store!Performs(r)
        BY <1>3, <2>1 DEF Store!Requests, Store!Performs, Stores
    <2> QED
        BY <2>2, <2>3 DEF Store!Call
<1>4. CASE /\ \/ DeleteNotFound(h, name, ext, FALSE) \/ DeleteFile(h, name, ext)
              \/ DeleteFileAstray(h, name, ext)
           /\ MakesWith("deleteFile", h, name, ext)
    <2> DEFINE r == [call |-> "deleteFile", folder |-> h, name |-> name, ext |-> ext]
    <2>1. Store!DeleteFile(h, name, ext)
        BY <1>4, FileNotFoundStored, DeleteFileStored
    <2>2. status' = "on"
        BY <1>4, DeleteFileStored DEF DeleteNotFound
    <2>3. r \in Store!Requests /\ request' = r /\ Store!Performs(r)
        BY <1>4, <2>1 DEF Store!Requests, Store!Performs, MakesWith
    <2> QED
        BY <2>2, <2>3 DEF Store!Call
<1> QED
    BY <1>1, <1>2, <1>3, <1>4 DEF FileRequest

(* The initial disk holds an empty file store, and every step of the       *)
(* driver is one of the file store, leaves it as it is, or breaks a rule.  *)
THEOREM FileStoreImplemented == RequestSpec => ImplementsFileStore
<1>1. RequestInit => Store!Init
    <2> SUFFICES ASSUME RequestInit PROVE Store!Init
        OBVIOUS
    <2>1. disk[BOOT_SECTOR] # Boot
        BY Numbers, Kinds DEF RequestInit, Init
    <2>2. FoldersStored(disk) = [c \in {ROOT_CLUSTER_NUMBER} |->
              [name |-> RootName, entries |-> [i \in Slots \ {0} |-> [kind |-> "nothing"]]]]
        BY <2>1 DEF FoldersStored
    <2> QED
        BY <2>2 DEF RequestInit, Init, Store!Init, Store!NewFolder, Store!Nothing, Store!NoRequest
<1>2. TypeOK /\ DiskInvariant /\ Tidiness /\ [RequestNext]_requestVars
         => [Store!Next]_(Store!storeVars)
    <2> SUFFICES ASSUME TypeOK, DiskInvariant, Tidiness, [RequestNext]_requestVars
                 PROVE  Store!Next \/ UNCHANGED Store!storeVars
        OBVIOUS
    <2>1. CASE UNCHANGED requestVars
        BY <2>1 DEF requestVars, Store!storeVars
    <2>2. CASE mishaps' # {}
        BY <2>2 DEF Store!Next
    <2>3. CASE mishaps' = {} /\ RequestNext
        <3>1. mishaps = {}
            <4>1. DriverCall \/ PowerOff \/ FormatAtBoot \/ LoadAtBoot
                <5>1. NoExt \in AllExts
                    BY DEF AllExts
                <5> QED
                    BY <2>3, <5>1, RequestsAreCalls DEF RequestNext
            <4>2. mishaps \subseteq mishaps'
                BY <4>1, CallsRemember DEF PowerOff, FormatAtBoot, LoadAtBoot
            <4> QED
                BY <2>3, <4>2
        <3>2. CASE PowerOff /\ request' = [call |-> "none"]
            BY <2>3, <3>1, <3>2, PowerStored DEF Store!Next
        <3>3. CASE (FormatAtBoot \/ LoadAtBoot) /\ UNCHANGED request
            BY <2>3, <3>1, <3>3, PowerStored DEF Store!Next
        <3>4. ASSUME NEW h \in Clusters, NEW name \in AllNames,
                     \/ FolderRequest(h, name)
                     \/ \E ext \in AllExts : FileRequest(h, name, ext)
              PROVE  Store!Next
            <4>1. status = "on"
                <5>1. NoExt \in AllExts
                    BY DEF AllExts
                <5> QED
                    BY <3>4, <5>1, RequestsAreCalls, CallsRemember
            <4>2. Ready
                BY <3>1, <4>1 DEF DiskInvariant, Sound, Virgin, Tidiness, Ready
            <4>3. Store!Call
                BY <2>3, <3>4, <4>1, <4>2, FolderRequestStored, FileRequestStored
            <4> QED
                BY <2>3, <3>1, <4>3 DEF Store!Next
        <3> QED
            BY <2>3, <3>2, <3>3, <3>4 DEF RequestNext
    <2> QED
        BY <2>1, <2>2, <2>3
<1> QED
    BY <1>1, <1>2, RequestsStayReady, PTL DEF RequestSpec, ImplementsFileStore, Store!Spec

=============================================================================
