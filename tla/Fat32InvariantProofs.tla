------------------------ MODULE Fat32InvariantProofs ------------------------
(***************************************************************************)
(* The consistency of the disk, proved for every size of the disk and the  *)
(* tables: as long as write found the clusters it needed and no entry was  *)
(* followed that was never written, chains of different entries share no   *)
(* cluster, every chain ends, and a reboot finds what was there.  The      *)
(* types come first.                                                       *)
(***************************************************************************)
EXTENDS Fat32Driver, WellFoundedInduction, TLAPS

-----------------------------------------------------------------------------
(* The least member of a set of numbers, and the scans built on it.        *)

LEMMA LeastNumber ==
    ASSUME NEW S \in SUBSET Nat, S # {}
    PROVE  \E i \in S : \A j \in S : i <= j
<1> DEFINE R == {p \in Nat \X Nat : p[1] < p[2]}
<1>1. IsWellFoundedOn(R, Nat)
    BY NatLessThanWellFounded DEF OpToRel
<1>2. PICK i \in S : \A j \in S : ~ (<<j, i>> \in R)
    <2> HIDE DEF R
    <2> QED BY <1>1, WFMin
<1>3. \A j \in S : <<j, i>> \in Nat \X Nat /\ <<j, i>>[1] = j /\ <<j, i>>[2] = i
    OBVIOUS
<1>4. \A j \in S : ~ (j < i)
    BY <1>2, <1>3
<1> QED
    BY <1>4

LEMMA FirstIn ==
    ASSUME NEW S \in SUBSET Nat
    PROVE  /\ S # {} => First(S) \in S /\ \A j \in S : First(S) <= j
           /\ S = {} => First(S) = 0
           /\ First(S) # 0 => First(S) \in S
BY LeastNumber DEF First

LEMMA GreatestNumber ==
    ASSUME NEW n \in Nat, NEW S \in SUBSET (1 .. n), S # {}
    PROVE  \E i \in S : \A j \in S : j <= i
<1> DEFINE T == {m \in Nat : n - m \in S}
<1>1. T # {}
    <2>1. PICK i \in S : TRUE
        OBVIOUS
    <2>2. n - i \in Nat /\ n - (n - i) = i
        OBVIOUS
    <2> QED
        BY <2>1, <2>2
<1>2. PICK m \in T : \A k \in T : m <= k
    <2> T \in SUBSET Nat
        OBVIOUS
    <2> HIDE DEF T
    <2> QED BY <1>1, LeastNumber
<1>3. ASSUME NEW j \in S PROVE j <= n - m
    <2>1. n - j \in Nat /\ n - (n - j) = j
        OBVIOUS
    <2>2. m <= n - j
        BY <2>1, <1>2
    <2> QED
        BY <2>2
<1> QED
    BY <1>3

LEMMA LastAtListed ==
    ASSUME NEW n \in Nat, NEW S, NEW list \in [1 .. n -> S], NEW c \in Listed(list)
    PROVE  LastAt(list, c) \in 1 .. n /\ list[LastAt(list, c)] = c
<1> DEFINE I == {i \in 1 .. n : list[i] = c}
<1>1. I # {} /\ I \in SUBSET (1 .. n)
    BY DEF Listed
<1>2. PICK i \in I : \A j \in I : j <= i
    BY <1>1, GreatestNumber
<1>3. i \in DOMAIN list /\ list[i] = c /\ \A j \in DOMAIN list : list[j] = c => j <= i
    BY <1>2
<1> QED
    BY <1>3 DEF LastAt

-----------------------------------------------------------------------------
(* Types of the operators the actions are made of.                         *)

LEMMA Numbers ==
    /\ Clusters \in SUBSET Nat /\ Usable \subseteq Clusters /\ Slots \in SUBSET Nat
    /\ 0 \in Slots
    /\ BOOT_SECTOR \in Clusters /\ FAT_CLUSTER_NUMBER \in Clusters
    /\ ROOT_CLUSTER_NUMBER \in Clusters
    /\ \A c \in Usable : c # BOOT_SECTOR /\ c # FAT_CLUSTER_NUMBER /\ c # ROOT_CLUSTER_NUMBER
    /\ END_OF_FILE \notin Clusters /\ CLUSTER_0_VALUE \notin Clusters /\ EMPTY \in Clusters
    /\ EMPTY \notin Usable /\ END_OF_FILE \notin Usable /\ CLUSTER_0_VALUE \notin Usable
    /\ BOOT_SECTOR # FAT_CLUSTER_NUMBER /\ BOOT_SECTOR # ROOT_CLUSTER_NUMBER
    /\ FAT_CLUSTER_NUMBER # ROOT_CLUSTER_NUMBER
    /\ END_OF_FILE # EMPTY /\ END_OF_FILE # CLUSTER_0_VALUE
BY ClusterCountAssumption, SlotCountAssumption
DEF Clusters, Usable, Slots, BOOT_SECTOR, FAT_CLUSTER_NUMBER, ROOT_CLUSTER_NUMBER,
    END_OF_FILE, CLUSTER_0_VALUE, EMPTY

LEMMA Values ==
    /\ EMPTY \in FatValues /\ END_OF_FILE \in FatValues /\ CLUSTER_0_VALUE \in FatValues
    /\ Clusters \subseteq FatValues
    /\ NoMap \in Maps /\ FormattedMap \in Maps
BY Numbers DEF FatValues, NoMap, FormattedMap, Maps

LEMMA Entries ==
    /\ EmptyEntry \in Entry
    /\ \A name \in AllNames, c \in Clusters : DirEntry(name, c) \in Entry
    /\ \A name \in AllNames, ext \in AllExts, p \in Payloads, c \in Clusters :
          FileEntry(name, ext, p, c) \in Entry
<1>1. NoName \in AllNames /\ NoExt \in AllExts
    BY DEF AllNames, AllExts
<1>2. 0 \in Clusters /\ 0 \in 0 .. MaxSize /\ \A p \in Payloads : Size[p] \in 0 .. MaxSize
    BY Numbers, SizeAssumption DEF BOOT_SECTOR
<1>3. EmptyEntry \in Entry
    BY <1>1, <1>2 DEF EmptyEntry, Entry
<1>4. ASSUME NEW name \in AllNames, NEW c \in Clusters
      PROVE  DirEntry(name, c) \in Entry
    BY <1>1, <1>2 DEF DirEntry, Entry
<1>5. ASSUME NEW name \in AllNames, NEW ext \in AllExts, NEW p \in Payloads, NEW c \in Clusters
      PROVE  FileEntry(name, ext, p, c) \in Entry
    BY <1>2 DEF FileEntry, Entry
<1> QED
    BY <1>3, <1>4, <1>5

LEMMA TablesTyped ==
    /\ EmptyTable \in Tables
    /\ \A name \in AllNames, c \in Clusters : NewTable(name, c) \in Tables
    /\ \A t \in Tables, e \in Entry : WithEntry(t, e) \in Tables
    /\ \A t \in Tables, i \in Slots : Without(t, i) \in Tables
<1>1. EmptyTable \in Tables
    BY Entries DEF EmptyTable, Tables
<1>2. ASSUME NEW name \in AllNames, NEW c \in Clusters
      PROVE  NewTable(name, c) \in Tables
    BY Entries DEF NewTable, Tables
<1>3. ASSUME NEW t \in Tables, NEW e \in Entry
      PROVE  WithEntry(t, e) \in Tables
    BY DEF WithEntry, Tables
<1>4. ASSUME NEW t \in Tables, NEW i \in Slots
      PROVE  Without(t, i) \in Tables
    BY Entries DEF Without, Tables
<1> QED
    BY <1>1, <1>2, <1>3, <1>4

LEMMA Contents ==
    /\ Boot \in Content /\ Blank \in Content
    /\ \A m \in Maps : FatImage(m) \in Content
    /\ \A t \in Tables : Dir(t) \in Content
    /\ \A p \in Payloads, k \in 1 .. MaxSize : Data(p, k) \in Content
BY DEF Boot, Blank, FatImage, Dir, Data, Content

LEMMA Parts ==
    ASSUME NEW x \in Content
    PROVE  /\ x.kind = "dir" => x.table \in Tables /\ x = Dir(x.table)
           /\ x.kind = "fat" => x.map \in Maps /\ x = FatImage(x.map)
           /\ x.kind = "data" => /\ x.payload \in Payloads /\ x.index \in 1 .. MaxSize
                                 /\ x = Data(x.payload, x.index)
           /\ x.kind = "blank" => x = Blank
           /\ x.kind = "boot" => x = Boot
BY DEF Content, Boot, Blank, FatImage, Dir, Data

LEMMA TableTyped ==
    ASSUME TypeOK, NEW c \in Clusters
    PROVE  Table(c) \in Tables
BY TablesTyped, Parts DEF TypeOK, Table

LEMMA SlotsFound ==
    ASSUME NEW t, NEW name, NEW ext
    PROVE  /\ First(Named(t, name)) \in Slots
           /\ First(Matching(t, name, ext)) \in Slots
           /\ First(Unused(t)) \in Slots
           /\ \A asFolder \in BOOLEAN : TargetSlot(t, name, ext, asFolder) \in Slots
<1>1. ASSUME NEW S \in SUBSET Slots PROVE First(S) \in Slots
    BY Numbers, FirstIn
<1> QED
    BY <1>1 DEF Named, Matching, Unused, TargetSlot

-----------------------------------------------------------------------------
(* Type correctness.                                                       *)

LEMMA FreeTyped ==
    ASSUME TypeOK
    PROVE  /\ Free(fat) \subseteq Usable
           /\ First(Free(fat)) \in Clusters
           /\ Free(fat) # {} => First(Free(fat)) \in Free(fat)
<1>1. Free(fat) \in SUBSET Nat /\ Free(fat) \subseteq Usable
    BY Numbers DEF Free
<1> QED
    BY <1>1, FirstIn, Numbers DEF BOOT_SECTOR

LEMMA MakeDirectoryTyped ==
    ASSUME TypeOK, NEW parent \in Clusters, NEW name \in AllNames, MakeDirectory(parent, name)
    PROVE  TypeOK'
<1> DEFINE c == First(Free(fat))
<1>1. c \in Clusters
    BY FreeTyped
<1>2. fat' \in Maps
    BY <1>1, Values DEF MakeDirectory, TypeOK, Claimed, Maps
<1>3. Dir(WithEntry(Table(parent), DirEntry(name, c))) \in Content
    BY <1>1, TableTyped, Entries, TablesTyped, Contents
<1>4. Dir(NewTable(name, c)) \in Content
    BY <1>1, TablesTyped, Contents
<1>5. FatImage(fat') \in Content
    BY <1>2, Contents
<1>6. disk' = DiskWithFolder(parent, name, c, fat')
    BY DEF MakeDirectory
<1>7. disk' \in [Clusters -> Content]
    BY <1>3, <1>4, <1>5, <1>6 DEF DiskWithFolder, TypeOK
<1> QED
    BY <1>2, <1>7 DEF MakeDirectory, TypeOK, Provoke, Return

LEMMA LinkedTyped ==
    ASSUME NEW n \in Nat, NEW list \in [1 .. n -> Clusters], NEW map \in Maps
    PROVE  Linked(map, list, n) \in Maps
<1> SUFFICES ASSUME NEW c \in Clusters
             PROVE  Linked(map, list, n)[c] \in FatValues
    BY DEF Linked, Maps
<1>1. CASE c \notin Listed(list)
    BY <1>1 DEF Linked, Maps
<1>2. CASE c \in Listed(list)
    <2>1. LastAt(list, c) \in 1 .. n
        BY <1>2, LastAtListed
    <2>2. LastAt(list, c) # n => LastAt(list, c) + 1 \in 1 .. n
        BY <2>1
    <2> QED
        BY <1>2, <2>2, Values DEF Linked
<1> QED
    BY <1>1, <1>2

LEMMA SizeOfPayload ==
    ASSUME NEW p \in Payloads
    PROVE  Size[p] \in Nat /\ Size[p] >= 1 /\ Size[p] \in 1 .. MaxSize /\ MaxSize \in Nat
           /\ 1 \in 1 .. MaxSize
BY SizeAssumption

LEMMA StoreFileTyped ==
    ASSUME TypeOK, NEW parent \in Clusters, NEW name \in AllNames, NEW ext \in AllExts,
           NEW p \in Payloads, StoreFile(parent, name, ext, p)
    PROVE  TypeOK'
<1> DEFINE n == Size[p]
<1>1. PICK list \in [1 .. n -> Clusters], m \in 0 .. n :
          /\ Provoke(WriteMishaps(parent, name, m, n))
          /\ fat' = Linked(fat, list, n)
          /\ disk' = DiskWithFile(parent, name, ext, p, list, fat')
    BY DEF StoreFile, StoreFileIn
<1>2. n \in Nat /\ n >= 1 /\ n \in 1 .. MaxSize /\ MaxSize \in Nat
    BY SizeOfPayload
<1>3. fat' \in Maps
    BY <1>1, <1>2, LinkedTyped DEF TypeOK
<1>4. list[1] \in Clusters
    BY <1>1, <1>2
<1>5. Dir(WithEntry(Table(parent), FileEntry(name, ext, p, list[1]))) \in Content
    BY <1>4, TableTyped, Entries, TablesTyped, Contents
<1>6. ASSUME NEW x \in Listed(list) PROVE Data(p, LastAt(list, x)) \in Content
    <2>1. LastAt(list, x) \in 1 .. n
        BY <1>1, <1>2, LastAtListed
    <2>2. LastAt(list, x) \in 1 .. MaxSize
        BY <2>1, <1>2
    <2> QED
        BY <2>2, Contents
<1>7. FatImage(fat') \in Content
    BY <1>3, Contents
<1>8. disk' \in [Clusters -> Content]
    BY <1>1, <1>5, <1>6, <1>7 DEF DiskWithFile, TypeOK
<1> QED
    BY <1>1, <1>3, <1>8 DEF StoreFile, StoreFileIn, TypeOK, Provoke, Return

LEMMA DeleteFolderTyped ==
    ASSUME TypeOK, NEW parent \in Clusters, NEW name \in AllNames, DeleteFolder(parent, name)
    PROVE  TypeOK'
<1> DEFINE idx == TargetSlot(Table(parent), name, NoExt, TRUE)
           entry == Table(parent)[idx]
<1>1. idx \in Slots
    BY SlotsFound
<1>2. entry.cluster \in Clusters
    BY <1>1, TableTyped DEF Tables, Entry
<1>3. fat' \in Maps
    BY <1>2, Values DEF DeleteFolder, TypeOK, Maps
<1>4. Dir(Without(Table(parent), idx)) \in Content
    BY <1>1, TableTyped, TablesTyped, Contents
<1>5. FatImage(fat') \in Content
    BY <1>3, Contents
<1>6. disk' = DiskWithoutFolder(parent, idx, entry.cluster, fat')
    BY DEF DeleteFolder
<1>7. disk' \in [Clusters -> Content]
    BY <1>4, <1>5, <1>6, Contents DEF DiskWithoutFolder, TypeOK
<1> QED
    BY <1>3, <1>7 DEF DeleteFolder, TypeOK, Provoke, Return

LEMMA FreedTyped ==
    ASSUME NEW map \in Maps, NEW gone
    PROVE  Freed(map, gone) \in Maps
BY Values DEF Freed, Maps

LEMMA DeleteFileTyped ==
    ASSUME TypeOK, NEW parent \in Clusters, NEW name \in AllNames, NEW ext \in AllExts,
           DeleteFile(parent, name, ext) \/ DeleteFileAstray(parent, name, ext)
    PROVE  TypeOK'
<1> DEFINE idx == TargetSlot(Table(parent), name, ext, FALSE)
           gone == Chain(fat, Table(parent)[idx].cluster)
           erased == Erased(fat, Table(parent)[idx].cluster)
           over   == EraseEnds(fat, Table(parent)[idx].cluster)
<1>1. idx \in Slots
    BY SlotsFound
<1>2. Dir(Without(Table(parent), idx)) \in Content
    BY <1>1, TableTyped, TablesTyped, Contents
<1>3. fat \in Maps /\ disk \in [Clusters -> Content]
    BY DEF TypeOK
<1>4. CASE DeleteFile(parent, name, ext)
    <2>1. fat' \in Maps /\ FatImage(fat') \in Content
        BY <1>3, <1>4, FreedTyped, Contents DEF DeleteFile
    <2>2. disk' = DiskWithoutFile(parent, idx, gone, fat')
        BY <1>4 DEF DeleteFile
    <2>3. disk' \in [Clusters -> Content]
        BY <1>2, <1>3, <2>1, <2>2, Contents DEF DiskWithoutFile
    <2> QED
        BY <1>4, <2>1, <2>3 DEF DeleteFile, TypeOK, Provoke, Return
<1>5. CASE DeleteFileAstray(parent, name, ext)
    <2>1. fat' \in Maps /\ FatImage(fat') \in Content
        BY <1>3, <1>5, FreedTyped, Contents DEF DeleteFileAstray
    <2>2. disk' = [x \in Clusters |->
                       IF over /\ x = FAT_CLUSTER_NUMBER THEN FatImage(fat')
                       ELSE IF x \in erased THEN Blank
                       ELSE IF x = parent THEN Dir(Without(Table(parent), idx))
                       ELSE disk[x]]
        BY <1>5 DEF DeleteFileAstray
    <2>3. disk' \in [Clusters -> Content]
        <3> HIDE DEF erased, over, idx
        <3> QED BY <1>2, <1>3, <2>1, <2>2, Contents
    <2> QED
        BY <1>5, <2>1, <2>3 DEF DeleteFileAstray, TypeOK, Provoke
<1> QED
    BY <1>4, <1>5

LEMMA FormatTyped ==
    ASSUME TypeOK, FormatAtBoot
    PROVE  TypeOK'
<1>1. Dir(NewTable(RootName, ROOT_CLUSTER_NUMBER)) \in Content
    BY Numbers, TablesTyped, Contents, NameAssumption DEF AllNames
<1>2. FatImage(FormattedMap) \in Content
    BY Values, Contents
<1> QED
    BY <1>1, <1>2, Contents, Values DEF FormatAtBoot, TypeOK

LEMMA LoadTyped ==
    ASSUME TypeOK, LoadAtBoot
    PROVE  TypeOK'
<1>1. SavedMap \in Maps
    BY Parts, Values, Numbers DEF SavedMap, MapOn, TypeOK
<1> QED
    BY <1>1 DEF LoadAtBoot, TypeOK

LEMMA ReadOnlyTyped ==
    ASSUME TypeOK, NEW parent, NEW name, NEW ext, NEW asFolder, NEW buffer,
           \/ ReadDirectory(parent, name, ext)
           \/ Read(parent, name, ext, buffer)
           \/ WriteInvalidParent(parent)
           \/ MakeDirectoryExists(parent, name)
           \/ DeleteNotFound(parent, name, ext, asFolder)
           \/ DeleteFolderRefused(parent, name)
    PROVE  TypeOK'
<1>1. ReadDirectoryCode(Table(parent), name, ext) \in {0, 1, 2}
    BY DEF ReadDirectoryCode
<1>2. CASE ReadDirectory(parent, name, ext)
    BY <1>1, <1>2 DEF ReadDirectory, TypeOK, Return
<1>3. CASE Read(parent, name, ext, buffer)
    BY <1>3 DEF Read, TypeOK, Return, Provoke
<1>4. CASE \/ WriteInvalidParent(parent) \/ MakeDirectoryExists(parent, name)
           \/ DeleteNotFound(parent, name, ext, asFolder) \/ DeleteFolderRefused(parent, name)
    BY <1>4 DEF WriteInvalidParent, MakeDirectoryExists, DeleteNotFound, DeleteFolderRefused,
                TypeOK, Return
<1> QED
    BY <1>2, <1>3, <1>4

LEMMA TypesKept ==
    ASSUME TypeOK, [Next]_vars
    PROVE  TypeOK'
<1>1. CASE UNCHANGED vars
    BY <1>1 DEF vars, TypeOK
<1>2. CASE PowerOff
    BY <1>2, Values DEF PowerOff, TypeOK, Return
<1>3. CASE FormatAtBoot
    BY <1>3, FormatTyped
<1>4. CASE LoadAtBoot
    BY <1>4, LoadTyped
<1>5. CASE DriverCall
    <2>1. PICK parent \in Clusters :
              \/ WriteInvalidParent(parent)
              \/ \E name \in AllNames :
                    \/ DirectoryCall(parent, name)
                    \/ \E ext \in AllExts : FileCall(parent, name, ext)
        BY <1>5 DEF DriverCall
    <2>2. CASE WriteInvalidParent(parent)
        BY <2>2, ReadOnlyTyped
    <2>3. ASSUME NEW name \in AllNames, DirectoryCall(parent, name) PROVE TypeOK'
        BY <2>3, ReadOnlyTyped, MakeDirectoryTyped, DeleteFolderTyped DEF DirectoryCall
    <2>4. ASSUME NEW name \in AllNames, NEW ext \in AllExts, FileCall(parent, name, ext)
          PROVE  TypeOK'
        BY <2>4, ReadOnlyTyped, StoreFileTyped, DeleteFileTyped DEF FileCall
    <2> QED
        BY <2>1, <2>2, <2>3, <2>4
<1> QED
    BY <1>1, <1>2, <1>3, <1>4, <1>5 DEF Next

(* The values of the state variables are the ones the code's types allow,  *)
(* whatever is asked of the driver and whichever mishaps happen.           *)
THEOREM TypeCorrect == Spec => []TypeOK
<1>1. Init => TypeOK
    BY Contents, Values DEF Init, TypeOK
<1>2. TypeOK /\ [Next]_vars => TypeOK'
    BY TypesKept
<1> QED
    BY <1>1, <1>2, PTL DEF Spec

-----------------------------------------------------------------------------
(* Chains: the least set that holds c and is closed under the map.         *)

Closed(map, K) == \A x \in K : map[x] \in Clusters => map[x] \in K

LEMMA ChainBasics ==
    ASSUME NEW map, NEW c \in Clusters
    PROVE  /\ Chain(map, c) \subseteq Clusters
           /\ c \in Chain(map, c)
           /\ Closed(map, Chain(map, c))
           /\ \A K \in SUBSET Clusters : c \in K /\ Closed(map, K) => Chain(map, c) \subseteq K
<1>1. \A x \in Chain(map, c) : map[x] \in Clusters => map[x] \in Chain(map, c)
    <2> SUFFICES ASSUME NEW x \in Chain(map, c), map[x] \in Clusters,
                        NEW K \in SUBSET (Clusters \ {map[x]}), c \in K,
                        \A y \in K : map[y] \notin Clusters \ K
                 PROVE  FALSE
        BY DEF Chain
    <2>1. x \notin K
        OBVIOUS
    <2>2. K \in SUBSET (Clusters \ {x})
        BY <2>1
    <2> QED
        BY <2>2 DEF Chain
<1>2. ASSUME NEW K \in SUBSET Clusters, c \in K, Closed(map, K)
      PROVE  Chain(map, c) \subseteq K
    <2> SUFFICES ASSUME NEW x \in Chain(map, c), x \notin K PROVE FALSE
        OBVIOUS
    <2>1. K \in SUBSET (Clusters \ {x})
        OBVIOUS
    <2> QED
        BY <1>2, <2>1 DEF Chain, Closed
<1>3. Chain(map, c) \subseteq Clusters /\ c \in Chain(map, c)
    BY DEF Chain
<1> QED
    BY <1>1, <1>2, <1>3 DEF Closed

(* Every member of a chain but its head follows another member.            *)
LEMMA ChainPredecessor ==
    ASSUME NEW map, NEW c \in Clusters, NEW x \in Chain(map, c), x # c
    PROVE  \E y \in Chain(map, c) : map[y] = x
<1> SUFFICES ASSUME \A y \in Chain(map, c) : map[y] # x PROVE FALSE
    OBVIOUS
<1> DEFINE K == Chain(map, c) \ {x}
<1>1. K \in SUBSET Clusters /\ c \in K /\ Closed(map, K)
    BY ChainBasics DEF Closed
<1>2. Chain(map, c) \subseteq K
    BY <1>1, ChainBasics
<1> QED
    BY <1>2

(* A table's chain is its own cluster.                                     *)
LEMMA ChainOfTable ==
    ASSUME NEW map, NEW c \in Clusters, map[c] \notin Clusters
    PROVE  Chain(map, c) = {c}
<1>1. {c} \in SUBSET Clusters /\ Closed(map, {c})
    BY DEF Closed
<1> QED
    BY <1>1, ChainBasics

(* A file's chain consists of data clusters of one payload and ends.       *)
LEMMA ChainOfFile ==
    ASSUME NEW map \in Maps, NEW d \in [Clusters -> Content], WellLinked(map, d),
           NEW c \in Usable, d[c].kind = "data"
    PROVE  /\ \A x \in Chain(map, c) :
                 x \in Usable /\ d[x].kind = "data" /\ d[x].payload = d[c].payload
           /\ Ends(map, c)
<1> DEFINE p == d[c].payload
           K == {x \in Usable : d[x].kind = "data" /\ d[x].payload = p}
<1>1. c \in Clusters /\ K \in SUBSET Clusters /\ c \in K
    BY Numbers
<1>2. p \in Payloads
    BY <1>1, Parts
<1>3. ASSUME NEW x \in K
      PROVE  /\ d[x].index \in 1 .. Size[p]
             /\ d[x].index = Size[p] => map[x] = END_OF_FILE
             /\ d[x].index # Size[p] => map[x] \in K /\ d[map[x]].index = d[x].index + 1
    <2>1. x \in Usable /\ x \in Clusters /\ d[x].kind = "data" /\ d[x].payload = p
        BY <1>1
    <2>2. d[x].index \in 1 .. MaxSize /\ Size[p] \in Nat
        BY <2>1, <1>2, Parts, SizeOfPayload
    <2>3. /\ d[x].index <= Size[p]
          /\ d[x].index = Size[p] => map[x] = END_OF_FILE
          /\ d[x].index # Size[p] => map[x] \in Usable /\ d[map[x]] = Data(p, d[x].index + 1)
        BY <2>1 DEF WellLinked, DataInOrder
    <2>4. d[x].index \in 1 .. Size[p]
        BY <2>2, <2>3, SizeAssumption
    <2>5. ASSUME d[x].index # Size[p]
          PROVE  map[x] \in K /\ d[map[x]].index = d[x].index + 1
        BY <2>3, <2>5 DEF Data
    <2> QED
        BY <2>3, <2>4, <2>5
<1>4. Closed(map, K)
    BY <1>3, Numbers DEF Closed
<1>5. Chain(map, c) \subseteq K
    BY <1>1, <1>4, ChainBasics
<1>6. Ends(map, c)
    <2> DEFINE I == {i \in 1 .. Size[p] : \E x \in Chain(map, c) : d[x].index = i}
    <2>1. c \in Chain(map, c) /\ d[c].index \in 1 .. Size[p]
        BY <1>1, <1>3, ChainBasics
    <2>2. I # {} /\ I \in SUBSET (1 .. Size[p]) /\ Size[p] \in Nat
        BY <2>1, <1>2, SizeOfPayload
    <2>3. PICK i \in I : \A j \in I : j <= i
        <3> HIDE DEF I
        <3> QED BY <2>2, GreatestNumber
    <2>4. PICK x \in Chain(map, c) : d[x].index = i
        BY <2>3
    <2>5. x \in K /\ x \in Clusters
        BY <1>1, <1>5, <2>4
    <2>6. CASE i = Size[p]
        BY <1>3, <2>4, <2>5, <2>6 DEF Ends
    <2>7. CASE i # Size[p]
        <3>1. map[x] \in K /\ d[map[x]].index = i + 1
            BY <1>3, <2>4, <2>5, <2>7
        <3>2. map[x] \in Chain(map, c)
            BY <1>1, <3>1, <2>4, ChainBasics DEF Closed
        <3>3. i + 1 \in I
            BY <1>3, <3>1, <3>2
        <3> QED
            BY <2>2, <2>3, <3>3
    <2> QED
        BY <2>6, <2>7
<1> QED
    BY <1>5, <1>6

-----------------------------------------------------------------------------
(* What the reserved clusters of a formatted disk hold.                    *)

Reserved(map, d) ==
    /\ d[BOOT_SECTOR] = Boot
    /\ d[FAT_CLUSTER_NUMBER] = FatImage(map)
    /\ d[ROOT_CLUSTER_NUMBER].kind = "dir"

LEMMA Kinds ==
    /\ Boot.kind = "boot" /\ Blank.kind = "blank"
    /\ \A m : FatImage(m).kind = "fat" /\ FatImage(m).map = m
    /\ \A t : Dir(t).kind = "dir" /\ Dir(t).table = t
    /\ \A p, k : Data(p, k).kind = "data" /\ Data(p, k).payload = p /\ Data(p, k).index = k
BY DEF Boot, Blank, FatImage, Dir, Data

(* A listing lies in a table, so neither in a reserved cluster other than  *)
(* the root's nor in a free one.                                           *)
LEMMA ListingPlace ==
    ASSUME NEW d \in [Clusters -> Content], NEW s \in ListingsOn(d)
    PROVE  /\ s[1] \in Clusters /\ s[2] \in Slots /\ s[2] # 0 /\ s = <<s[1], s[2]>>
           /\ d[s[1]].kind = "dir" /\ d[s[1]].table \in Tables
           /\ EntryOn(d, s) \in Entry /\ EntryOn(d, s).used
           /\ EntryOn(d, s) = d[s[1]].table[s[2]]
<1>1. s[1] \in Clusters /\ s[2] \in Slots /\ s[2] # 0 /\ s = <<s[1], s[2]>>
    BY DEF ListingsOn
<1>2. d[s[1]].kind = "dir" /\ d[s[1]].table[s[2]].used
    BY DEF ListingsOn
<1>3. d[s[1]].table \in Tables
    BY <1>1, <1>2, Parts
<1> QED
    BY <1>1, <1>2, <1>3 DEF Tables, EntryOn

(* Freeing a set of clusters that holds the target of one entry, is led to *)
(* by no link from outside and by no other entry, together with removing   *)
(* that entry, keeps the disk consistent: both branches of delete.         *)
LEMMA RemovalConsistent ==
    ASSUME NEW map \in Maps, NEW d \in [Clusters -> Content],
           WellLinked(map, d), Reserved(map, d),
           NEW s \in ListingsOn(d), NEW gone \in SUBSET Usable,
           EntryOn(d, s).cluster \in gone,
           \A x \in Usable \ gone : map[x] \notin gone,
           \A r \in ListingsOn(d) : r # s => EntryOn(d, r).cluster \notin gone,
           NEW e, e = [x \in Clusters |->
                          IF x = FAT_CLUSTER_NUMBER THEN FatImage(Freed(map, gone))
                          ELSE IF x \in gone THEN Blank
                          ELSE IF x = s[1] THEN Dir(Without(d[s[1]].table, s[2]))
                          ELSE d[x]]
    PROVE  /\ WellLinked(Freed(map, gone), e) /\ Reserved(Freed(map, gone), e)
           /\ Filled(map, d) => Filled(Freed(map, gone), e)
<1> DEFINE map2 == Freed(map, gone)
<1>0. /\ d[s[1]].kind = "dir" /\ d[s[1]].table \in Tables /\ s[1] \in Clusters
      /\ s[2] \in Slots /\ s[2] # 0
    BY ListingPlace
<1>1. /\ s[1] # BOOT_SECTOR /\ s[1] # FAT_CLUSTER_NUMBER
      /\ \A x \in gone : x # BOOT_SECTOR /\ x # FAT_CLUSTER_NUMBER /\ x # ROOT_CLUSTER_NUMBER
    BY <1>0, Kinds, Numbers DEF Reserved
<1>2. Reserved(map2, e)
    BY <1>0, <1>1, Kinds, Numbers DEF Reserved
<1>3. \A x \in Clusters : map2[x] = IF x \in gone THEN EMPTY ELSE map[x]
    BY DEF Freed
<1>4. \A x \in Usable : /\ x \in gone => e[x] = Blank
                        /\ x \notin gone /\ x # s[1] => e[x] = d[x]
                        /\ x \notin gone => e[x].kind = d[x].kind
    BY <1>0, Numbers, Kinds
<1>5. LinksApart(map2)
    <2>1. \A x \in {BOOT_SECTOR, FAT_CLUSTER_NUMBER, ROOT_CLUSTER_NUMBER} : map2[x] \notin Clusters
        BY <1>1, <1>3, Numbers DEF WellLinked, LinksApart
    <2>2. \A x \in Usable : map2[x] \in Usable \cup {EMPTY, END_OF_FILE}
        BY <1>3, Numbers DEF WellLinked, LinksApart
    <2>3. \A x, y \in Usable : map2[x] \in Usable /\ map2[x] = map2[y] => x = y
        BY <1>3, Numbers DEF WellLinked, LinksApart
    <2>4. ASSUME NEW x \in Usable, map2[x] \in Usable PROVE map2[map2[x]] # EMPTY
        <3>1. x \notin gone /\ map2[x] = map[x]
            BY <1>3, <2>4, Numbers
        <3>2. map[x] \notin gone /\ map2[map[x]] = map[map[x]]
            BY <1>3, <2>4, <3>1, Numbers
        <3> QED
            BY <2>4, <3>1, <3>2 DEF WellLinked, LinksApart
    <2> QED
        BY <2>1, <2>2, <2>3, <2>4 DEF LinksApart
<1>6. KindsAgree(map2, e)
    <2> SUFFICES ASSUME NEW x \in Usable
                 PROVE  /\ map2[x] = EMPTY => e[x] = Blank
                        /\ e[x].kind = "dir" => map2[x] = END_OF_FILE
        BY DEF KindsAgree
    <2>1. CASE x \in gone
        BY <1>3, <1>4, <2>1, Numbers, Kinds
    <2>2. CASE x \notin gone
        <3>1. map2[x] = map[x] /\ e[x].kind = d[x].kind
            BY <1>3, <1>4, <2>2, Numbers
        <3>2. ASSUME map[x] = EMPTY PROVE e[x] = Blank
            <4>1. d[x] = Blank
                BY <3>2 DEF WellLinked, KindsAgree
            <4>2. x # s[1]
                BY <1>0, <4>1, Kinds
            <4> QED
                BY <1>4, <2>2, <4>1, <4>2
        <3> QED
            BY <3>1, <3>2 DEF WellLinked, KindsAgree
    <2> QED
        BY <2>1, <2>2
<1>7. DataInOrder(map2, e)
    <2> SUFFICES ASSUME NEW x \in Usable, e[x].kind = "data"
                 PROVE  LET p == e[x].payload
                            k == e[x].index
                        IN  /\ k <= Size[p]
                            /\ k = Size[p] => map2[x] = END_OF_FILE
                            /\ k # Size[p] => map2[x] \in Usable /\ e[map2[x]] = Data(p, k + 1)
        BY DEF DataInOrder
    <2>1. x \notin gone
        BY <1>4, Kinds
    <2>2. d[x].kind = "data" /\ e[x] = d[x] /\ map2[x] = map[x]
        BY <1>0, <1>3, <1>4, <2>1, Numbers
    <2>3. ASSUME d[x].index # Size[d[x].payload]
          PROVE  e[map[x]] = Data(d[x].payload, d[x].index + 1) /\ map[x] \in Usable
        <3>1. map[x] \in Usable /\ d[map[x]] = Data(d[x].payload, d[x].index + 1)
            BY <2>2, <2>3 DEF WellLinked, DataInOrder
        <3>2. map[x] \notin gone
            BY <2>1
        <3>3. map[x] # s[1]
            BY <1>0, <3>1, Kinds
        <3> QED
            BY <1>4, <3>1, <3>2, <3>3
    <2> QED
        BY <2>2, <2>3 DEF WellLinked, DataInOrder
<1>8. ASSUME NEW r \in ListingsOn(e)
      PROVE  r \in ListingsOn(d) /\ r # s /\ EntryOn(e, r) = EntryOn(d, r)
    <2>1. r \in Clusters \X (Slots \ {0}) /\ e[r[1]].kind = "dir" /\ e[r[1]].table[r[2]].used
        BY DEF ListingsOn
    <2>2. r[1] \notin gone /\ r[1] # FAT_CLUSTER_NUMBER
        BY <1>1, <2>1, Kinds
    <2>3. CASE r[1] # s[1]
        BY <2>1, <2>2, <2>3 DEF ListingsOn, EntryOn
    <2>4. CASE r[1] = s[1]
        <3>1. e[r[1]].table = Without(d[s[1]].table, s[2])
            BY <2>1, <2>2, <2>4, Kinds
        <3>2. r[2] # s[2]
            <4>1. Without(d[s[1]].table, s[2])[s[2]] = EmptyEntry
                BY <1>0 DEF Without, Tables
            <4>2. ~EmptyEntry.used
                BY DEF EmptyEntry
            <4> QED
                BY <2>1, <3>1, <4>1, <4>2
        <3>3. e[r[1]].table[r[2]] = d[r[1]].table[r[2]]
            <4>1. \A i \in Slots \ {s[2]} :
                      Without(d[s[1]].table, s[2])[i] = d[s[1]].table[i]
                BY <1>0 DEF Without, Tables
            <4> QED
                BY <2>1, <2>4, <3>1, <3>2, <4>1
        <3>4. r \in ListingsOn(d)
            BY <1>0, <2>1, <2>4, <3>3 DEF ListingsOn
        <3>5. r # s /\ EntryOn(e, r) = EntryOn(d, r)
            BY <3>2, <3>3 DEF EntryOn
        <3> QED
            BY <3>4, <3>5
    <2> QED
        BY <2>3, <2>4
<1>9. EntriesOwn(map2, e)
    <2>1. ASSUME NEW r \in ListingsOn(e)
          PROVE  LET c == EntryOn(e, r).cluster
                 IN  /\ c \in Usable
                     /\ \A x \in Usable : map2[x] # c
                     /\ EntryOn(e, r).dir => e[c].kind = "dir"
                     /\ ~EntryOn(e, r).dir => /\ e[c].kind = "data"
                                              /\ e[c].index = 1
                                              /\ EntryOn(e, r).size = Size[e[c].payload]
        <3> DEFINE c == EntryOn(d, r).cluster
        <3>1. r \in ListingsOn(d) /\ r # s /\ EntryOn(e, r) = EntryOn(d, r)
            BY <1>8
        <3>2. c \in Usable /\ c \notin gone /\ c # EMPTY
            BY <3>1, Numbers DEF WellLinked, EntriesOwn
        <3>3. \A x \in Usable : map2[x] # c
            BY <1>3, <3>1, <3>2, Numbers DEF WellLinked, EntriesOwn
        <3>4. EntryOn(d, r).dir => e[c].kind = "dir"
            BY <1>4, <3>1, <3>2 DEF WellLinked, EntriesOwn
        <3>5. ~EntryOn(d, r).dir => /\ e[c].kind = "data"
                                    /\ e[c].index = 1
                                    /\ EntryOn(d, r).size = Size[e[c].payload]
            BY <1>0, <1>4, <3>1, <3>2 DEF WellLinked, EntriesOwn
        <3> QED
            BY <3>1, <3>2, <3>3, <3>4, <3>5
    <2>2. ASSUME NEW r \in ListingsOn(e), NEW q \in ListingsOn(e),
                 EntryOn(e, r).cluster = EntryOn(e, q).cluster
          PROVE  r = q
        BY <1>8, <2>2 DEF WellLinked, EntriesOwn
    <2> QED
        BY <2>1, <2>2 DEF EntriesOwn
<1>10. Filled(map, d) => Filled(map2, e)
    BY <1>3, <1>4, Numbers DEF Filled
<1> QED
    BY <1>2, <1>5, <1>6, <1>7, <1>9, <1>10 DEF WellLinked

(* The disk e and map map2 that write makes of d and map: an entry in the   *)
(* table at parent whose chain, from head, is made of the free clusters    *)
(* taken.                                                                  *)
Insertion(map, d, taken, head, parent, entry, map2, e) ==
    /\ \A x \in taken : map[x] = EMPTY
    /\ head \in taken
    /\ \A x \in Clusters \ taken : map2[x] = map[x]
    /\ \A x \in taken : map2[x] \in (taken \ {head}) \cup {END_OF_FILE}
    /\ \A x, y \in taken : map2[x] \in taken /\ map2[x] = map2[y] => x = y
    /\ d[parent].kind = "dir"
    /\ entry.cluster = head
    /\ e[FAT_CLUSTER_NUMBER] = FatImage(map2)
    /\ e[parent] = Dir(WithEntry(d[parent].table, entry))
    /\ \A x \in Clusters \ (taken \cup {parent, FAT_CLUSTER_NUMBER}) : e[x] = d[x]
    /\ \A x \in taken :
          \/ /\ e[x].kind = "dir"
             /\ map2[x] = END_OF_FILE
             /\ \A i \in Slots \ {0} : ~e[x].table[i].used
          \/ /\ e[x].kind = "data"
             /\ e[x].index <= Size[e[x].payload]
             /\ e[x].index = Size[e[x].payload] => map2[x] = END_OF_FILE
             /\ e[x].index # Size[e[x].payload] =>
                   map2[x] \in taken /\ e[map2[x]] = Data(e[x].payload, e[x].index + 1)
    /\ entry.dir => e[head].kind = "dir"
    /\ ~entry.dir => /\ e[head].kind = "data"
                     /\ e[head].index = 1
                     /\ entry.size = Size[e[head].payload]

(* Adding an entry whose chain is made of clusters that were free keeps    *)
(* the disk consistent: both branches of write.                            *)
LEMMA InsertionConsistent ==
    ASSUME NEW map \in Maps, NEW d \in [Clusters -> Content],
           WellLinked(map, d), Reserved(map, d),
           NEW taken \in SUBSET Usable, NEW head, NEW parent \in Clusters, NEW entry \in Entry,
           NEW map2 \in Maps, NEW e \in [Clusters -> Content],
           Insertion(map, d, taken, head, parent, entry, map2, e)
    PROVE  /\ WellLinked(map2, e) /\ Reserved(map2, e)
           /\ Filled(map, d) => Filled(map2, e)
<1> USE DEF Insertion
<1> DEFINE idx == First(Unused(d[parent].table))
<1>1. /\ parent # BOOT_SECTOR /\ parent # FAT_CLUSTER_NUMBER /\ parent \notin taken
      /\ \A x \in taken : x # BOOT_SECTOR /\ x # FAT_CLUSTER_NUMBER /\ x # ROOT_CLUSTER_NUMBER
    <2>1. \A x \in taken : d[x] = Blank
        BY DEF WellLinked, KindsAgree
    <2> QED
        BY <2>1, Kinds, Numbers DEF Reserved
<1>2. Reserved(map2, e)
    <2>1. e[BOOT_SECTOR] = Boot
        BY <1>1, Numbers DEF Reserved
    <2>2. CASE parent = ROOT_CLUSTER_NUMBER
        BY <2>1, <2>2, Kinds DEF Reserved
    <2>3. CASE parent # ROOT_CLUSTER_NUMBER
        BY <1>1, <2>1, <2>3, Numbers DEF Reserved
    <2> QED
        BY <2>2, <2>3
<1>3. \A x \in Usable : /\ x \in Clusters /\ x # FAT_CLUSTER_NUMBER
                        /\ x \notin taken => map2[x] = map[x]
                        /\ x \notin taken /\ x # parent => e[x] = d[x]
                        /\ x \notin taken => e[x].kind = d[x].kind
    BY <1>1, Numbers, Kinds
<1>4. \A x \in Usable \ taken : map[x] \notin taken
    <2> SUFFICES ASSUME NEW x \in Usable \ taken, map[x] \in taken PROVE FALSE
        OBVIOUS
    <2> QED
        BY DEF WellLinked, LinksApart
<1>5. LinksApart(map2)
    <2>1. \A x \in {BOOT_SECTOR, FAT_CLUSTER_NUMBER, ROOT_CLUSTER_NUMBER} : map2[x] \notin Clusters
        BY <1>1, Numbers DEF WellLinked, LinksApart
    <2>2. \A x \in Usable : map2[x] \in Usable \cup {EMPTY, END_OF_FILE}
        BY <1>3 DEF WellLinked, LinksApart
    <2>3. ASSUME NEW x \in Usable, NEW y \in Usable, map2[x] \in Usable, map2[x] = map2[y]
          PROVE  x = y
        <3>1. CASE x \in taken /\ y \in taken
            <4>1. map2[x] \in taken
                BY <2>3, <3>1, Numbers
            <4> QED
                BY <2>3, <3>1, <4>1
        <3>2. CASE x \notin taken /\ y \notin taken
            BY <1>3, <2>3, <3>2 DEF WellLinked, LinksApart
        <3>3. CASE ~(x \in taken <=> y \in taken)
            BY <1>3, <1>4, <2>3, <3>3, Numbers
        <3> QED
            BY <3>1, <3>2, <3>3
    <2>4. ASSUME NEW x \in Usable, map2[x] \in Usable PROVE map2[map2[x]] # EMPTY
        <3>1. CASE map2[x] \in taken
            <4>1. map2[map2[x]] \in taken \cup {END_OF_FILE} /\ EMPTY \notin taken
                BY <3>1, Numbers
            <4> QED
                BY <4>1 DEF EMPTY, END_OF_FILE
        <3>2. CASE map2[x] \notin taken
            <4>1. x \notin taken
                BY <2>4, <3>2, Numbers
            <4> QED
                BY <1>3, <2>4, <3>2, <4>1 DEF WellLinked, LinksApart
        <3> QED
            BY <3>1, <3>2
    <2> QED
        BY <2>1, <2>2, <2>3, <2>4 DEF LinksApart
<1>6. KindsAgree(map2, e)
    <2> SUFFICES ASSUME NEW x \in Usable
                 PROVE  /\ map2[x] = EMPTY => e[x] = Blank
                        /\ e[x].kind = "dir" => map2[x] = END_OF_FILE
        BY DEF KindsAgree
    <2>1. CASE x \in taken
        BY <2>1, Numbers
    <2>2. CASE x \notin taken
        <3>1. map2[x] = map[x] /\ e[x].kind = d[x].kind
            BY <1>3, <2>2
        <3>2. map[x] = EMPTY => e[x] = Blank
            BY <1>3, <2>2, Kinds DEF WellLinked, KindsAgree
        <3> QED
            BY <3>1, <3>2 DEF WellLinked, KindsAgree
    <2> QED
        BY <2>1, <2>2
<1>7. DataInOrder(map2, e)
    <2> SUFFICES ASSUME NEW x \in Usable, e[x].kind = "data"
                 PROVE  LET p == e[x].payload
                            k == e[x].index
                        IN  /\ k <= Size[p]
                            /\ k = Size[p] => map2[x] = END_OF_FILE
                            /\ k # Size[p] => map2[x] \in Usable /\ e[map2[x]] = Data(p, k + 1)
        BY DEF DataInOrder
    <2>1. CASE x \in taken
        BY <2>1
    <2>2. CASE x \notin taken
        <3>1. d[x].kind = "data" /\ e[x] = d[x] /\ map2[x] = map[x]
            BY <1>3, <2>2
        <3>2. ASSUME d[x].index # Size[d[x].payload]
              PROVE  e[map[x]] = Data(d[x].payload, d[x].index + 1) /\ map[x] \in Usable
            <4>1. map[x] \in Usable /\ d[map[x]] = Data(d[x].payload, d[x].index + 1)
                BY <3>1, <3>2 DEF WellLinked, DataInOrder
            <4>2. map[x] \notin taken
                BY <1>4, <2>2
            <4>3. map[x] # parent
                BY <4>1, Kinds
            <4> QED
                BY <1>3, <4>1, <4>2, <4>3
        <3> QED
            BY <3>1, <3>2 DEF WellLinked, DataInOrder
    <2> QED
        BY <2>1, <2>2
<1>8. ASSUME NEW r \in ListingsOn(e)
      PROVE  \/ r \in ListingsOn(d) /\ EntryOn(e, r) = EntryOn(d, r)
             \/ r = <<parent, idx>> /\ EntryOn(e, r) = entry
    <2>1. r \in Clusters \X (Slots \ {0}) /\ e[r[1]].kind = "dir" /\ e[r[1]].table[r[2]].used
        BY DEF ListingsOn
    <2>2. r[1] \notin taken /\ r[1] # FAT_CLUSTER_NUMBER /\ r = <<r[1], r[2]>>
        BY <1>2, <2>1, Kinds DEF Reserved
    <2>3. CASE r[1] # parent
        BY <2>1, <2>2, <2>3 DEF ListingsOn, EntryOn
    <2>4. CASE r[1] = parent
        <3>1. d[parent].table \in Tables /\ e[r[1]].table = [d[parent].table EXCEPT ![idx] = entry]
            BY <2>4, Parts, Kinds DEF WithEntry
        <3>2. CASE r[2] = idx
            BY <2>1, <2>2, <2>4, <3>1, <3>2 DEF EntryOn, Tables
        <3>3. CASE r[2] # idx
            <4>1. e[r[1]].table[r[2]] = d[parent].table[r[2]]
                BY <2>1, <3>1, <3>3 DEF Tables
            <4> QED
                BY <2>1, <2>4, <4>1 DEF ListingsOn, EntryOn
        <3> QED
            BY <3>2, <3>3
    <2> QED
        BY <2>3, <2>4
<1>9. ASSUME NEW r \in ListingsOn(d)
      PROVE  /\ EntryOn(d, r).cluster \in Usable \ taken
             /\ EntryOn(d, r).cluster # head
    <2>1. EntryOn(d, r) \in Entry
        BY ListingPlace
    <2>2. EntryOn(d, r).cluster \in Usable /\ d[EntryOn(d, r).cluster].kind \in {"dir", "data"}
        BY DEF WellLinked, EntriesOwn
    <2>3. \A x \in taken : d[x].kind = "blank"
        BY Kinds DEF WellLinked, KindsAgree
    <2> QED
        BY <2>2, <2>3
<1>10. EntriesOwn(map2, e)
    <2>1. ASSUME NEW r \in ListingsOn(e)
          PROVE  LET c == EntryOn(e, r).cluster
                 IN  /\ c \in Usable
                     /\ \A x \in Usable : map2[x] # c
                     /\ EntryOn(e, r).dir => e[c].kind = "dir"
                     /\ ~EntryOn(e, r).dir => /\ e[c].kind = "data"
                                              /\ e[c].index = 1
                                              /\ EntryOn(e, r).size = Size[e[c].payload]
        <3>1. CASE r \in ListingsOn(d) /\ EntryOn(e, r) = EntryOn(d, r)
            <4> DEFINE c == EntryOn(d, r).cluster
            <4>1. c \in Usable /\ c \notin taken /\ c # END_OF_FILE
                BY <1>9, <3>1, Numbers
            <4>2. \A x \in Usable : map2[x] # c
                BY <1>3, <3>1, <4>1 DEF WellLinked, EntriesOwn
            <4>3. EntryOn(d, r).dir => e[c].kind = "dir"
                BY <1>3, <3>1, <4>1 DEF WellLinked, EntriesOwn
            <4>4. ~EntryOn(d, r).dir => /\ e[c].kind = "data"
                                        /\ e[c].index = 1
                                        /\ EntryOn(d, r).size = Size[e[c].payload]
                BY <1>3, <3>1, <4>1 DEF WellLinked, EntriesOwn
            <4> QED
                BY <3>1, <4>1, <4>2, <4>3, <4>4
        <3>2. CASE r = <<parent, idx>> /\ EntryOn(e, r) = entry
            <4>1. \A x \in Usable : map2[x] # head
                BY <1>3, <1>4, Numbers
            <4> QED
                BY <3>2, <4>1
        <3> QED
            BY <1>8, <3>1, <3>2
    <2>2. ASSUME NEW r \in ListingsOn(e), NEW q \in ListingsOn(e),
                 EntryOn(e, r).cluster = EntryOn(e, q).cluster
          PROVE  r = q
        BY <1>8, <1>9, <2>2 DEF WellLinked, EntriesOwn
    <2> QED
        BY <2>1, <2>2 DEF EntriesOwn
<1>11. Filled(map, d) => Filled(map2, e)
    BY <1>3 DEF Filled
<1> QED
    BY <1>2, <1>5, <1>6, <1>7, <1>10, <1>11 DEF WellLinked

-----------------------------------------------------------------------------
(* The steps of the driver.                                                *)

LEMMA ReservedMap ==
    ASSUME NEW m, NEW d, Reserved(m, d)
    PROVE  MapOn(d) = m
BY Kinds DEF Reserved, MapOn

LEMMA FormattedDisk ==
    ASSUME TypeOK, Bootable
    PROVE  /\ SavedMap \in Maps /\ disk \in [Clusters -> Content]
           /\ Reserved(SavedMap, disk) /\ WellLinked(SavedMap, disk)
<1>1. disk[FAT_CLUSTER_NUMBER] \in Content /\ disk[FAT_CLUSTER_NUMBER].kind = "fat"
    BY Numbers DEF TypeOK, Bootable
<1>2. SavedMap \in Maps /\ disk[FAT_CLUSTER_NUMBER] = FatImage(SavedMap)
    BY <1>1, Parts DEF SavedMap, MapOn
<1> QED
    BY <1>2 DEF Bootable, Reserved, TypeOK

LEMMA StaysFormatted ==
    ASSUME NEW m, Reserved(m, disk'), WellLinked(m, disk'), status' = "on", fat' = m
    PROVE  Bootable' /\ (Filled(m, disk') => Formatted')
<1>1. SavedMap' = m
    BY ReservedMap DEF SavedMap
<1> QED
    BY <1>1, Kinds DEF Formatted, Bootable, Reserved

(* The slot a request finds, if it is in use, is a listing.                *)
LEMMA FoundListing ==
    ASSUME TypeOK, NEW parent \in Clusters, NEW idx \in Slots, idx # 0, Table(parent)[idx].used
    PROVE  /\ <<parent, idx>> \in ListingsOn(disk)
           /\ EntryOn(disk, <<parent, idx>>) = Table(parent)[idx]
           /\ Table(parent) = disk[parent].table
<1>1. ~EmptyTable[idx].used
    BY DEF EmptyTable, EmptyEntry
<1>2. disk[parent].kind = "dir" /\ Table(parent) = disk[parent].table
    BY <1>1 DEF Table
<1> QED
    BY <1>2 DEF ListingsOn, EntryOn

(* A listing's chain: allocated clusters no other entry or outside link    *)
(* leads to, with an end.                                                  *)
LEMMA ListingChain ==
    ASSUME NEW map \in Maps, NEW d \in [Clusters -> Content], WellLinked(map, d),
           NEW s \in ListingsOn(d)
    PROVE  LET c == EntryOn(d, s).cluster
           IN  /\ c \in Usable /\ c \in Chain(map, c)
               /\ Chain(map, c) \subseteq Usable
               /\ Ends(map, c)
               /\ \A x \in Chain(map, c) : map[x] # EMPTY
               /\ \A x \in Usable \ Chain(map, c) : map[x] \notin Chain(map, c)
               /\ \A r \in ListingsOn(d) : r # s => EntryOn(d, r).cluster \notin Chain(map, c)
<1> DEFINE c == EntryOn(d, s).cluster
           K == Chain(map, c)
<1>1. /\ c \in Usable /\ c \in Clusters /\ d[c].kind \in {"dir", "data"}
      /\ \A x \in Usable : map[x] # c
    BY Numbers DEF WellLinked, EntriesOwn
<1>2. c \in K
    BY <1>1, ChainBasics
<1>3. K \subseteq Usable /\ Ends(map, c) /\ \A x \in K : map[x] # EMPTY
    <2>1. CASE d[c].kind = "dir"
        <3>1. map[c] = END_OF_FILE
            BY <1>1, <2>1 DEF WellLinked, KindsAgree
        <3>2. K = {c}
            BY <1>1, <3>1, ChainOfTable, Numbers
        <3> QED
            BY <1>1, <3>1, <3>2, Numbers DEF Ends
    <2>2. CASE d[c].kind = "data"
        <3>1. /\ \A x \in K : x \in Usable /\ d[x].kind = "data"
              /\ Ends(map, c)
            BY <1>1, <2>2, ChainOfFile
        <3>2. ASSUME NEW x \in K PROVE map[x] # EMPTY
            BY <3>1, Kinds DEF WellLinked, KindsAgree, DataInOrder
        <3> QED
            BY <3>1, <3>2
    <2> QED
        BY <1>1, <2>1, <2>2
<1>4. ASSUME NEW x \in Usable \ K, map[x] \in K PROVE FALSE
    <2>1. map[x] # c
        BY <1>1
    <2>2. PICK y \in K : map[y] = map[x]
        BY <1>1, <1>4, <2>1, ChainPredecessor
    <2>3. x = y
        BY <1>3, <1>4, <2>2 DEF WellLinked, LinksApart
    <2> QED
        BY <2>3
<1>5. ASSUME NEW r \in ListingsOn(d), r # s, EntryOn(d, r).cluster \in K PROVE FALSE
    <2> DEFINE h == EntryOn(d, r).cluster
    <2>1. h # c
        BY <1>5 DEF WellLinked, EntriesOwn
    <2>2. PICK y \in K : map[y] = h
        BY <1>1, <1>5, <2>1, ChainPredecessor
    <2> QED
        BY <1>3, <2>2 DEF WellLinked, EntriesOwn
<1> QED
    BY <1>1, <1>2, <1>3, <1>4, <1>5

LEMMA DeleteFolderKeeps ==
    ASSUME TypeOK, Bootable, NEW parent \in Clusters, NEW name \in AllNames,
           DeleteFolder(parent, name), Sound'
    PROVE  Bootable' /\ (Formatted => Formatted')
<1> DEFINE idx == TargetSlot(Table(parent), name, NoExt, TRUE)
           entry == Table(parent)[idx]
           s == <<parent, idx>>
           c == entry.cluster
<1>1. idx \in Slots /\ idx # 0
    BY SlotsFound DEF DeleteFolder
<1>2. entry.used
    BY DEF DeleteFolder, Provoke, DeleteMishaps, Sound
<1>3. /\ s \in ListingsOn(disk) /\ EntryOn(disk, s) = entry
      /\ Table(parent) = disk[parent].table
    BY <1>1, <1>2, FoundListing
<1>4. /\ SavedMap \in Maps /\ disk \in [Clusters -> Content] /\ fat = SavedMap
      /\ Reserved(SavedMap, disk) /\ WellLinked(SavedMap, disk)
    BY FormattedDisk DEF Bootable, DeleteFolder
<1>5. /\ c \in Usable
      /\ \A x \in Usable \ {c} : SavedMap[x] \notin {c}
      /\ \A r \in ListingsOn(disk) : r # s => EntryOn(disk, r).cluster \notin {c}
    BY <1>3, <1>4 DEF WellLinked, EntriesOwn
<1>6. fat' = Freed(SavedMap, {c})
    BY <1>4 DEF DeleteFolder, Freed, Maps
<1>7. disk' = [x \in Clusters |->
                 IF x = FAT_CLUSTER_NUMBER THEN FatImage(Freed(SavedMap, {c}))
                 ELSE IF x \in {c} THEN Blank
                 ELSE IF x = s[1] THEN Dir(Without(disk[s[1]].table, s[2]))
                 ELSE disk[x]]
    BY <1>3, <1>6 DEF DeleteFolder, DiskWithoutFolder
<1>8. /\ WellLinked(Freed(SavedMap, {c}), disk')
      /\ Reserved(Freed(SavedMap, {c}), disk')
      /\ Filled(SavedMap, disk) => Filled(Freed(SavedMap, {c}), disk')
    <2>1. /\ s \in ListingsOn(disk) /\ {c} \in SUBSET Usable
          /\ EntryOn(disk, s).cluster \in {c}
        BY <1>3, <1>5
    <2> HIDE DEF s, c
    <2> QED
        BY <1>4, <1>5, <1>7, <2>1, RemovalConsistent
<1>9. status' = "on"
    BY DEF DeleteFolder
<1> QED
    BY <1>6, <1>8, <1>9, StaysFormatted DEF Formatted

(* The disk without a listing and its chain.                               *)
WithoutListing(map, d, s) ==
    LET gone == Chain(map, EntryOn(d, s).cluster)
    IN  [x \in Clusters |->
            IF x = FAT_CLUSTER_NUMBER THEN FatImage(Freed(map, gone))
            ELSE IF x \in gone THEN Blank
            ELSE IF x = s[1] THEN Dir(Without(d[s[1]].table, s[2]))
            ELSE d[x]]

(* A deletion of a file takes a listing away, with its chain: on a disk in *)
(* order no walk goes astray.                                              *)
LEMMA DeleteFileRemoves ==
    ASSUME TypeOK, Bootable, NEW parent \in Clusters, NEW name \in AllNames, NEW ext \in AllExts,
           DeleteFile(parent, name, ext) \/ DeleteFileAstray(parent, name, ext), Sound'
    PROVE  /\ DeleteFile(parent, name, ext) /\ fat = SavedMap
           /\ \E s \in ListingsOn(disk) :
                 /\ s[1] = parent
                 /\ EntryOn(disk, s) = Table(parent)[TargetSlot(Table(parent), name, ext, FALSE)]
                 /\ fat' = Freed(SavedMap, Chain(SavedMap, EntryOn(disk, s).cluster))
                 /\ disk' = WithoutListing(SavedMap, disk, s)
<1> DEFINE idx == TargetSlot(Table(parent), name, ext, FALSE)
           entry == Table(parent)[idx]
           s == <<parent, idx>>
           gone == Chain(SavedMap, entry.cluster)
<1>1. idx \in Slots /\ idx # 0
    BY SlotsFound DEF DeleteFile, DeleteFileAstray
<1>2. entry.used
    BY DEF DeleteFile, DeleteFileAstray, Provoke, DeleteMishaps, Sound
<1>3. /\ s \in ListingsOn(disk) /\ EntryOn(disk, s) = entry
      /\ Table(parent) = disk[parent].table
    BY <1>1, <1>2, FoundListing
<1>4. /\ SavedMap \in Maps /\ disk \in [Clusters -> Content] /\ fat = SavedMap
      /\ Reserved(SavedMap, disk) /\ WellLinked(SavedMap, disk)
    BY FormattedDisk DEF Bootable, DeleteFile, DeleteFileAstray
<1>5. Ends(SavedMap, entry.cluster)
    <2>1. Ends(SavedMap, EntryOn(disk, s).cluster)
        <3> HIDE DEF s
        <3> QED BY <1>3, <1>4, ListingChain
    <2> QED
        BY <1>3, <2>1
<1>6. DeleteFile(parent, name, ext)
    BY <1>4, <1>5 DEF DeleteFileAstray
<1>7. fat' = Freed(SavedMap, gone)
    BY <1>4, <1>6 DEF DeleteFile
<1>8. disk' = [x \in Clusters |->
                 IF x = FAT_CLUSTER_NUMBER THEN FatImage(Freed(SavedMap, gone))
                 ELSE IF x \in gone THEN Blank
                 ELSE IF x = s[1] THEN Dir(Without(disk[s[1]].table, s[2]))
                 ELSE disk[x]]
    BY <1>3, <1>4, <1>6, <1>7 DEF DeleteFile, DiskWithoutFile
<1>9. s[1] = parent /\ EntryOn(disk, s).cluster = entry.cluster
    BY <1>3
<1>10. disk' = WithoutListing(SavedMap, disk, s)
    BY <1>3, <1>8 DEF WithoutListing
<1> HIDE DEF s, idx
<1> QED
    BY <1>3, <1>4, <1>6, <1>7, <1>9, <1>10 DEF idx

LEMMA DeleteFileKeeps ==
    ASSUME TypeOK, Bootable, NEW parent \in Clusters, NEW name \in AllNames, NEW ext \in AllExts,
           DeleteFile(parent, name, ext) \/ DeleteFileAstray(parent, name, ext), Sound'
    PROVE  Bootable' /\ (Formatted => Formatted')
<1>1. PICK s \in ListingsOn(disk) :
          /\ fat' = Freed(SavedMap, Chain(SavedMap, EntryOn(disk, s).cluster))
          /\ disk' = WithoutListing(SavedMap, disk, s)
    BY DeleteFileRemoves
<1> DEFINE gone == Chain(SavedMap, EntryOn(disk, s).cluster)
<1>3. DeleteFile(parent, name, ext)
    BY DeleteFileRemoves
<1>4. /\ SavedMap \in Maps /\ disk \in [Clusters -> Content]
      /\ Reserved(SavedMap, disk) /\ WellLinked(SavedMap, disk)
    BY FormattedDisk
<1>5. /\ EntryOn(disk, s).cluster \in gone /\ gone \subseteq Usable
      /\ \A x \in Usable \ gone : SavedMap[x] \notin gone
      /\ \A r \in ListingsOn(disk) : r # s => EntryOn(disk, r).cluster \notin gone
    BY <1>4, ListingChain
<1>7. /\ fat' = Freed(SavedMap, gone)
      /\ disk' = [x \in Clusters |->
                    IF x = FAT_CLUSTER_NUMBER THEN FatImage(Freed(SavedMap, gone))
                    ELSE IF x \in gone THEN Blank
                    ELSE IF x = s[1] THEN Dir(Without(disk[s[1]].table, s[2]))
                    ELSE disk[x]]
    BY <1>1 DEF WithoutListing
<1>9. /\ WellLinked(Freed(SavedMap, gone), disk') /\ Reserved(Freed(SavedMap, gone), disk')
      /\ Filled(SavedMap, disk) => Filled(Freed(SavedMap, gone), disk')
    <2>1. gone \in SUBSET Usable /\ EntryOn(disk, s).cluster \in gone
        BY <1>5
    <2> HIDE DEF gone
    <2> QED
        BY <1>4, <1>5, <1>7, <2>1, RemovalConsistent
<1>10. status' = "on"
    BY <1>3 DEF DeleteFile
<1> QED
    BY <1>7, <1>9, <1>10, StaysFormatted DEF Formatted

LEMMA DirectoryTable ==
    ASSUME NEW parent, IsDirectory(parent)
    PROVE  disk[parent].kind = "dir" /\ Table(parent) = disk[parent].table
<1>1. ~EmptyTable[0].dir
    BY Numbers DEF EmptyTable, EmptyEntry
<1> QED
    BY <1>1 DEF IsDirectory, Table

LEMMA MakeDirectoryKeeps ==
    ASSUME TypeOK, Bootable, NEW parent \in Clusters, NEW name \in AllNames,
           MakeDirectory(parent, name), Sound'
    PROVE  Bootable' /\ (Formatted => Formatted')
<1> DEFINE c == First(Free(fat))
           entry == DirEntry(name, c)
           taken == {c}
<1>1. /\ SavedMap \in Maps /\ disk \in [Clusters -> Content] /\ fat = SavedMap
      /\ Reserved(SavedMap, disk) /\ WellLinked(SavedMap, disk)
    BY FormattedDisk DEF Bootable, MakeDirectory
<1>2. Free(fat) # {}
    BY DEF MakeDirectory, Provoke, WriteMishaps, Sound
<1>3. c \in Usable /\ c \in Clusters /\ fat[c] = EMPTY
    BY <1>2, FreeTyped, Numbers DEF Free
<1>4. /\ fat' = [SavedMap EXCEPT ![c] = END_OF_FILE]
      /\ disk' = DiskWithFolder(parent, name, c, fat')
      /\ status' = "on"
    BY <1>1, <1>2 DEF MakeDirectory, Claimed
<1>5. fat' \in Maps /\ disk' \in [Clusters -> Content]
    BY MakeDirectoryTyped DEF TypeOK
<1>6. disk[parent].kind = "dir" /\ Table(parent) = disk[parent].table
    BY DirectoryTable DEF MakeDirectory
<1>7. disk[c] = Blank
    BY <1>1, <1>3 DEF WellLinked, KindsAgree
<1>8. parent # c /\ parent # FAT_CLUSTER_NUMBER /\ c # FAT_CLUSTER_NUMBER
    BY <1>1, <1>3, <1>6, <1>7, Kinds, Numbers DEF Reserved
<1>9. /\ disk'[FAT_CLUSTER_NUMBER] = FatImage(fat')
      /\ disk'[parent] = Dir(WithEntry(disk[parent].table, entry))
      /\ disk'[c] = Dir(NewTable(name, c))
      /\ \A x \in Clusters \ (taken \cup {parent, FAT_CLUSTER_NUMBER}) : disk'[x] = disk[x]
    BY <1>3, <1>4, <1>6, <1>8, Numbers DEF DiskWithFolder
<1>10. disk'[c].kind = "dir" /\ \A i \in Slots \ {0} : ~disk'[c].table[i].used
    <2>1. disk'[c].kind = "dir" /\ disk'[c].table = NewTable(name, c)
        BY <1>9, Kinds
    <2>2. \A i \in Slots \ {0} : ~NewTable(name, c)[i].used
        BY DEF NewTable, EmptyEntry
    <2> QED
        BY <2>1, <2>2
<1>11. fat'[c] = END_OF_FILE /\ \A x \in Clusters \ taken : fat'[x] = SavedMap[x]
    BY <1>1, <1>3, <1>4 DEF Maps
<1>12. entry \in Entry /\ entry.cluster = c /\ entry.dir = TRUE
    BY <1>3, Entries DEF DirEntry
<1>13. /\ WellLinked(fat', disk') /\ Reserved(fat', disk')
       /\ Filled(SavedMap, disk) => Filled(fat', disk')
    <2>1. taken \in SUBSET Usable /\ c \in taken /\ \A x \in taken : SavedMap[x] = EMPTY
        BY <1>1, <1>3
    <2>2. /\ \A x \in taken : fat'[x] \in (taken \ {c}) \cup {END_OF_FILE}
          /\ \A x, y \in taken : fat'[x] \in taken /\ fat'[x] = fat'[y] => x = y
        BY <1>11
    <2>3. \A x \in taken : /\ disk'[x].kind = "dir"
                           /\ fat'[x] = END_OF_FILE
                           /\ \A i \in Slots \ {0} : ~disk'[x].table[i].used
        BY <1>10, <1>11
    <2>4. Insertion(SavedMap, disk, taken, c, parent, entry, fat', disk')
        <3> HIDE DEF c, taken, entry
        <3> QED
            BY <1>1, <1>6, <1>9, <1>10, <1>11, <1>12, <2>1, <2>2, <2>3 DEF Insertion
    <2> QED
        BY <1>1, <1>5, <1>12, <2>1, <2>4, InsertionConsistent
<1> QED
    BY <1>4, <1>13, StaysFormatted DEF Formatted

(* The search of write, when it found all it needs: n free clusters in     *)
(* ascending order, so none is listed twice.                               *)
LEMMA FirstFitDistinct ==
    ASSUME NEW n \in Nat, NEW list \in [1 .. n -> Clusters],
           \A i, j \in 1 .. n : i < j => list[i] < list[j]
    PROVE  /\ \A i, j \in 1 .. n : list[i] = list[j] => i = j
           /\ \A i \in 1 .. n : LastAt(list, list[i]) = i
<1>1. ASSUME NEW i \in 1 .. n, NEW j \in 1 .. n, list[i] = list[j] PROVE i = j
    <2>1. list[i] \in Nat /\ list[j] \in Nat
        BY Numbers
    <2>2. ~(list[i] < list[j]) /\ ~(list[j] < list[i])
        BY <1>1, <2>1
    <2>3. ~(i < j) /\ ~(j < i)
        BY <2>2
    <2> QED
        BY <2>3
<1>2. ASSUME NEW i \in 1 .. n PROVE LastAt(list, list[i]) = i
    <2>1. PICK c \in Listed(list) : c = list[i]
        BY DEF Listed
    <2>2. LastAt(list, c) \in 1 .. n /\ list[LastAt(list, c)] = c
        BY LastAtListed
    <2> QED
        BY <1>1, <2>1, <2>2
<1> QED
    BY <1>1, <1>2

LEMMA StoreFileKeeps ==
    ASSUME TypeOK, Bootable, NEW parent \in Clusters, NEW name \in AllNames, NEW ext \in AllExts,
           NEW p \in Payloads, StoreFile(parent, name, ext, p), Sound'
    PROVE  Bootable' /\ (Formatted => Formatted')
<1> DEFINE n == Size[p]
<1>1. PICK list \in [1 .. n -> Clusters], m \in 0 .. n :
          /\ FirstFit(list, m, n)
          /\ Provoke(WriteMishaps(parent, name, m, n))
          /\ fat' = Linked(fat, list, n)
          /\ disk' = DiskWithFile(parent, name, ext, p, list, fat')
    BY DEF StoreFile, StoreFileIn
<1> DEFINE entry == FileEntry(name, ext, p, list[1])
           taken == Listed(list)
<1>2. n \in Nat /\ n >= 1 /\ 1 \in 1 .. n
    BY SizeOfPayload
<1>3. m = n
    BY <1>1, <1>2 DEF Provoke, WriteMishaps, Sound
<1>4. /\ SavedMap \in Maps /\ disk \in [Clusters -> Content] /\ fat = SavedMap
      /\ Reserved(SavedMap, disk) /\ WellLinked(SavedMap, disk)
    BY FormattedDisk DEF Bootable, StoreFile, StoreFileIn
<1>5. /\ \A i \in 1 .. n : list[i] \in Usable /\ SavedMap[list[i]] = EMPTY
      /\ \A i, j \in 1 .. n : i < j => list[i] < list[j]
    BY <1>1, <1>3, <1>4 DEF FirstFit, Free
<1>6. /\ \A i, j \in 1 .. n : list[i] = list[j] => i = j
      /\ \A i \in 1 .. n : LastAt(list, list[i]) = i
    BY <1>2, <1>5, FirstFitDistinct
<1>7. /\ taken \in SUBSET Usable /\ list[1] \in taken
      /\ \A x \in taken : SavedMap[x] = EMPTY
      /\ \A x \in taken : \E i \in 1 .. n : x = list[i]
      /\ \A i \in 1 .. n : list[i] \in taken
    BY <1>2, <1>5 DEF Listed
<1>8. fat' \in Maps /\ disk' \in [Clusters -> Content] /\ status' = "on"
    BY StoreFileTyped DEF TypeOK, StoreFile, StoreFileIn
<1>9. /\ \A i \in 1 .. n : fat'[list[i]] = IF i = n THEN END_OF_FILE ELSE list[i + 1]
      /\ \A x \in Clusters \ taken : fat'[x] = SavedMap[x]
    BY <1>1, <1>4, <1>6, <1>7, Numbers DEF Linked
<1>10. disk[parent].kind = "dir" /\ Table(parent) = disk[parent].table
    BY DirectoryTable DEF StoreFile, StoreFileIn
<1>11. /\ parent \notin taken /\ parent # FAT_CLUSTER_NUMBER
       /\ FAT_CLUSTER_NUMBER \notin taken
    <2>1. \A x \in taken : disk[x] = Blank
        BY <1>4, <1>7 DEF WellLinked, KindsAgree
    <2> QED
        BY <1>4, <1>7, <1>10, <2>1, Kinds, Numbers DEF Reserved
<1>12. /\ disk'[FAT_CLUSTER_NUMBER] = FatImage(fat')
       /\ disk'[parent] = Dir(WithEntry(disk[parent].table, entry))
       /\ \A x \in Clusters \ (taken \cup {parent, FAT_CLUSTER_NUMBER}) : disk'[x] = disk[x]
    BY <1>1, <1>10, <1>11, Numbers DEF DiskWithFile
<1>13. \A i \in 1 .. n : disk'[list[i]] = Data(p, i)
    <2> SUFFICES ASSUME NEW i \in 1 .. n PROVE disk'[list[i]] = Data(p, i)
        OBVIOUS
    <2>1. list[i] # parent /\ list[i] # FAT_CLUSTER_NUMBER /\ list[i] \in taken
        BY <1>7, <1>11
    <2> QED
        BY <1>1, <1>6, <2>1 DEF DiskWithFile
<1>14. /\ entry \in Entry /\ entry.cluster = list[1] /\ entry.dir = FALSE
       /\ entry.size = Size[p]
    BY <1>2, Entries DEF FileEntry
<1>15. /\ \A x \in taken : fat'[x] \in (taken \ {list[1]}) \cup {END_OF_FILE}
       /\ \A x, y \in taken : fat'[x] \in taken /\ fat'[x] = fat'[y] => x = y
       /\ \A x \in taken :
             /\ disk'[x].kind = "data"
             /\ disk'[x].index <= Size[disk'[x].payload]
             /\ disk'[x].index = Size[disk'[x].payload] => fat'[x] = END_OF_FILE
             /\ disk'[x].index # Size[disk'[x].payload] =>
                   fat'[x] \in taken /\ disk'[fat'[x]] = Data(disk'[x].payload, disk'[x].index + 1)
    <2>1. ASSUME NEW i \in 1 .. n
          PROVE  /\ i = n => fat'[list[i]] = END_OF_FILE
                 /\ i # n => /\ i + 1 \in 1 .. n /\ fat'[list[i]] = list[i + 1]
                             /\ list[i + 1] \in taken /\ list[i + 1] # list[1]
                             /\ disk'[list[i + 1]] = Data(p, i + 1)
        <3>1. i = n => fat'[list[i]] = END_OF_FILE
            BY <1>9
        <3>2. ASSUME i # n
              PROVE  /\ i + 1 \in 1 .. n /\ fat'[list[i]] = list[i + 1]
                     /\ list[i + 1] \in taken /\ list[i + 1] # list[1]
                     /\ disk'[list[i + 1]] = Data(p, i + 1)
            <4>1. i + 1 \in 1 .. n /\ i + 1 # 1
                BY <1>2, <3>2
            <4> QED
                BY <1>2, <1>6, <1>7, <1>9, <1>13, <3>2, <4>1
        <3> QED
            BY <3>1, <3>2
    <2>2. \A x \in taken : fat'[x] \in (taken \ {list[1]}) \cup {END_OF_FILE}
        BY <1>7, <2>1
    <2>3. ASSUME NEW x \in taken, NEW y \in taken, fat'[x] \in taken, fat'[x] = fat'[y]
          PROVE  x = y
        <3>1. PICK i \in 1 .. n : x = list[i]
            BY <1>7
        <3>2. PICK j \in 1 .. n : y = list[j]
            BY <1>7
        <3>3. END_OF_FILE \notin taken
            BY <1>7, Numbers
        <3>4. i # n /\ j # n
            BY <2>1, <2>3, <3>1, <3>2, <3>3
        <3>5. i + 1 = j + 1
            BY <1>6, <2>1, <2>3, <3>1, <3>2, <3>4
        <3> QED
            BY <3>1, <3>2, <3>5
    <2>4. ASSUME NEW x \in taken
          PROVE  /\ disk'[x].kind = "data"
                 /\ disk'[x].index <= Size[disk'[x].payload]
                 /\ disk'[x].index = Size[disk'[x].payload] => fat'[x] = END_OF_FILE
                 /\ disk'[x].index # Size[disk'[x].payload] =>
                       fat'[x] \in taken /\ disk'[fat'[x]] = Data(disk'[x].payload, disk'[x].index + 1)
        <3>1. PICK i \in 1 .. n : x = list[i]
            BY <1>7
        <3>2. disk'[x].kind = "data" /\ disk'[x].payload = p /\ disk'[x].index = i
            BY <1>13, <3>1, Kinds
        <3> QED
            BY <1>2, <2>1, <3>1, <3>2
    <2> QED
        BY <2>2, <2>3, <2>4
<1>16. disk'[list[1]].kind = "data" /\ disk'[list[1]].index = 1 /\ disk'[list[1]].payload = p
    BY <1>2, <1>13, Kinds
<1>17. /\ WellLinked(fat', disk') /\ Reserved(fat', disk')
       /\ Filled(SavedMap, disk) => Filled(fat', disk')
    <2>1. Insertion(SavedMap, disk, taken, list[1], parent, entry, fat', disk')
        <3> HIDE DEF taken, entry, n
        <3> QED
            BY <1>7, <1>9, <1>10, <1>12, <1>14, <1>15, <1>16 DEF Insertion
    <2> QED
        BY <1>4, <1>7, <1>8, <1>14, <2>1, InsertionConsistent
<1> QED
    BY <1>8, <1>17, StaysFormatted DEF Formatted

LEMMA FormatKeeps ==
    ASSUME TypeOK, Virgin, FormatAtBoot
    PROVE  Formatted' /\ Bootable'
<1> DEFINE root == Dir(NewTable(RootName, ROOT_CLUSTER_NUMBER))
<1>1. /\ disk'[BOOT_SECTOR] = Boot
      /\ disk'[FAT_CLUSTER_NUMBER] = FatImage(FormattedMap)
      /\ disk'[ROOT_CLUSTER_NUMBER] = root
      /\ \A x \in Usable : disk'[x] = Blank
    BY Numbers DEF FormatAtBoot, Virgin
<1>2. Reserved(FormattedMap, disk')
    BY <1>1, Kinds DEF Reserved
<1>3. /\ \A x \in {BOOT_SECTOR, FAT_CLUSTER_NUMBER, ROOT_CLUSTER_NUMBER} :
            FormattedMap[x] \notin Clusters
      /\ \A x \in Usable : FormattedMap[x] = EMPTY /\ FormattedMap[x] \notin Usable
    BY Numbers DEF FormattedMap
<1>4. ListingsOn(disk') = {}
    <2> SUFFICES ASSUME NEW s \in ListingsOn(disk') PROVE FALSE
        OBVIOUS
    <2>1. s[1] \in Clusters /\ s[2] \in Slots \ {0} /\ disk'[s[1]].kind = "dir"
          /\ disk'[s[1]].table[s[2]].used
        BY DEF ListingsOn
    <2>2. s[1] = ROOT_CLUSTER_NUMBER
        <3>1. s[1] # BOOT_SECTOR /\ s[1] # FAT_CLUSTER_NUMBER /\ s[1] \notin Usable
            BY <1>1, <2>1, Kinds
        <3>2. s[1] \in Nat /\ s[1] < ClusterCount /\ ~(s[1] > 2)
            BY <2>1, <3>1, ClusterCountAssumption DEF Clusters, Usable
        <3> QED
            BY <3>1, <3>2 DEF BOOT_SECTOR, FAT_CLUSTER_NUMBER, ROOT_CLUSTER_NUMBER
    <2>3. disk'[s[1]].table = NewTable(RootName, ROOT_CLUSTER_NUMBER)
        BY <1>1, <2>2, Kinds
    <2>4. ~NewTable(RootName, ROOT_CLUSTER_NUMBER)[s[2]].used
        BY <2>1 DEF NewTable, EmptyEntry
    <2> QED
        BY <2>1, <2>3, <2>4
<1>5. WellLinked(FormattedMap, disk')
    <2>1. LinksApart(FormattedMap)
        BY <1>3 DEF LinksApart
    <2>2. KindsAgree(FormattedMap, disk')
        BY <1>1, <1>3, Kinds DEF KindsAgree
    <2>3. DataInOrder(FormattedMap, disk')
        BY <1>1, Kinds DEF DataInOrder
    <2>4. EntriesOwn(FormattedMap, disk')
        BY <1>4 DEF EntriesOwn
    <2> QED
        BY <2>1, <2>2, <2>3, <2>4 DEF WellLinked
<1>6. Filled(FormattedMap, disk')
    BY <1>3 DEF Filled
<1> QED
    BY <1>2, <1>5, <1>6, StaysFormatted DEF FormatAtBoot

(* A read of a listed file ends, and no other call that finds nothing to   *)
(* change can hang.                                                        *)
LEMMA ReadOnlyKeeps ==
    ASSUME TypeOK, Bootable, NEW parent \in Clusters, NEW name, NEW ext, NEW asFolder, NEW buffer,
           \/ ReadDirectory(parent, name, ext)
           \/ Read(parent, name, ext, buffer)
           \/ WriteInvalidParent(parent)
           \/ MakeDirectoryExists(parent, name)
           \/ DeleteNotFound(parent, name, ext, asFolder)
           \/ DeleteFolderRefused(parent, name),
           Sound'
    PROVE  Bootable' /\ (Formatted => Formatted')
<1>1. UNCHANGED <<disk, fat, status>>
    <2>1. CASE Read(parent, name, ext, buffer)
        <3> DEFINE idx == First(Matching(Table(parent), name, ext))
                   entry == Table(parent)[idx]
        <3>1. idx # 0 => entry.used
            BY <2>1 DEF Read, Provoke, Sound
        <3>2. ASSUME idx # 0 PROVE Ends(fat, entry.cluster)
            <4> DEFINE s == <<parent, idx>>
            <4>1. idx \in Slots
                BY SlotsFound
            <4>2. s \in ListingsOn(disk) /\ EntryOn(disk, s) = entry
                BY <3>1, <3>2, <4>1, FoundListing
            <4>3. /\ SavedMap \in Maps /\ disk \in [Clusters -> Content] /\ fat = SavedMap
                  /\ WellLinked(SavedMap, disk)
                BY <2>1, FormattedDisk DEF Bootable, Read
            <4>4. Ends(SavedMap, EntryOn(disk, s).cluster)
                <5> HIDE DEF s
                <5> QED BY <4>2, <4>3, ListingChain
            <4> QED
                BY <4>2, <4>3, <4>4
        <3> QED
            BY <2>1, <3>2 DEF Read
    <2>2. CASE \/ ReadDirectory(parent, name, ext)
               \/ WriteInvalidParent(parent) \/ MakeDirectoryExists(parent, name)
               \/ DeleteNotFound(parent, name, ext, asFolder) \/ DeleteFolderRefused(parent, name)
        BY <2>2 DEF ReadDirectory, WriteInvalidParent, MakeDirectoryExists, DeleteNotFound,
                    DeleteFolderRefused
    <2> QED
        BY <2>1, <2>2
<1> QED
    BY <1>1 DEF Formatted, Bootable, SavedMap, MapOn

LEMMA PowerKeeps ==
    ASSUME TypeOK, Bootable, PowerOff \/ LoadAtBoot
    PROVE  Bootable' /\ (Formatted => Formatted')
<1>1. disk' = disk /\ SavedMap' = SavedMap
    BY DEF PowerOff, LoadAtBoot, SavedMap, MapOn
<1>2. status' # "hung" /\ (status' = "on" => fat' = SavedMap')
    BY <1>1 DEF PowerOff, LoadAtBoot
<1> QED
    BY <1>1, <1>2 DEF Formatted, Bootable

(* Calls are made of a running machine and forget no mishap.               *)
LEMMA CallsRemember ==
    ASSUME DriverCall
    PROVE  status = "on" /\ mishaps \subseteq mishaps'
<1>1. PICK parent \in Clusters :
          \/ WriteInvalidParent(parent)
          \/ \E name \in AllNames :
                \/ DirectoryCall(parent, name)
                \/ \E ext \in AllExts : FileCall(parent, name, ext)
    BY DEF DriverCall
<1>2. CASE WriteInvalidParent(parent)
    BY <1>2 DEF WriteInvalidParent
<1>3. ASSUME NEW name, DirectoryCall(parent, name)
      PROVE  status = "on" /\ mishaps \subseteq mishaps'
    BY <1>3 DEF DirectoryCall, MakeDirectoryExists, MakeDirectory, DeleteNotFound,
           DeleteFolderRefused, DeleteFolder, Provoke
<1>4. ASSUME NEW name, NEW ext, FileCall(parent, name, ext)
      PROVE  status = "on" /\ mishaps \subseteq mishaps'
    <2>1. CASE \E p \in Payloads : StoreFile(parent, name, ext, p)
        BY <2>1 DEF StoreFile, StoreFileIn, Provoke
    <2>2. CASE \E buffer \in 0 .. MaxSize : Read(parent, name, ext, buffer)
        BY <2>2 DEF Read, Provoke
    <2>3. CASE ReadDirectory(parent, name, ext) \/ DeleteNotFound(parent, name, ext, FALSE)
        BY <2>3 DEF ReadDirectory, DeleteNotFound
    <2>4. CASE DeleteFile(parent, name, ext) \/ DeleteFileAstray(parent, name, ext)
        BY <2>4 DEF DeleteFile, DeleteFileAstray, Provoke
    <2> QED
        BY <1>4, <2>1, <2>2, <2>3, <2>4 DEF FileCall
<1> QED
    BY <1>1, <1>2, <1>3, <1>4

LEMMA MishapsStay ==
    ASSUME [Next]_vars
    PROVE  mishaps \subseteq mishaps'
<1>1. CASE UNCHANGED vars
    BY <1>1 DEF vars
<1>2. CASE PowerOff \/ FormatAtBoot \/ LoadAtBoot
    BY <1>2 DEF PowerOff, FormatAtBoot, LoadAtBoot
<1>3. CASE DriverCall
    BY <1>3, CallsRemember
<1> QED
    BY <1>1, <1>2, <1>3 DEF Next

(* Every step of the driver keeps the links of the disk in order, and the  *)
(* allocated clusters filled if they are.                                  *)
LEMMA DiskKept ==
    ASSUME TypeOK, Virgin \/ Bootable, [Next]_vars, Sound'
    PROVE  /\ Virgin' \/ Bootable'
           /\ Virgin \/ Formatted => Virgin' \/ Formatted'
<1>1. Formatted => Bootable
    BY DEF Formatted
<1>2. CASE UNCHANGED vars
    BY <1>2 DEF vars, Virgin, Formatted, Bootable, SavedMap, MapOn
<1>3. CASE PowerOff \/ LoadAtBoot
    <2>1. ~Virgin
        BY <1>3, Numbers, Kinds DEF Virgin, PowerOff, LoadAtBoot
    <2> QED
        BY <1>3, <2>1, PowerKeeps
<1>4. CASE FormatAtBoot
    <2>1. Virgin
        BY <1>4 DEF Bootable, FormatAtBoot
    <2> QED
        BY <1>4, <2>1, FormatKeeps
<1>5. CASE DriverCall
    <2>1. PICK parent \in Clusters :
              \/ WriteInvalidParent(parent)
              \/ \E name \in AllNames :
                    \/ DirectoryCall(parent, name)
                    \/ \E ext \in AllExts : FileCall(parent, name, ext)
        BY <1>5 DEF DriverCall
    <2>2. Bootable /\ ~Virgin
        BY <1>5, CallsRemember DEF Virgin
    <2>3. CASE WriteInvalidParent(parent)
        BY <2>2, <2>3, ReadOnlyKeeps
    <2>4. ASSUME NEW name \in AllNames, DirectoryCall(parent, name)
          PROVE  Bootable' /\ (Formatted => Formatted')
        BY <2>2, <2>4, ReadOnlyKeeps, MakeDirectoryKeeps, DeleteFolderKeeps DEF DirectoryCall
    <2>5. ASSUME NEW name \in AllNames, NEW ext \in AllExts, FileCall(parent, name, ext)
          PROVE  Bootable' /\ (Formatted => Formatted')
        BY <2>2, <2>5, ReadOnlyKeeps, StoreFileKeeps, DeleteFileKeeps DEF FileCall
    <2> QED
        BY <2>1, <2>2, <2>3, <2>4, <2>5
<1> QED
    BY <1>2, <1>3, <1>4, <1>5 DEF Next

LEMMA InvariantKept ==
    ASSUME TypeOK, DiskInvariant, [Next]_vars
    PROVE  DiskInvariant'
<1> SUFFICES ASSUME Sound' PROVE Virgin' \/ Formatted'
    BY DEF DiskInvariant
<1>1. Virgin \/ Formatted
    BY MishapsStay DEF Sound, DiskInvariant
<1> QED
    BY <1>1, DiskKept DEF Formatted

(* As long as no unset cluster number was followed or written, the disk is *)
(* the untouched one or carries a file system whose chains are apart, end  *)
(* and hold what their entries promise.                                    *)
THEOREM DiskStaysConsistent == Spec => []DiskInvariant
<1>1. Init => DiskInvariant
    BY DEF Init, DiskInvariant, Virgin
<1>2. TypeOK /\ DiskInvariant /\ [Next]_vars => DiskInvariant'
    BY InvariantKept
<1> QED
    BY <1>1, <1>2, TypeCorrect, PTL DEF Spec

-----------------------------------------------------------------------------
(* What the invariant says to the users of the disk.                       *)

LEMMA InvariantListings ==
    ASSUME TypeOK, Virgin \/ Bootable, NEW s \in Listings
    PROVE  /\ SavedMap \in Maps /\ disk \in [Clusters -> Content]
           /\ WellLinked(SavedMap, disk) /\ s \in ListingsOn(disk)
           /\ Bootable
<1>1. ~Virgin
    <2>1. s[1] \in Clusters /\ disk[s[1]].kind = "dir"
        BY DEF Listings, ListingsOn
    <2> QED
        BY <2>1, Kinds DEF Virgin
<1> QED
    BY <1>1, FormattedDisk DEF Listings

LEMMA InvariantLinks ==
    ASSUME DiskInvariant, Sound
    PROVE  Virgin \/ Bootable
BY DEF DiskInvariant, Formatted

(* Chains of two entries are apart: where they met, one link would lead to *)
(* a cluster twice, or to an entry's first cluster.                        *)
LEMMA ListingsApart ==
    ASSUME NEW map \in Maps, NEW d \in [Clusters -> Content], WellLinked(map, d),
           NEW r \in ListingsOn(d), NEW s \in ListingsOn(d), r # s
    PROVE  Chain(map, EntryOn(d, r).cluster) \cap Chain(map, EntryOn(d, s).cluster) = {}
<1> DEFINE c == EntryOn(d, r).cluster
           A == Chain(map, c)
           B == Chain(map, EntryOn(d, s).cluster)
<1>1. c \in Usable /\ c \in A /\ A \subseteq Usable
    BY ListingChain
<1>2. /\ c \notin B
      /\ \A x \in Usable \ B : map[x] \notin B
    BY ListingChain
<1>3. c \in Clusters
    BY <1>1, Numbers
<1>4. A \ B \in SUBSET Clusters /\ Closed(map, A \ B)
    <2>1. A \subseteq Clusters /\ Closed(map, A)
        BY <1>3, ChainBasics
    <2> QED
        BY <1>1, <1>2, <2>1 DEF Closed
<1>5. A \subseteq A \ B
    BY <1>1, <1>2, <1>3, <1>4, ChainBasics
<1> QED
    BY <1>5

LEMMA OwnedOnceOnDisk ==
    ASSUME TypeOK, Virgin \/ Bootable
    PROVE  OwnedOnce
<1> SUFFICES ASSUME NEW r \in Listings, NEW s \in Listings, r # s
             PROVE  ChainAt(r) \cap ChainAt(s) = {}
    BY DEF OwnedOnce
<1>1. /\ SavedMap \in Maps /\ disk \in [Clusters -> Content] /\ WellLinked(SavedMap, disk)
      /\ r \in ListingsOn(disk) /\ s \in ListingsOn(disk)
    BY InvariantListings
<1> QED
    BY <1>1, ListingsApart DEF ChainAt, EntryAt

LEMMA NothingDanglesOnDisk ==
    ASSUME TypeOK, Virgin \/ Bootable
    PROVE  NothingDangles
<1> SUFFICES ASSUME NEW s \in Listings
             PROVE  /\ ChainAt(s) \subseteq Usable \ Free(SavedMap)
                    /\ Ends(SavedMap, EntryAt(s).cluster)
                    /\ disk[EntryAt(s).cluster].kind = IF EntryAt(s).dir THEN "dir" ELSE "data"
    BY DEF NothingDangles
<1> DEFINE map == SavedMap
           c == EntryOn(disk, s).cluster
<1>1. /\ map \in Maps /\ disk \in [Clusters -> Content] /\ WellLinked(map, disk)
      /\ s \in ListingsOn(disk)
    BY InvariantListings
<1>2. /\ Chain(map, c) \subseteq Usable /\ Ends(map, c)
      /\ \A x \in Chain(map, c) : map[x] # EMPTY
    <2> HIDE DEF map
    <2> QED BY <1>1, ListingChain
<1>3. disk[c].kind = IF EntryOn(disk, s).dir THEN "dir" ELSE "data"
    BY <1>1 DEF WellLinked, EntriesOwn
<1> QED
    BY <1>2, <1>3 DEF ChainAt, EntryAt, Free

(* No cluster belongs to two entries.                                      *)
THEOREM ChainsApart == Spec => []OwnedOnce
<1>1. TypeOK /\ DiskInvariant => OwnedOnce
    BY InvariantLinks, OwnedOnceOnDisk DEF OwnedOnce
<1> QED
    BY <1>1, TypeCorrect, DiskStaysConsistent, PTL

(* Every entry leads to a chain of allocated clusters that ends.           *)
THEOREM EntriesLead == Spec => []NothingDangles
<1>1. TypeOK /\ DiskInvariant => NothingDangles
    BY InvariantLinks, NothingDanglesOnDisk DEF NothingDangles
<1> QED
    BY <1>1, TypeCorrect, DiskStaysConsistent, PTL

(* Between two calls the FAT in memory is the FAT on the disk, which a boot *)
(* loads.                                                                  *)
THEOREM RebootsRestore == Spec => []RebootRestores
<1>1. DiskInvariant => RebootRestores
    BY DEF DiskInvariant, Virgin, Formatted, Bootable, RebootRestores
<1> QED
    BY <1>1, DiskStaysConsistent, PTL

(* No call follows a chain for ever or out of the FAT.                     *)
THEOREM CallsReturn == Spec => []NeverHangs
<1>1. DiskInvariant => NeverHangs
    BY DEF DiskInvariant, Virgin, Formatted, Bootable, NeverHangs
<1> QED
    BY <1>1, DiskStaysConsistent, PTL

=============================================================================
