------------------------- MODULE Fat32PowerCutProofs -------------------------
(***************************************************************************)
(* What a power cut can and cannot do to the disk, proved for every size   *)
(* of the disk and the tables and any number of cuts: a call that is over  *)
(* is on the media, a cut spares all entries but the one the call is       *)
(* about, and an interrupted delete of a file only leaks clusters.         *)
(***************************************************************************)
EXTENDS Fat32PowerCut, Fat32StoreProofs, FiniteSetTheorems

-----------------------------------------------------------------------------
(* Sequences of clusters and what they hold.                               *)

Holds(q, x) == \E i \in 1 .. Len(q) : q[i] = x

LEMMA ConcatHolds ==
    ASSUME NEW q \in Seq(Clusters), NEW r \in Seq(Clusters)
    PROVE  /\ q \o r \in Seq(Clusters)
           /\ \A x : Holds(q, x) \/ Holds(r, x) => Holds(q \o r, x)
<1>1. q \o r \in Seq(Clusters) /\ Len(q \o r) = Len(q) + Len(r)
    OBVIOUS
<1>2. ASSUME NEW x, Holds(q, x) PROVE Holds(q \o r, x)
    <2>1. PICK i \in 1 .. Len(q) : q[i] = x
        BY <1>2 DEF Holds
    <2>2. i \in 1 .. Len(q \o r) /\ (q \o r)[i] = x
        BY <1>1, <2>1
    <2> QED
        BY <2>2 DEF Holds
<1>3. ASSUME NEW x, Holds(r, x) PROVE Holds(q \o r, x)
    <2>1. PICK i \in 1 .. Len(r) : r[i] = x
        BY <1>3 DEF Holds
    <2>2. Len(q) + i \in 1 .. Len(q \o r) /\ (q \o r)[Len(q) + i] = x
        BY <1>1, <2>1
    <2> QED
        BY <2>2 DEF Holds
<1> QED
    BY <1>1, <1>2, <1>3

LEMMA ShortSequences ==
    /\ \A x \in Clusters : <<x>> \in Seq(Clusters) /\ Holds(<<x>>, x)
    /\ \A x, y \in Clusters : /\ <<x, y>> \in Seq(Clusters)
                              /\ Holds(<<x, y>>, x) /\ Holds(<<x, y>>, y)
    /\ <<>> \in Seq(Clusters)
<1>1. ASSUME NEW x \in Clusters PROVE <<x>> \in Seq(Clusters) /\ Holds(<<x>>, x)
    <2>1. Len(<<x>>) = 1 /\ <<x>>[1] = x
        OBVIOUS
    <2> QED
        BY <2>1 DEF Holds
<1>2. ASSUME NEW x \in Clusters, NEW y \in Clusters
      PROVE  <<x, y>> \in Seq(Clusters) /\ Holds(<<x, y>>, x) /\ Holds(<<x, y>>, y)
    <2>1. Len(<<x, y>>) = 2 /\ <<x, y>>[1] = x /\ <<x, y>>[2] = y
        OBVIOUS
    <2>2. 1 \in 1 .. 2 /\ 2 \in 1 .. 2
        OBVIOUS
    <2> QED
        BY <2>1, <2>2 DEF Holds
<1> QED
    BY <1>1, <1>2

-----------------------------------------------------------------------------
(* A walk of as many steps as its chain has clusters passes each of them   *)
(* once: the clusters passed are closed under the map but for the next.    *)

Visits(map, c, n, w) ==
    /\ n \in Nat /\ n >= 1
    /\ w \in [1 .. n -> Clusters]
    /\ w[1] = c
    /\ \A i \in 1 .. n : i # n => w[i + 1] = map[w[i]]
    /\ \A i \in 1 .. n : w[i] \in Chain(map, c)
    /\ \A x \in Chain(map, c) : \E i \in 1 .. n : w[i] = x

LEMMA ChainFinite ==
    ASSUME NEW map, NEW c \in Clusters
    PROVE  IsFiniteSet(Chain(map, c)) /\ Cardinality(Chain(map, c)) \in Nat
<1>1. IsFiniteSet(Clusters)
    BY FS_Interval, ClusterCountAssumption DEF Clusters
<1> QED
    BY <1>1, ChainBasics, FS_Subset, FS_CardinalityType

LEMMA WalkVisits ==
    ASSUME NEW map \in Maps, NEW c \in Clusters
    PROVE  Visits(map, c, Cardinality(Chain(map, c)), WalkedClusters(map, c))
<1> DEFINE K == Chain(map, c)
           n == Cardinality(K)
           w == Walk(map, c, n)
           (* the first k clusters are of the chain and differ *)
           Apart(k) == /\ \A i \in 1 .. k : w[i] \in K
                       /\ \A i, j \in 1 .. k : w[i] = w[j] => i = j
           Wrong == {k \in 1 .. n : ~Apart(k)}
<1>1. /\ IsFiniteSet(K) /\ n \in Nat
      /\ K \subseteq Clusters /\ c \in K /\ Closed(map, K)
      /\ \A S \in SUBSET Clusters : c \in S /\ Closed(map, S) => K \subseteq S
    BY ChainFinite, ChainBasics
<1>2. n >= 1
    <2>1. n # 0
        BY <1>1, FS_EmptySet
    <2> QED
        BY <1>1, <2>1
<1>3. w = [k \in 1 .. n |-> IF k = 1 THEN c
                            ELSE IF w[k - 1] \in Clusters THEN map[w[k - 1]] ELSE END_OF_FILE]
    BY <1>1, WalkSteps DEF WalkFrom
<1> HIDE DEF K, n, w
<1>4. w[1] = c
    BY <1>1, <1>2, <1>3
<1>5. ASSUME NEW k \in 1 .. n, k # 1, w[k - 1] \in Clusters PROVE w[k] = map[w[k - 1]]
    BY <1>3, <1>5
<1>6. Wrong = {}
    <2> SUFFICES ASSUME Wrong # {} PROVE FALSE
        OBVIOUS
    <2>1. PICK k \in Wrong : \A j \in Wrong : k <= j
        <3>1. Wrong \in SUBSET Nat
            BY <1>1
        <3> HIDE DEF Wrong
        <3> QED
            BY <3>1, LeastNumber
    <2>2. k \in 1 .. n /\ ~Apart(k) /\ k \in Nat
        BY <1>1
    <2>3. k # 1
        BY <1>1, <1>4, <2>2
    <2>4. k - 1 \in 1 .. n /\ k - 1 \in Nat /\ k - 1 < n /\ Apart(k - 1)
        BY <1>1, <2>1, <2>2, <2>3
    <2> DEFINE Passed == {w[i] : i \in 1 .. k - 1}
               f == [i \in 1 .. k - 1 |-> w[i]]
    <2>5. Passed \subseteq K /\ c \in Passed
        BY <1>4, <2>4
    <2>6. f \in Surjection(1 .. k - 1, Passed)
        BY DEF Surjection
    <2>7. Cardinality(Passed) <= k - 1
        <3>1. IsFiniteSet(1 .. k - 1) /\ Cardinality(1 .. k - 1) = k - 1
            BY <2>4, FS_Interval
        <3> HIDE DEF f, Passed
        <3> QED
            BY <2>6, <3>1, FS_Surjection
    <2>8. ~(K \subseteq Passed)
        <3> SUFFICES ASSUME K \subseteq Passed PROVE FALSE
            OBVIOUS
        <3>1. K = Passed
            BY <2>5
        <3>2. Cardinality(K) <= k - 1
            BY <2>7, <3>1
        <3> QED
            BY <1>1, <2>4, <3>2 DEF n
    <2>9. ~Closed(map, Passed)
        BY <1>1, <2>5, <2>8
    <2>10. PICK i \in 1 .. k - 1 : map[w[i]] \in Clusters /\ map[w[i]] \notin Passed
        BY <2>9 DEF Closed
    <2>11. i = k - 1
        <3> SUFFICES ASSUME i # k - 1 PROVE FALSE
            OBVIOUS
        <3>1. i \in Nat /\ i >= 1 /\ i <= k - 1
            BY <2>2, <2>4
        <3>2. i + 1 \in 1 .. n /\ i + 1 # 1 /\ (i + 1) - 1 = i /\ i + 1 \in 1 .. k - 1
            BY <1>1, <2>2, <2>4, <3>1
        <3>3. w[i] \in Clusters
            BY <1>1, <2>4
        <3>4. w[i + 1] = map[w[i]]
            BY <1>5, <3>2, <3>3
        <3> QED
            BY <2>10, <3>2, <3>4
    <2>12. w[k - 1] \in K /\ w[k - 1] \in Clusters
        BY <1>1, <2>4, <2>10, <2>11
    <2>13. w[k] = map[w[k - 1]]
        BY <1>5, <2>2, <2>3, <2>12
    <2>14. w[k] \in K /\ w[k] \notin Passed
        BY <1>1, <2>10, <2>11, <2>12, <2>13 DEF Closed
    <2>15. Apart(k)
        <3>1. ASSUME NEW j \in 1 .. k PROVE j = k \/ j \in 1 .. k - 1
            BY <2>2
        <3> QED
            BY <2>4, <2>14, <3>1
    <2> QED
        BY <2>2, <2>15
<1>7. Apart(n)
    BY <1>1, <1>2, <1>6
<1>8. w \in Injection(1 .. n, K)
    <2>1. w \in [1 .. n -> K]
        BY <1>3, <1>7
    <2> QED
        BY <1>7, <2>1 DEF Injection, IsInjective
<1>9. w \in Surjection(1 .. n, K)
    <2>1. Cardinality(1 .. n) = n
        BY <1>1, <1>2, FS_Interval
    <2> QED
        BY <1>1, <1>8, <2>1, FS_Injection DEF n
<1>10. \A x \in K : \E i \in 1 .. n : w[i] = x
    BY <1>9 DEF Surjection
<1>11. w \in [1 .. n -> Clusters] /\ \A i \in 1 .. n : w[i] \in K
    BY <1>1, <1>8 DEF Injection
<1>12. ASSUME NEW i \in 1 .. n, i # n PROVE w[i + 1] = map[w[i]]
    <2>1. i + 1 \in 1 .. n /\ i + 1 # 1 /\ (i + 1) - 1 = i
        BY <1>1, <1>12
    <2> QED
        BY <1>5, <1>11, <2>1
<1>13. Visits(map, c, n, w)
    BY <1>1, <1>2, <1>4, <1>10, <1>11, <1>12 DEF Visits, K
<1> QED
    BY <1>13 DEF n, w, K, WalkedClusters

-----------------------------------------------------------------------------
(* The queue of a call names every cluster the call changes.               *)

Covered(q) == /\ q \in Seq(Clusters)
              /\ \A x \in Clusters : disk'[x] # disk[x] => Holds(q, x)

LEMMA VisitsHolds ==
    ASSUME NEW map \in Maps, NEW c \in Clusters
    PROVE  /\ WalkedClusters(map, c) \in Seq(Clusters)
           /\ \A x \in Chain(map, c) : Holds(WalkedClusters(map, c), x)
<1> DEFINE n == Cardinality(Chain(map, c))
           w == WalkedClusters(map, c)
<1>1. Visits(map, c, n, w)
    BY WalkVisits
<1> HIDE DEF n, w
<1>2. w \in Seq(Clusters) /\ Len(w) = n
    BY <1>1 DEF Visits
<1>3. \A x \in Chain(map, c) : Holds(w, x)
    BY <1>1, <1>2 DEF Visits, Holds
<1> QED
    BY <1>2, <1>3 DEF w

LEMMA FormatCovered ==
    ASSUME TypeOK, CutFormat
    PROVE  Covered(queue')
<1> DEFINE q == <<BOOT_SECTOR, FAT_CLUSTER_NUMBER, ROOT_CLUSTER_NUMBER>>
<1>1. q \in Seq(Clusters) /\ Len(q) = 3
    BY Numbers
<1>2. ASSUME NEW x \in Clusters, disk'[x] # disk[x] PROVE Holds(q, x)
    <2>1. x \in {BOOT_SECTOR, FAT_CLUSTER_NUMBER, ROOT_CLUSTER_NUMBER}
        BY <1>2 DEF CutFormat, FormatAtBoot, TypeOK
    <2>2. 1 \in 1 .. 3 /\ 2 \in 1 .. 3 /\ 3 \in 1 .. 3
        OBVIOUS
    <2>3. q[1] = BOOT_SECTOR /\ q[2] = FAT_CLUSTER_NUMBER /\ q[3] = ROOT_CLUSTER_NUMBER
        OBVIOUS
    <2> HIDE DEF q
    <2> QED
        BY <1>1, <2>1, <2>2, <2>3 DEF Holds
<1>3. queue' = q
    BY DEF CutFormat, Writes
<1> HIDE DEF q
<1> QED
    BY <1>1, <1>2, <1>3 DEF Covered

LEMMA MakeDirectoryCovered ==
    ASSUME TypeOK, NEW parent \in Clusters, NEW name \in AllNames, CutMakeDirectory(parent, name)
    PROVE  Covered(queue')
<1> DEFINE c == First(Free(fat))
           q == <<c, parent, FAT_CLUSTER_NUMBER>>
<1>1. c \in Clusters
    <2>1. CASE Free(fat) = {}
        BY <2>1, ClusterCountAssumption DEF First, Clusters
    <2>2. CASE Free(fat) # {}
        BY <2>2, FreeTyped, Numbers
    <2> QED
        BY <2>1, <2>2
<1>2. disk' = DiskWithFolder(parent, name, c, fat') /\ queue' = q
    BY DEF CutMakeDirectory, MakeDirectory, Writes
<1> HIDE DEF c
<1>3. q \in Seq(Clusters) /\ Len(q) = 3
    BY <1>1, Numbers
<1>4. ASSUME NEW x \in Clusters, disk'[x] # disk[x] PROVE Holds(q, x)
    <2>1. x \in {c, parent, FAT_CLUSTER_NUMBER}
        BY <1>2, <1>4 DEF DiskWithFolder
    <2>2. 1 \in 1 .. 3 /\ 2 \in 1 .. 3 /\ 3 \in 1 .. 3
        OBVIOUS
    <2>3. q[1] = c /\ q[2] = parent /\ q[3] = FAT_CLUSTER_NUMBER
        OBVIOUS
    <2> HIDE DEF q
    <2> QED
        BY <1>3, <2>1, <2>2, <2>3 DEF Holds
<1> HIDE DEF q
<1> QED
    BY <1>2, <1>3, <1>4 DEF Covered

LEMMA StoreFileCovered ==
    ASSUME TypeOK, NEW parent \in Clusters, NEW name \in AllNames, NEW ext \in AllExts,
           NEW p \in Payloads, CutStoreFile(parent, name, ext, p)
    PROVE  Covered(queue')
<1>1. PICK list \in [1 .. Size[p] -> Clusters] :
          /\ disk' = DiskWithFile(parent, name, ext, p, list, fat')
          /\ queue' = list \o <<parent, FAT_CLUSTER_NUMBER>>
    BY DEF CutStoreFile, StoreFileIn, Writes
<1>2. list \in Seq(Clusters) /\ Len(list) = Size[p]
    BY SizeOfPayload
<1>3. \A x \in Listed(list) : Holds(list, x)
    <2>1. DOMAIN list = 1 .. Len(list)
        BY <1>2
    <2> QED
        BY <2>1 DEF Listed, Holds
<1> DEFINE r == <<parent, FAT_CLUSTER_NUMBER>>
<1>4. r \in Seq(Clusters) /\ Holds(r, parent) /\ Holds(r, FAT_CLUSTER_NUMBER)
    BY ShortSequences, Numbers
<1> HIDE DEF r
<1>5. /\ list \o r \in Seq(Clusters)
      /\ \A x : Holds(list, x) \/ Holds(r, x) => Holds(list \o r, x)
    BY <1>2, <1>4, ConcatHolds
<1>6. \A x \in Clusters : disk'[x] # disk[x] =>
          x \in Listed(list) \/ x = parent \/ x = FAT_CLUSTER_NUMBER
    BY <1>1 DEF DiskWithFile
<1>7. queue' = list \o r
    BY <1>1 DEF r
<1> QED
    BY <1>3, <1>4, <1>5, <1>6, <1>7 DEF Covered

LEMMA DeleteFolderCovered ==
    ASSUME TypeOK, NEW parent \in Clusters, NEW name \in AllNames, CutDeleteFolder(parent, name)
    PROVE  Covered(queue')
<1> DEFINE idx == TargetSlot(Table(parent), name, NoExt, TRUE)
           c == Table(parent)[idx].cluster
           q == <<FAT_CLUSTER_NUMBER, parent, c, FAT_CLUSTER_NUMBER>>
<1>1. c \in Clusters
    BY SlotsFound, TableTyped DEF Tables, Entry
<1>2. disk' = DiskWithoutFolder(parent, idx, c, fat') /\ queue' = q
    BY DEF CutDeleteFolder, DeleteFolder, Writes
<1> HIDE DEF idx, c
<1>3. q \in Seq(Clusters) /\ Len(q) = 4
    BY <1>1, Numbers
<1>4. ASSUME NEW x \in Clusters, disk'[x] # disk[x] PROVE Holds(q, x)
    <2>1. x \in {c, parent, FAT_CLUSTER_NUMBER}
        BY <1>2, <1>4 DEF DiskWithoutFolder
    <2>2. 1 \in 1 .. 4 /\ 2 \in 1 .. 4 /\ 3 \in 1 .. 4
        OBVIOUS
    <2>3. q[1] = FAT_CLUSTER_NUMBER /\ q[2] = parent /\ q[3] = c
        OBVIOUS
    <2> HIDE DEF q
    <2> QED
        BY <1>3, <2>1, <2>2, <2>3 DEF Holds
<1> HIDE DEF q
<1> QED
    BY <1>2, <1>3, <1>4 DEF Covered

LEMMA DeleteFileCovered ==
    ASSUME TypeOK, NEW parent \in Clusters, NEW name \in AllNames, NEW ext \in AllExts,
           CutDeleteFile(parent, name, ext)
    PROVE  Covered(queue')
<1> DEFINE idx == TargetSlot(Table(parent), name, ext, FALSE)
           c == Table(parent)[idx].cluster
           gone == Chain(fat, c)
           w == WalkedClusters(fat, c)
<1>1. c \in Clusters /\ fat \in Maps
    BY SlotsFound, TableTyped DEF Tables, Entry, TypeOK
<1>2. /\ disk' = DiskWithoutFile(parent, idx, gone, fat')
      /\ queue' = <<parent>> \o w \o <<FAT_CLUSTER_NUMBER>>
    BY DEF CutDeleteFile, DeleteFile, Writes, DeleteFileOrder
<1>3. w \in Seq(Clusters) /\ \A x \in gone : Holds(w, x)
    <2> HIDE DEF c
    <2> QED
        BY <1>1, VisitsHolds
<1> HIDE DEF idx, c, gone, w
<1>4. /\ <<parent>> \in Seq(Clusters) /\ Holds(<<parent>>, parent)
      /\ <<FAT_CLUSTER_NUMBER>> \in Seq(Clusters) /\ Holds(<<FAT_CLUSTER_NUMBER>>, FAT_CLUSTER_NUMBER)
    BY ShortSequences, Numbers
<1>5. /\ <<parent>> \o w \in Seq(Clusters)
      /\ \A x : Holds(<<parent>>, x) \/ Holds(w, x) => Holds(<<parent>> \o w, x)
    BY <1>3, <1>4, ConcatHolds
<1>6. /\ queue' \in Seq(Clusters)
      /\ \A x : Holds(<<parent>> \o w, x) \/ Holds(<<FAT_CLUSTER_NUMBER>>, x) => Holds(queue', x)
    BY <1>2, <1>4, <1>5, ConcatHolds
<1>7. \A x \in Clusters : disk'[x] # disk[x] =>
          x \in gone \/ x = parent \/ x = FAT_CLUSTER_NUMBER
    BY <1>2 DEF DiskWithoutFile
<1> QED
    BY <1>3, <1>4, <1>5, <1>6, <1>7 DEF Covered

LEMMA DeleteFileAstrayCovered ==
    ASSUME TypeOK, NEW parent \in Clusters, NEW name \in AllNames, NEW ext \in AllExts,
           CutDeleteFileAstray(parent, name, ext)
    PROVE  Covered(queue')
<1> DEFINE idx == TargetSlot(Table(parent), name, ext, FALSE)
           c == Table(parent)[idx].cluster
           w == WalkedClusters(fat, c)
           second == IF Circles(fat, c) THEN WalkedClusters(AfterCircle(fat, c), BOOT_SECTOR) ELSE <<>>
           last == IF EraseEnds(fat, c) THEN <<FAT_CLUSTER_NUMBER>> ELSE <<>>
<1>1. c \in Clusters /\ fat \in Maps
    BY SlotsFound, TableTyped DEF Tables, Entry, TypeOK
<1>2. queue' = <<parent>> \o w \o second \o last
    BY DEF CutDeleteFileAstray, Writes, AstrayOrder
<1>3. \A x \in Clusters : disk'[x] # disk[x] =>
          \/ x \in Erased(fat, c) \/ x = parent
          \/ EraseEnds(fat, c) /\ x = FAT_CLUSTER_NUMBER
    <2>1. disk' = [x \in Clusters |->
                       IF EraseEnds(fat, c) /\ x = FAT_CLUSTER_NUMBER THEN FatImage(fat')
                       ELSE IF x \in Erased(fat, c) THEN Blank
                       ELSE IF x = parent THEN Dir(Without(Table(parent), idx))
                       ELSE disk[x]]
        BY DEF CutDeleteFileAstray, DeleteFileAstray
    <2> HIDE DEF idx, c
    <2> QED
        BY <2>1
<1> HIDE DEF idx, c
<1>4. w \in Seq(Clusters) /\ \A x \in Chain(fat, c) : Holds(w, x)
    BY <1>1, VisitsHolds
<1>5. /\ second \in Seq(Clusters)
      /\ Circles(fat, c) => \A x \in Chain(AfterCircle(fat, c), BOOT_SECTOR) : Holds(second, x)
    <2>1. AfterCircle(fat, c) \in Maps /\ BOOT_SECTOR \in Clusters
        BY <1>1, FreedTyped, Numbers DEF AfterCircle
    <2>2. /\ WalkedClusters(AfterCircle(fat, c), BOOT_SECTOR) \in Seq(Clusters)
          /\ \A x \in Chain(AfterCircle(fat, c), BOOT_SECTOR) :
                Holds(WalkedClusters(AfterCircle(fat, c), BOOT_SECTOR), x)
        BY <2>1, VisitsHolds
    <2> QED
        BY <2>2, ShortSequences
<1>6. last \in Seq(Clusters) /\ (EraseEnds(fat, c) => Holds(last, FAT_CLUSTER_NUMBER))
    BY ShortSequences, Numbers
<1>7. <<parent>> \in Seq(Clusters) /\ Holds(<<parent>>, parent)
    BY ShortSequences
<1> HIDE DEF w, second, last
<1>8. /\ <<parent>> \o w \in Seq(Clusters)
      /\ \A x : Holds(<<parent>>, x) \/ Holds(w, x) => Holds(<<parent>> \o w, x)
    BY <1>4, <1>7, ConcatHolds
<1>9. /\ <<parent>> \o w \o second \in Seq(Clusters)
      /\ \A x : Holds(<<parent>> \o w, x) \/ Holds(second, x) => Holds(<<parent>> \o w \o second, x)
    BY <1>5, <1>8, ConcatHolds
<1>10. /\ queue' \in Seq(Clusters)
       /\ \A x : Holds(<<parent>> \o w \o second, x) \/ Holds(last, x) => Holds(queue', x)
    BY <1>2, <1>6, <1>9, ConcatHolds
<1>11. \A x \in Erased(fat, c) : Holds(w, x) \/ Holds(second, x)
    BY <1>4, <1>5 DEF Erased
<1> QED
    BY <1>3, <1>6, <1>7, <1>8, <1>9, <1>10, <1>11 DEF Covered

-----------------------------------------------------------------------------
(* The steps: a call that writes, one that does not, a cluster reaching    *)
(* the media and a power cut.                                              *)

CallWrites ==
    /\ Idle /\ Next /\ Covered(queue') /\ call' \in Calls
    /\ UNCHANGED <<media, cut>>

CallWritesNothing == Idle /\ Next /\ UNCHANGED disk /\ WritesNothing

LEMMA NoWriteCall ==
    ASSUME NEW parent \in Clusters, NEW name \in AllNames, NEW ext \in AllExts,
           CutNoWrite(parent, name, ext)
    PROVE  CallWritesNothing
<1>1. Idle /\ WritesNothing
    BY DEF CutNoWrite
<1>2. CASE WriteInvalidParent(parent)
    BY <1>1, <1>2 DEF WriteInvalidParent, CallWritesNothing, Next, DriverCall
<1>3. CASE \/ MakeDirectoryExists(parent, name) \/ DeleteFolderRefused(parent, name)
           \/ ReadDirectory(parent, name, ext) \/ DeleteNotFound(parent, name, ext, FALSE)
           \/ \E buffer \in 0 .. MaxSize : Read(parent, name, ext, buffer)
    <2>1. UNCHANGED disk
        BY <1>3 DEF MakeDirectoryExists, DeleteFolderRefused, ReadDirectory, DeleteNotFound, Read
    <2>2. DirectoryCall(parent, name) \/ FileCall(parent, name, ext)
        BY <1>3 DEF DirectoryCall, FileCall
    <2> QED
        BY <1>1, <2>1, <2>2 DEF CallWritesNothing, Next, DriverCall
<1>4. CASE DeleteNotFound(parent, name, ext, TRUE)
    <2>1. UNCHANGED disk /\ DeleteNotFound(parent, name, NoExt, TRUE)
        BY <1>4 DEF DeleteNotFound, TargetSlot
    <2>2. DirectoryCall(parent, name)
        BY <2>1 DEF DirectoryCall
    <2> QED
        BY <1>1, <2>1, <2>2 DEF CallWritesNothing, Next, DriverCall
<1> QED
    BY <1>2, <1>3, <1>4 DEF CutNoWrite

LEMMA Steps ==
    ASSUME TypeOK, CutNext
    PROVE  CallWrites \/ CallWritesNothing \/ WriteCluster \/ PowerCut
<1>1. CASE CutFormat
    BY <1>1, FormatCovered DEF CutFormat, CallWrites, Next, Writes, Calls
<1>2. CASE CutLoad
    BY <1>2 DEF CutLoad, LoadAtBoot, CallWritesNothing, Next
<1>3. ASSUME NEW parent \in Clusters, NEW name \in AllNames, CutMakeDirectory(parent, name)
      PROVE  CallWrites
    <2>1. Next
        BY <1>3 DEF CutMakeDirectory, Next, DriverCall, DirectoryCall
    <2> QED
        BY <1>3, <2>1, MakeDirectoryCovered DEF CutMakeDirectory, CallWrites, Writes, Calls
<1>4. ASSUME NEW parent \in Clusters, NEW name \in AllNames, CutDeleteFolder(parent, name)
      PROVE  CallWrites
    <2>1. Next
        BY <1>4 DEF CutDeleteFolder, Next, DriverCall, DirectoryCall
    <2> QED
        BY <1>4, <2>1, DeleteFolderCovered DEF CutDeleteFolder, CallWrites, Writes, Calls
<1>5. ASSUME NEW parent \in Clusters, NEW name \in AllNames, NEW ext \in AllExts,
             NEW p \in Payloads, CutStoreFile(parent, name, ext, p)
      PROVE  CallWrites
    <2>1. StoreFile(parent, name, ext, p)
        BY <1>5 DEF CutStoreFile, StoreFile
    <2>2. Next
        BY <2>1 DEF Next, DriverCall, FileCall
    <2> QED
        BY <1>5, <2>2, StoreFileCovered DEF CutStoreFile, CallWrites, Writes, Calls
<1>6. ASSUME NEW parent \in Clusters, NEW name \in AllNames, NEW ext \in AllExts,
             CutDeleteFile(parent, name, ext)
      PROVE  CallWrites
    <2>1. Next
        BY <1>6 DEF CutDeleteFile, Next, DriverCall, FileCall
    <2> QED
        BY <1>6, <2>1, DeleteFileCovered DEF CutDeleteFile, CallWrites, Writes, Calls
<1>7. ASSUME NEW parent \in Clusters, NEW name \in AllNames, NEW ext \in AllExts,
             CutDeleteFileAstray(parent, name, ext)
      PROVE  CallWrites
    <2>1. Next
        BY <1>7 DEF CutDeleteFileAstray, Next, DriverCall, FileCall
    <2> QED
        BY <1>7, <2>1, DeleteFileAstrayCovered DEF CutDeleteFileAstray, CallWrites, Writes, Calls
<1> QED
    BY <1>1, <1>2, <1>3, <1>4, <1>5, <1>6, <1>7, NoWriteCall DEF CutNext

-----------------------------------------------------------------------------
(* What differs between the media and the disk is queued.                  *)

Pending == \A x \in Clusters : media[x] # disk[x] => Holds(queue, x)

LEMMA CutTypesKept ==
    ASSUME CutTypeOK, CutNext
    PROVE  CutTypeOK'
<1>1. CASE CallWrites \/ CallWritesNothing
    <2>1. TypeOK'
        BY <1>1, TypesKept DEF CutTypeOK, CallWrites, CallWritesNothing
    <2> QED
        BY <1>1, <2>1 DEF CutTypeOK, CallWrites, CallWritesNothing, Covered, WritesNothing
<1>2. CASE WriteCluster
    <2>1. queue # <<>> /\ queue \in Seq(Clusters)
        BY <1>2 DEF WriteCluster, Idle, CutTypeOK
    <2>2. Head(queue) \in Clusters /\ Tail(queue) \in Seq(Clusters)
        BY <2>1
    <2>3. media' \in [Clusters -> Content]
        BY <1>2, <2>2 DEF WriteCluster, CutTypeOK, TypeOK
    <2> QED
        BY <1>2, <2>2, <2>3 DEF WriteCluster, CutTypeOK, TypeOK, vars
<1>3. CASE PowerCut
    <2>1. TypeOK'
        BY <1>3, Values DEF PowerCut, CutTypeOK, TypeOK, Return
    <2>2. cut' \subseteq Calls
        BY <1>3 DEF PowerCut, CutTypeOK
    <2> QED
        BY <1>3, <2>1, <2>2, ShortSequences DEF PowerCut, CutTypeOK
<1> QED
    BY <1>1, <1>2, <1>3, Steps DEF CutTypeOK

(* The variables keep their types, the media a disk's.                     *)
THEOREM CutTypeCorrect == CutSpec => []CutTypeOK
<1>1. CutInit => CutTypeOK
    BY ShortSequences, Contents, Values DEF CutInit, CutTypeOK, Init, TypeOK, Calls
<1>2. CutTypeOK /\ [CutNext]_cutVars => CutTypeOK'
    <2> SUFFICES ASSUME CutTypeOK, UNCHANGED cutVars PROVE CutTypeOK'
        BY CutTypesKept
    <2> QED
        BY DEF cutVars, CutTypeOK, TypeOK
<1> QED
    BY <1>1, <1>2, PTL DEF CutSpec

LEMMA HeadWritten ==
    ASSUME CutTypeOK, WriteCluster
    PROVE  /\ Head(queue) \in Clusters
           /\ media'[Head(queue)] = disk[Head(queue)]
           /\ \A x \in Clusters : x # Head(queue) => media'[x] = media[x]
           /\ \A x : Holds(queue, x) /\ x # Head(queue) => Holds(queue', x)
           /\ disk' = disk /\ UNCHANGED <<vars, call, cut>>
<1>1. queue # <<>> /\ queue \in Seq(Clusters) /\ queue' = Tail(queue)
    BY DEF WriteCluster, Idle, CutTypeOK
<1>2. Head(queue) \in Clusters /\ queue' \in Seq(Clusters)
    BY <1>1
<1>3. media' = [media EXCEPT ![Head(queue)] = disk[Head(queue)]]
    BY DEF WriteCluster
<1>4. ASSUME NEW x, Holds(queue, x), x # Head(queue) PROVE Holds(queue', x)
    <2>1. PICK i \in 1 .. Len(queue) : queue[i] = x
        BY <1>4 DEF Holds
    <2>2. i # 1 /\ i \in Nat /\ i >= 1 /\ i <= Len(queue)
        BY <1>1, <1>4, <2>1
    <2>3. Len(queue') = Len(queue) - 1 /\ i - 1 \in 1 .. Len(queue')
        BY <1>1, <2>2
    <2>4. queue'[i - 1] = queue[i]
        BY <1>1, <2>2, <2>3
    <2> QED
        BY <2>1, <2>3, <2>4 DEF Holds
<1> QED
    BY <1>2, <1>3, <1>4 DEF WriteCluster, CutTypeOK, vars

LEMMA PendingWhenIdle ==
    ASSUME CutTypeOK, Pending, Idle
    PROVE  media = disk
<1>1. Len(queue) = 0
    BY DEF Idle
<1>2. \A x \in Clusters : media[x] = disk[x]
    BY <1>1 DEF Pending, Holds
<1>3. media = [x \in Clusters |-> media[x]] /\ disk = [x \in Clusters |-> disk[x]]
    BY DEF CutTypeOK, TypeOK
<1> QED
    BY <1>2, <1>3

LEMMA PendingKept ==
    ASSUME CutTypeOK, Pending, CutNext
    PROVE  Pending'
<1>1. CASE CallWrites
    <2>1. media = disk
        BY <1>1, PendingWhenIdle DEF CallWrites
    <2> QED
        BY <1>1, <2>1 DEF CallWrites, Covered, Pending
<1>2. CASE CallWritesNothing
    BY <1>2 DEF CallWritesNothing, WritesNothing, Pending, Holds
<1>3. CASE WriteCluster
    BY <1>3, HeadWritten DEF Pending
<1>4. CASE PowerCut
    BY <1>4 DEF PowerCut, Pending
<1> QED
    BY <1>1, <1>2, <1>3, <1>4, Steps DEF CutTypeOK

LEMMA StaysPending == CutSpec => [](CutTypeOK /\ Pending)
<1>1. CutInit => Pending
    BY DEF CutInit, Pending
<1>2. CutTypeOK /\ Pending /\ [CutNext]_cutVars => Pending'
    <2>1. ASSUME Pending, UNCHANGED cutVars PROVE Pending'
        BY <2>1 DEF cutVars, Pending, Holds
    <2> QED
        BY <2>1, PendingKept
<1> QED
    BY <1>1, <1>2, CutTypeCorrect, PTL DEF CutSpec

(* When a call is over, all it changed is on the media, whatever the FAT   *)
(* it worked on: damaged by earlier cuts or not, circling or not.          *)
THEOREM CallsReachMedia == CutSpec => []CallsAreWritten
<1>1. CutTypeOK /\ Pending => CallsAreWritten
    BY PendingWhenIdle DEF CallsAreWritten
<1> QED
    BY <1>1, StaysPending, PTL

-----------------------------------------------------------------------------
(* One entry moves from disk d to disk e: the one at place comes, goes or  *)
(* changes, and the clusters of T, which list nothing and belong to no     *)
(* other entry, come or go with it.                                        *)

Bare(content) == content.kind = "dir" => \A i \in Slots \ {0} : ~content.table[i].used

OneEntryMoves(d, e, place, T) ==
    /\ place \in Clusters \X (Slots \ {0})
    /\ T \subseteq Usable
    /\ d[place[1]].kind = "dir" /\ e[place[1]].kind = "dir"
    /\ \A i \in Slots \ {0, place[2]} : e[place[1]].table[i] = d[place[1]].table[i]
    /\ \A x \in T : Bare(d[x]) /\ Bare(e[x])
    /\ \A x \in Clusters \ (T \cup {place[1], FAT_CLUSTER_NUMBER}) : e[x] = d[x]
    /\ d[FAT_CLUSTER_NUMBER].kind = "fat" /\ e[FAT_CLUSTER_NUMBER].kind = "fat"
    /\ \A x \in Usable \ T : MapOn(e)[x] = MapOn(d)[x]
    /\ \A s \in ListingsOn(d) : s # place =>
          LET c == EntryOn(d, s).cluster
          IN  /\ c \in Clusters /\ Ends(MapOn(d), c)
              /\ Chain(MapOn(d), c) \subseteq Usable \ T
              /\ place[1] \in Chain(MapOn(d), c) => EntryOn(d, s).dir

(* Each cluster of m is as in d or as in e.                                *)
Between(d, e, m) == \A x \in Clusters : m[x] \in {d[x], e[x]}

LEMMA ChainSame ==
    ASSUME NEW map, NEW map2, NEW c \in Clusters,
           \A x \in Chain(map, c) : map2[x] = map[x]
    PROVE  Chain(map2, c) = Chain(map, c) /\ (Ends(map, c) => Ends(map2, c))
<1> DEFINE K == Chain(map, c)
           L == Chain(map2, c)
<1>1. K \in SUBSET Clusters /\ c \in K /\ Closed(map, K)
    BY ChainBasics
<1>2. Closed(map2, K)
    BY <1>1 DEF Closed
<1>3. L \in SUBSET Clusters /\ c \in L /\ Closed(map2, L) /\ L \subseteq K
    BY <1>1, <1>2, ChainBasics
<1>4. Closed(map, L)
    BY <1>3 DEF Closed
<1>5. K \subseteq L
    BY <1>3, <1>4, ChainBasics
<1> QED
    BY <1>3, <1>5 DEF Ends

(* The other listings are the same on every disk between the two.          *)
LEMMA ListedElsewhere ==
    ASSUME NEW d, NEW e, NEW place, NEW T, OneEntryMoves(d, e, place, T),
           NEW m, Between(d, e, m), NEW n, Between(d, e, n),
           NEW s \in ListingsOn(m), s # place
    PROVE  s \in ListingsOn(n) /\ EntryOn(n, s) = EntryOn(m, s)
<1>1. /\ s[1] \in Clusters /\ s[2] \in Slots \ {0} /\ s = <<s[1], s[2]>>
      /\ s \in Clusters \X (Slots \ {0})
      /\ m[s[1]].kind = "dir" /\ m[s[1]].table[s[2]].used
    BY DEF ListingsOn
<1>2. m[s[1]] \in {d[s[1]], e[s[1]]} /\ n[s[1]] \in {d[s[1]], e[s[1]]}
    BY <1>1 DEF Between
<1>3. s[1] \notin T
    BY <1>1, <1>2 DEF OneEntryMoves, Bare
<1>4. s[1] # FAT_CLUSTER_NUMBER
    BY <1>1, <1>2 DEF OneEntryMoves
<1>5. n[s[1]].kind = "dir" /\ n[s[1]].table[s[2]] = m[s[1]].table[s[2]]
    <2>1. CASE s[1] = place[1]
        <3>1. place = <<place[1], place[2]>>
            BY DEF OneEntryMoves
        <3>2. s[2] # place[2]
            BY <1>1, <2>1, <3>1
        <3> QED
            BY <1>1, <1>2, <2>1, <3>2 DEF OneEntryMoves
    <2>2. CASE s[1] # place[1]
        <3>1. e[s[1]] = d[s[1]]
            BY <1>1, <1>3, <1>4, <2>2 DEF OneEntryMoves
        <3> QED
            BY <1>1, <1>2, <3>1
    <2> QED
        BY <2>1, <2>2
<1> QED
    BY <1>1, <1>5 DEF ListingsOn, EntryOn

(* What it takes for a listing of disk e to be there on disk m.            *)
WholeOn(e, m, s) ==
    /\ s \in ListingsOn(e) \cap ListingsOn(m)
    /\ EntryOn(e, s) = EntryOn(m, s)
    /\ LET c == EntryOn(e, s).cluster
       IN  /\ Chain(MapOn(m), c) = Chain(MapOn(e), c)
           /\ Ends(MapOn(m), c)
           /\ EntryOn(e, s).dir \/ \A x \in Chain(MapOn(e), c) : m[x] = e[x]

LEMMA OthersWhole ==
    ASSUME NEW d, NEW e, NEW place, NEW T, OneEntryMoves(d, e, place, T),
           NEW m, Between(d, e, m),
           NEW s \in ListingsOn(e) \cup ListingsOn(m), s # place
    PROVE  WholeOn(e, m, s)
<1> DEFINE c == EntryOn(e, s).cluster
           K == Chain(MapOn(d), c)
<1>1. Between(d, e, e) /\ Between(d, e, d)
    BY DEF Between
<1>2. /\ s \in ListingsOn(d) /\ s \in ListingsOn(e) /\ s \in ListingsOn(m)
      /\ EntryOn(e, s) = EntryOn(d, s) /\ EntryOn(m, s) = EntryOn(d, s)
    <2>1. s \in ListingsOn(d)
        BY <1>1, ListedElsewhere
    <2> QED
        BY <1>1, <2>1, ListedElsewhere
<1>3. /\ c \in Clusters /\ Ends(MapOn(d), c) /\ K \subseteq Usable \ T
      /\ place[1] \in K => EntryOn(e, s).dir
    BY <1>2 DEF OneEntryMoves
<1>4. \A x \in K : MapOn(e)[x] = MapOn(d)[x]
    BY <1>3 DEF OneEntryMoves
<1>5. MapOn(m) = MapOn(d) \/ MapOn(m) = MapOn(e)
    BY Numbers DEF Between, MapOn
<1>6. \A x \in K : MapOn(m)[x] = MapOn(d)[x]
    BY <1>4, <1>5
<1> HIDE DEF c
<1>7. Chain(MapOn(e), c) = K /\ Chain(MapOn(m), c) = K /\ Ends(MapOn(m), c)
    BY <1>3, <1>4, <1>6, ChainSame
<1>8. ASSUME ~EntryOn(e, s).dir, NEW x \in K PROVE m[x] = e[x]
    <2>1. x \in Clusters /\ x \notin T /\ x # place[1] /\ x # FAT_CLUSTER_NUMBER
        BY <1>3, <1>8, Numbers
    <2>2. e[x] = d[x]
        BY <2>1 DEF OneEntryMoves
    <2> QED
        BY <2>1, <2>2 DEF Between
<1> QED
    BY <1>2, <1>7, <1>8 DEF WholeOn, c

(* A call that replaces one entry and rewrites the clusters of T beside    *)
(* the table and the FAT moves that entry.                                 *)
LEMMA EffectMoves ==
    ASSUME Ready, fat = SavedMap, Formatted', fat' = SavedMap',
           NEW parent \in Clusters, NEW x, NEW entry,
           Replaces(disk, disk', parent, x, entry),
           NEW T \in SUBSET Usable, parent \notin T, RewritesOnly(T, parent),
           \A f \in Clusters \ T : disk'[f].kind = "dir" <=> disk[f].kind = "dir",
           \A y \in T : Bare(disk[y]) /\ Bare(disk'[y]),
           \A s \in ListingsOn(disk) : s # <<parent, x>> =>
               Chain(SavedMap, EntryOn(disk, s).cluster) \cap T = {}
    PROVE  OneEntryMoves(disk, disk', <<parent, x>>, T)
<1> DEFINE place == <<parent, x>>
<1>1. /\ x \in Slots \ {0} /\ disk[parent].kind = "dir" /\ disk'[BOOT_SECTOR] = Boot
      /\ disk'[parent].kind = "dir"
      /\ disk'[parent].table = [disk[parent].table EXCEPT ![x] = entry]
    BY Kinds DEF Replaces
<1>2. disk[parent].table \in Tables
    BY <1>1, ReadyFacts
<1>3. \A i \in Slots \ {0, x} : disk'[parent].table[i] = disk[parent].table[i]
    BY <1>1, <1>2 DEF Tables
<1>4. /\ disk[FAT_CLUSTER_NUMBER].kind = "fat" /\ disk'[FAT_CLUSTER_NUMBER].kind = "fat"
      /\ disk[BOOT_SECTOR] = Boot
      /\ disk[ROOT_CLUSTER_NUMBER].kind = "dir" /\ disk'[ROOT_CLUSTER_NUMBER].kind = "dir"
    BY DEF Ready, Formatted, Bootable
<1>5. ASSUME NEW y \in Clusters, y \notin T, y # parent, y # FAT_CLUSTER_NUMBER
      PROVE  disk'[y] = disk[y]
    <2>1. CASE y \in Usable
        BY <1>5, <2>1 DEF RewritesOnly
    <2>2. CASE y = BOOT_SECTOR
        BY <1>1, <1>4, <2>2
    <2>3. CASE y = ROOT_CLUSTER_NUMBER
        BY <1>4, <1>5, <2>3 DEF Replaces
    <2>4. y \in Usable \/ y \in {BOOT_SECTOR, FAT_CLUSTER_NUMBER, ROOT_CLUSTER_NUMBER}
        BY ClusterCountAssumption
           DEF Clusters, Usable, BOOT_SECTOR, FAT_CLUSTER_NUMBER, ROOT_CLUSTER_NUMBER
    <2> QED
        BY <1>5, <2>1, <2>2, <2>3, <2>4
<1>6. \A y \in Usable \ T : MapOn(disk')[y] = MapOn(disk)[y]
    BY DEF RewritesOnly, SavedMap
<1>7. ASSUME NEW s \in ListingsOn(disk), s # place
      PROVE  LET c == EntryOn(disk, s).cluster
             IN  /\ c \in Clusters /\ Ends(SavedMap, c)
                 /\ Chain(SavedMap, c) \subseteq Usable \ T
                 /\ parent \in Chain(SavedMap, c) => EntryOn(disk, s).dir
    <2> DEFINE c == EntryOn(disk, s).cluster
    <2>1. /\ c \in Usable /\ c \in Clusters /\ Ends(SavedMap, c)
          /\ ~EntryOn(disk, s).dir => disk[c].kind = "data"
        BY ListingTarget
    <2>2. Chain(SavedMap, c) \subseteq Usable
        BY ReadyFacts, ListingChain
    <2>3. Chain(SavedMap, c) \cap T = {}
        BY <1>7
    <2>4. ASSUME parent \in Chain(SavedMap, c), ~EntryOn(disk, s).dir PROVE FALSE
        <3> HIDE DEF c
        <3>1. disk[parent].kind = "data"
            BY <2>1, <2>4, ReadyFacts, ChainOfFile
        <3> QED
            BY <1>1, <3>1
    <2> QED
        BY <2>1, <2>2, <2>3, <2>4
<1>8. place \in Clusters \X (Slots \ {0}) /\ place[1] = parent /\ place[2] = x
    BY <1>1
<1> HIDE DEF place
<1>9. OneEntryMoves(disk, disk', place, T)
    BY <1>1, <1>3, <1>4, <1>5, <1>6, <1>7, <1>8 DEF OneEntryMoves, SavedMap
<1> QED
    BY <1>9 DEF place

(* A chain that was free, and one of another listing, are none of a        *)
(* listing's.                                                              *)
LEMMA FreeElsewhere ==
    ASSUME Ready, NEW T, \A y \in T : SavedMap[y] = EMPTY, NEW s \in ListingsOn(disk)
    PROVE  Chain(SavedMap, EntryOn(disk, s).cluster) \cap T = {}
BY ReadyFacts, ListingChain

LEMMA CallStays ==
    ASSUME TypeOK, DiskInvariant, Tidiness, DriverCall, mishaps' = {}
    PROVE  /\ Ready /\ fat = SavedMap
           /\ TypeOK' /\ Formatted' /\ fat' = SavedMap'
           /\ \A y \in Usable : fat'[y] = EMPTY => disk'[y] = Blank
<1>1. status = "on" /\ mishaps = {}
    BY CallsRemember
<1>2. Ready /\ fat = SavedMap
    BY <1>1 DEF DiskInvariant, Sound, Virgin, Tidiness, Ready, Formatted, Bootable
<1>3. TypeOK' /\ DiskInvariant' /\ status' # "off"
    BY TypesKept, InvariantKept, StaysOn DEF Next
<1>4. Formatted' /\ fat' = SavedMap'
    BY <1>3 DEF DiskInvariant, Sound, Virgin, Formatted, Bootable, TypeOK
<1>5. WellLinked(SavedMap', disk')
    BY <1>4 DEF Formatted, Bootable
<1>6. KindsAgree(fat', disk')
    BY <1>4, <1>5 DEF WellLinked
<1> QED
    BY <1>2, <1>3, <1>4, <1>6 DEF KindsAgree

LEMMA BareContents == Bare(Blank) /\ \A p, k : Bare(Data(p, k))
BY Kinds DEF Bare

Moves == \E place, T : OneEntryMoves(disk, disk', place, T)

LEMMA MakeDirectoryMoves ==
    ASSUME TypeOK, DiskInvariant, Tidiness, NEW parent \in Clusters, NEW name \in AllNames,
           MakeDirectory(parent, name), DriverCall, mishaps' = {}
    PROVE  Moves
<1>1. /\ Ready /\ fat = SavedMap /\ Formatted' /\ fat' = SavedMap'
    BY CallStays
<1>2. PICK x \in Slots \ {0}, c \in Usable :
          /\ disk[c] = Blank /\ c # parent
          /\ Replaces(disk, disk', parent, x, DirEntry(name, c))
          /\ disk'[c] = Dir(NewTable(name, c))
          /\ \A f \in Clusters \ {c} : disk'[f].kind = "dir" <=> disk[f].kind = "dir"
          /\ RewritesOnly({c}, parent)
    BY <1>1, MakeDirectoryEffect DEF Regular
<1>3. SavedMap[c] = EMPTY
    BY <1>1, <1>2, Kinds DEF Ready, Formatted, Filled
<1>4. Bare(disk[c]) /\ Bare(disk'[c])
    <2>1. \A i \in Slots \ {0} : ~NewTable(name, c)[i].used
        BY DEF NewTable, EmptyEntry
    <2> QED
        BY <1>2, <2>1, Kinds, BareContents DEF Bare
<1>5. \A s \in ListingsOn(disk) : Chain(SavedMap, EntryOn(disk, s).cluster) \cap {c} = {}
    BY <1>1, <1>3, FreeElsewhere
<1>6. OneEntryMoves(disk, disk', <<parent, x>>, {c})
    BY <1>1, <1>2, <1>4, <1>5, EffectMoves
<1> QED
    BY <1>6 DEF Moves

LEMMA StoreFileMoves ==
    ASSUME TypeOK, DiskInvariant, Tidiness, NEW parent \in Clusters, NEW name \in AllNames,
           NEW ext \in AllExts, NEW p \in Payloads, StoreFile(parent, name, ext, p),
           DriverCall, mishaps' = {}
    PROVE  Moves
<1>1. /\ Ready /\ fat = SavedMap /\ Formatted' /\ fat' = SavedMap'
    BY CallStays
<1>0. PICK x \in Slots \ {0}, c \in Usable :
          /\ Replaces(disk, disk', parent, x, FileEntry(name, ext, p, c))
          /\ \A f \in Clusters : disk'[f].kind = "dir" <=> disk[f].kind = "dir"
          /\ \E list : LaidOut(list, p) /\ RewritesOnly(Listed(list), parent)
    BY <1>1, StoreFileEffect DEF Regular
<1>2. PICK list : LaidOut(list, p) /\ RewritesOnly(Listed(list), parent)
    BY <1>0
<1> DEFINE T == Listed(list)
<1>3. \A y \in T : \E i \in 1 .. Size[p] : y = list[i]
    BY <1>2 DEF LaidOut, Listed
<1>4. \A y \in T : y \in Usable /\ SavedMap[y] = EMPTY /\ Bare(disk'[y])
    BY <1>1, <1>2, <1>3, BareContents DEF LaidOut
<1> HIDE DEF T
<1>5. ASSUME NEW y \in T PROVE disk[y] = Blank /\ Bare(disk[y]) /\ y # parent
    <2>1. disk[y] = Blank
        BY <1>1, <1>4, ReadyFacts DEF WellLinked, KindsAgree
    <2> QED
        BY <1>0, <2>1, BareContents, Kinds DEF Replaces
<1>6. \A s \in ListingsOn(disk) : Chain(SavedMap, EntryOn(disk, s).cluster) \cap T = {}
    BY <1>1, <1>4, FreeElsewhere
<1>7. RewritesOnly(T, parent)
    BY <1>2 DEF T
<1>8. OneEntryMoves(disk, disk', <<parent, x>>, T)
    BY <1>0, <1>1, <1>2, <1>4, <1>5, <1>6, <1>7, EffectMoves
<1> QED
    BY <1>8 DEF Moves

LEMMA DeleteFolderMoves ==
    ASSUME TypeOK, DiskInvariant, Tidiness, NEW parent \in Clusters, NEW name \in AllNames,
           DeleteFolder(parent, name), DriverCall, mishaps' = {}
    PROVE  Moves
<1>1. /\ Ready /\ fat = SavedMap /\ Formatted' /\ fat' = SavedMap'
    BY CallStays
<1>2. PICK x \in Slots \ {0} : RemovesFolder(parent, name, x)
    BY <1>1, DeleteFolderEffect
<1> DEFINE s == <<parent, x>>
           c == disk[parent].table[x].cluster
<1>3. /\ c # parent /\ c \in Usable /\ disk[c].kind = "dir"
      /\ \A i \in Slots \ {0} : ~disk[c].table[i].used
      /\ Replaces(disk, disk', parent, x, EmptyEntry)
      /\ disk'[c] = Blank
      /\ \A f \in Clusters \ {c} : disk'[f].kind = "dir" <=> disk[f].kind = "dir"
      /\ RewritesOnly({c}, parent)
    BY <1>2 DEF RemovesFolder
<1>4. s \in ListingsOn(disk) /\ EntryOn(disk, s).cluster = c
    BY <1>2, <1>3 DEF RemovesFolder, Replaces, ListingsOn, EntryOn
<1> HIDE DEF s, c
<1>5. Bare(disk[c]) /\ Bare(disk'[c])
    BY <1>3, BareContents DEF Bare
<1>6. \A r \in ListingsOn(disk) : r # s =>
          Chain(SavedMap, EntryOn(disk, r).cluster) \cap {c} = {}
    BY <1>1, <1>4, ReadyFacts, ListingsApart, ListingChain
<1>7. OneEntryMoves(disk, disk', <<parent, x>>, {c})
    BY <1>1, <1>3, <1>5, <1>6, EffectMoves DEF s
<1> QED
    BY <1>7 DEF Moves

LEMMA DeleteFileMoves ==
    ASSUME TypeOK, DiskInvariant, Tidiness, NEW parent \in Clusters, NEW name \in AllNames,
           NEW ext \in AllExts,
           DeleteFile(parent, name, ext) \/ DeleteFileAstray(parent, name, ext),
           DriverCall, mishaps' = {}
    PROVE  Moves
<1>1. /\ Ready /\ fat = SavedMap /\ Formatted' /\ fat' = SavedMap'
      /\ \A y \in Usable : fat'[y] = EMPTY => disk'[y] = Blank
    BY CallStays
<1>2. PICK x \in Slots \ {0} :
          /\ disk[parent].table[x].used /\ ~disk[parent].table[x].dir
          /\ Replaces(disk, disk', parent, x, EmptyEntry)
          /\ \A f \in Clusters : disk'[f].kind = "dir" <=> disk[f].kind = "dir"
          /\ LET gone == Chain(SavedMap, disk[parent].table[x].cluster)
             IN  (\A y \in gone : fat'[y] = EMPTY) /\ RewritesOnly(gone, parent)
    BY <1>1, DeleteFileEffect
<1> DEFINE s == <<parent, x>>
           c == disk[parent].table[x].cluster
           T == Chain(SavedMap, c)
<1>3. s \in ListingsOn(disk) /\ EntryOn(disk, s).cluster = c /\ EntryOn(disk, s).dir = disk[parent].table[x].dir
    BY <1>2 DEF Replaces, ListingsOn, EntryOn
<1>4. RewritesOnly(T, parent) /\ \A y \in T : fat'[y] = EMPTY
    BY <1>2
<1> HIDE DEF s, c
<1>5. c \in Usable /\ disk[c].kind = "data"
    BY <1>1, <1>2, <1>3, ListingTarget
<1>6. \A y \in T : y \in Usable /\ disk[y].kind = "data"
    BY <1>1, <1>5, ReadyFacts, ChainOfFile
<1>7. \A r \in ListingsOn(disk) : r # s =>
          Chain(SavedMap, EntryOn(disk, r).cluster) \cap T = {}
    BY <1>1, <1>3, ReadyFacts, ListingsApart
<1> HIDE DEF T
<1>8. ASSUME NEW y \in T PROVE Bare(disk[y]) /\ Bare(disk'[y]) /\ y # parent
    <2>1. disk'[y] = Blank
        BY <1>1, <1>4, <1>6
    <2> QED
        BY <1>2, <1>6, <2>1, BareContents DEF Bare, Replaces
<1>9. OneEntryMoves(disk, disk', <<parent, x>>, T)
    BY <1>1, <1>2, <1>4, <1>6, <1>7, <1>8, EffectMoves DEF s
<1> QED
    BY <1>9 DEF Moves

LEMMA CallMoves ==
    ASSUME TypeOK, DiskInvariant, Tidiness, CutNext, mishaps' = {}, call' # "format"
    PROVE  (Moves /\ CallWrites) \/ CallWritesNothing \/ WriteCluster \/ PowerCut
<1>1. CallWrites \/ CallWritesNothing \/ WriteCluster \/ PowerCut
    BY Steps
<1>2. CASE CutFormat
    BY <1>2 DEF CutFormat, Writes
<1>3. CASE CutLoad
    BY <1>3 DEF CutLoad, LoadAtBoot, CallWritesNothing, Next
<1>4. ASSUME NEW parent \in Clusters, NEW name \in AllNames, CutMakeDirectory(parent, name)
      PROVE  Moves
    <2>1. MakeDirectory(parent, name) /\ DriverCall
        BY <1>4 DEF CutMakeDirectory, DriverCall, DirectoryCall
    <2> QED
        BY <2>1, MakeDirectoryMoves
<1>5. ASSUME NEW parent \in Clusters, NEW name \in AllNames, CutDeleteFolder(parent, name)
      PROVE  Moves
    <2>1. DeleteFolder(parent, name) /\ DriverCall
        BY <1>5 DEF CutDeleteFolder, DriverCall, DirectoryCall
    <2> QED
        BY <2>1, DeleteFolderMoves
<1>6. ASSUME NEW parent \in Clusters, NEW name \in AllNames, NEW ext \in AllExts,
             NEW p \in Payloads, CutStoreFile(parent, name, ext, p)
      PROVE  Moves
    <2>1. StoreFile(parent, name, ext, p)
        BY <1>6 DEF CutStoreFile, StoreFile
    <2>2. DriverCall
        BY <2>1 DEF DriverCall, FileCall
    <2> QED
        BY <2>1, <2>2, StoreFileMoves
<1>7. ASSUME NEW parent \in Clusters, NEW name \in AllNames, NEW ext \in AllExts,
             CutDeleteFile(parent, name, ext) \/ CutDeleteFileAstray(parent, name, ext)
      PROVE  Moves
    <2>1. DeleteFile(parent, name, ext) \/ DeleteFileAstray(parent, name, ext)
        BY <1>7 DEF CutDeleteFile, CutDeleteFileAstray
    <2>2. DriverCall
        BY <2>1 DEF DriverCall, FileCall
    <2> QED
        BY <2>1, <2>2, DeleteFileMoves
<1> QED
    BY <1>1, <1>2, <1>3, <1>4, <1>5, <1>6, <1>7, NoWriteCall DEF CutNext

(* Until a cut comes in the middle of a call, the disk is as Fat32Driver   *)
(* has it.                                                                 *)
UncutInvariant == cut = {} => DiskInvariant /\ Tidiness

LEMMA IdleCut ==
    ASSUME CutTypeOK, Pending, PowerCut, Idle
    PROVE  PowerOff /\ UNCHANGED <<media, call, cut>>
<1>1. media = disk
    BY PendingWhenIdle
<1> QED
    BY <1>1 DEF PowerCut, PowerOff

LEMMA CutGrows ==
    ASSUME CutNext, TypeOK
    PROVE  cut \subseteq cut'
BY Steps DEF CallWrites, CallWritesNothing, WritesNothing, WriteCluster, PowerCut

LEMMA UncutKept ==
    ASSUME CutTypeOK, Pending, UncutInvariant, CutNext
    PROVE  UncutInvariant'
<1> SUFFICES ASSUME cut' = {} PROVE DiskInvariant' /\ Tidiness'
    BY DEF UncutInvariant
<1>1. TypeOK /\ DiskInvariant /\ Tidiness
    BY CutGrows DEF UncutInvariant, CutTypeOK
<1>2. [Next]_vars
    <2>1. CASE CallWrites \/ CallWritesNothing \/ WriteCluster
        BY <2>1 DEF CallWrites, CallWritesNothing, WriteCluster
    <2>2. CASE PowerCut
        <3>1. Idle
            BY <2>2 DEF PowerCut
        <3> QED
            BY <2>2, <3>1, IdleCut DEF Next
    <2> QED
        BY <1>1, <2>1, <2>2, Steps
<1> QED
    BY <1>1, <1>2, InvariantKept, TidinessKept

(* The media are between what the disk was before the call under way, or   *)
(* the last one, and what it is after it; one entry moves between them.    *)
OneEntryUnderWay ==
    (cut = {} /\ mishaps = {} /\ call # "format") =>
        \E d, place, T : OneEntryMoves(d, disk, place, T) /\ Between(d, disk, media)

LEMMA UnderWayKept ==
    ASSUME CutTypeOK, Pending, UncutInvariant, OneEntryUnderWay, CutNext
    PROVE  OneEntryUnderWay'
<1> SUFFICES ASSUME cut' = {}, mishaps' = {}, call' # "format"
             PROVE  \E d, place, T : OneEntryMoves(d, disk', place, T) /\ Between(d, disk', media')
    BY DEF OneEntryUnderWay
<1>1. TypeOK /\ cut = {} /\ DiskInvariant /\ Tidiness
    BY CutGrows DEF UncutInvariant, CutTypeOK
<1>2. CASE Moves /\ CallWrites
    <2>1. PICK place, T : OneEntryMoves(disk, disk', place, T)
        BY <1>2 DEF Moves
    <2>2. media' = disk
        BY <1>2, PendingWhenIdle DEF CallWrites
    <2> QED
        BY <2>1, <2>2 DEF Between
<1>3. ASSUME UNCHANGED <<disk, call>>, mishaps = {},
             \A d : Between(d, disk, media) => Between(d, disk, media')
      PROVE  \E d, place, T : OneEntryMoves(d, disk', place, T) /\ Between(d, disk', media')
    <2>1. PICK d, place, T : OneEntryMoves(d, disk, place, T) /\ Between(d, disk, media)
        BY <1>1, <1>3 DEF OneEntryUnderWay
    <2>2. Between(d, disk, media')
        BY <1>3, <2>1 DEF Between
    <2> QED
        BY <1>3, <2>1, <2>2
<1>4. CASE CallWritesNothing
    <2>1. mishaps = {}
        BY <1>4, MishapsStay DEF CallWritesNothing
    <2> QED
        BY <1>3, <1>4, <2>1 DEF CallWritesNothing, WritesNothing
<1>5. CASE WriteCluster
    <2>1. /\ UNCHANGED <<disk, call, mishaps>>
          /\ \A x \in Clusters : media'[x] = disk[x] \/ media'[x] = media[x]
        BY <1>5, HeadWritten DEF vars
    <2>2. ASSUME NEW d, Between(d, disk, media) PROVE Between(d, disk, media')
        BY <2>1, <2>2 DEF Between
    <2> QED
        BY <1>3, <2>1, <2>2
<1>6. CASE PowerCut
    <2>1. Idle
        BY <1>6 DEF PowerCut
    <2>2. UNCHANGED <<disk, call, mishaps, media>>
        BY <1>6, <2>1, IdleCut DEF PowerOff
    <2> QED
        BY <1>3, <2>2
<1> QED
    BY <1>1, <1>2, <1>4, <1>5, <1>6, CallMoves

LEMMA AllButOne ==
    ASSUME OneEntryUnderWay
    PROVE  OthersSurviveCut
<1> SUFFICES ASSUME cut = {}, mishaps = {}, call # "format"
             PROVE  LET whole == {s \in Listings \cap MediaListings :
                        /\ EntryAt(s) = EntryOn(media, s)
                        /\ Chain(MediaMap, EntryAt(s).cluster) = ChainAt(s)
                        /\ Ends(MediaMap, EntryAt(s).cluster)
                        /\ EntryAt(s).dir \/ \A c \in ChainAt(s) : media[c] = disk[c]}
                    IN  Cardinality((Listings \cup MediaListings) \ whole) <= 1
    BY DEF OthersSurviveCut
<1> DEFINE whole == {s \in Listings \cap MediaListings :
                        /\ EntryAt(s) = EntryOn(media, s)
                        /\ Chain(MediaMap, EntryAt(s).cluster) = ChainAt(s)
                        /\ Ends(MediaMap, EntryAt(s).cluster)
                        /\ EntryAt(s).dir \/ \A c \in ChainAt(s) : media[c] = disk[c]}
           rest == (Listings \cup MediaListings) \ whole
<1>1. PICK d, place, T : OneEntryMoves(d, disk, place, T) /\ Between(d, disk, media)
    BY DEF OneEntryUnderWay
<1>2. ASSUME NEW s \in Listings \cup MediaListings, s # place PROVE s \in whole
    <2>1. WholeOn(disk, media, s)
        BY <1>1, <1>2, OthersWhole DEF Listings, MediaListings
    <2> QED
        BY <2>1 DEF WholeOn, Listings, MediaListings, EntryAt, ChainAt, SavedMap, MediaMap
<1>3. rest \subseteq {place}
    <2> HIDE DEF whole
    <2> QED
        BY <1>2
<1> HIDE DEF rest
<1>4. IsFiniteSet({place}) /\ Cardinality({place}) = 1
    BY FS_Singleton
<1>5. Cardinality(rest) <= Cardinality({place})
    BY <1>3, <1>4, FS_Subset
<1>6. Cardinality(rest) <= 1
    BY <1>4, <1>5
<1> QED
    BY <1>6 DEF rest

LEMMA StaysUncut ==
    CutSpec => [](CutTypeOK /\ Pending /\ UncutInvariant /\ OneEntryUnderWay)
<1>1. CutInit => UncutInvariant /\ OneEntryUnderWay
    <2>1. Init => DiskInvariant /\ Tidiness
        BY Kinds DEF Init, DiskInvariant, Virgin, Tidiness, TablesTidy
    <2> QED
        BY <2>1 DEF CutInit, UncutInvariant, OneEntryUnderWay
<1>2. /\ CutTypeOK /\ Pending /\ UncutInvariant /\ OneEntryUnderWay /\ [CutNext]_cutVars
      => UncutInvariant' /\ OneEntryUnderWay'
    <2>1. ASSUME UncutInvariant, OneEntryUnderWay, UNCHANGED cutVars
          PROVE  UncutInvariant' /\ OneEntryUnderWay'
        <3>1. UncutInvariant'
            BY <2>1 DEF cutVars, UncutInvariant, DiskInvariant, Sound, Virgin, Formatted, Bootable,
                        SavedMap, MapOn, Tidiness, TablesTidy
        <3>2. OneEntryUnderWay'
            BY <2>1 DEF cutVars, OneEntryUnderWay
        <3> QED
            BY <3>1, <3>2
    <2> QED
        BY <2>1, UncutKept, UnderWayKept
<1> QED
    BY <1>1, <1>2, StaysPending, PTL DEF CutSpec

(* Whenever the power may fail for the first time, every entry but the one *)
(* the call under way is about is on the media with its chain and data.    *)
THEOREM CutsSpareOthers == CutSpec => []OthersSurviveCut
BY StaysUncut, AllButOne, PTL

-----------------------------------------------------------------------------
(* An interrupted delete of a file.  Its entry is gone and a first part of *)
(* its chain blanked, the FAT is not written: what is left of the chain is *)
(* allocated to nobody, and the disk is as well linked as before.          *)

LEMMA BlankedConsistent ==
    ASSUME NEW map \in Maps, NEW d \in [Clusters -> Content],
           WellLinked(map, d), Reserved(map, d),
           NEW s \in ListingsOn(d), NEW B \in SUBSET Usable,
           \A x \in Usable \ B : map[x] \notin B,
           \A r \in ListingsOn(d) : r # s => EntryOn(d, r).cluster \notin B,
           NEW m, m = [x \in Clusters |->
                          IF x \in B THEN Blank
                          ELSE IF x = s[1] THEN Dir(Without(d[s[1]].table, s[2]))
                          ELSE d[x]]
    PROVE  WellLinked(map, m) /\ Reserved(map, m)
<1>0. /\ d[s[1]].kind = "dir" /\ d[s[1]].table \in Tables /\ s[1] \in Clusters
      /\ s[2] \in Slots /\ s[2] # 0
    BY ListingPlace
<1>1. /\ s[1] # BOOT_SECTOR /\ s[1] # FAT_CLUSTER_NUMBER
      /\ \A x \in B : x # BOOT_SECTOR /\ x # FAT_CLUSTER_NUMBER /\ x # ROOT_CLUSTER_NUMBER
    BY <1>0, Kinds, Numbers DEF Reserved
<1>2. Reserved(map, m)
    BY <1>0, <1>1, Kinds, Numbers DEF Reserved
<1>4. \A x \in Usable : /\ x \in B => m[x] = Blank
                        /\ x \notin B /\ x # s[1] => m[x] = d[x]
                        /\ x \notin B => m[x].kind = d[x].kind
    BY <1>0, Numbers, Kinds
<1>6. KindsAgree(map, m)
    <2> SUFFICES ASSUME NEW x \in Usable
                 PROVE  /\ map[x] = EMPTY => m[x] = Blank
                        /\ m[x].kind = "dir" => map[x] = END_OF_FILE
        BY DEF KindsAgree
    <2>1. CASE x \in B
        BY <1>4, <2>1, Kinds
    <2>2. CASE x \notin B
        <3>1. m[x].kind = d[x].kind
            BY <1>4, <2>2
        <3>2. map[x] = EMPTY => m[x] = Blank
            BY <1>0, <1>4, <2>2, Kinds DEF WellLinked, KindsAgree
        <3> QED
            BY <3>1, <3>2 DEF WellLinked, KindsAgree
    <2> QED
        BY <2>1, <2>2
<1>7. DataInOrder(map, m)
    <2> SUFFICES ASSUME NEW x \in Usable, m[x].kind = "data"
                 PROVE  LET p == m[x].payload
                            k == m[x].index
                        IN  /\ k <= Size[p]
                            /\ k = Size[p] => map[x] = END_OF_FILE
                            /\ k # Size[p] => map[x] \in Usable /\ m[map[x]] = Data(p, k + 1)
        BY DEF DataInOrder
    <2>1. x \notin B
        BY <1>4, Kinds
    <2>2. d[x].kind = "data" /\ m[x] = d[x]
        BY <1>0, <1>4, <2>1
    <2>3. ASSUME d[x].index # Size[d[x].payload]
          PROVE  m[map[x]] = Data(d[x].payload, d[x].index + 1) /\ map[x] \in Usable
        <3>1. map[x] \in Usable /\ d[map[x]] = Data(d[x].payload, d[x].index + 1)
            BY <2>2, <2>3 DEF WellLinked, DataInOrder
        <3>2. map[x] \notin B /\ map[x] # s[1]
            BY <1>0, <2>1, <3>1, Kinds
        <3> QED
            BY <1>4, <3>1, <3>2
    <2> QED
        BY <2>2, <2>3 DEF WellLinked, DataInOrder
<1>8. ASSUME NEW r \in ListingsOn(m)
      PROVE  r \in ListingsOn(d) /\ r # s /\ EntryOn(m, r) = EntryOn(d, r)
    <2>1. r \in Clusters \X (Slots \ {0}) /\ m[r[1]].kind = "dir" /\ m[r[1]].table[r[2]].used
        BY DEF ListingsOn
    <2>2. r[1] \notin B
        BY <1>1, <2>1, Kinds
    <2>3. CASE r[1] # s[1]
        BY <2>1, <2>2, <2>3 DEF ListingsOn, EntryOn
    <2>4. CASE r[1] = s[1]
        <3>1. m[r[1]].table = Without(d[s[1]].table, s[2])
            BY <2>1, <2>2, <2>4, Kinds
        <3>2. r[2] # s[2]
            <4>1. Without(d[s[1]].table, s[2])[s[2]] = EmptyEntry
                BY <1>0 DEF Without, Tables
            <4>2. ~EmptyEntry.used
                BY DEF EmptyEntry
            <4> QED
                BY <2>1, <3>1, <4>1, <4>2
        <3>3. m[r[1]].table[r[2]] = d[r[1]].table[r[2]]
            BY <1>0, <2>1, <2>4, <3>1, <3>2 DEF Without, Tables
        <3> QED
            BY <1>0, <2>1, <2>4, <3>2, <3>3 DEF ListingsOn, EntryOn
    <2> QED
        BY <2>3, <2>4
<1>9. EntriesOwn(map, m)
    <2>1. ASSUME NEW r \in ListingsOn(m)
          PROVE  LET c == EntryOn(m, r).cluster
                 IN  /\ c \in Usable
                     /\ \A x \in Usable : map[x] # c
                     /\ EntryOn(m, r).dir => m[c].kind = "dir"
                     /\ ~EntryOn(m, r).dir => /\ m[c].kind = "data"
                                              /\ m[c].index = 1
                                              /\ EntryOn(m, r).size = Size[m[c].payload]
        <3> DEFINE c == EntryOn(d, r).cluster
        <3>1. r \in ListingsOn(d) /\ r # s /\ EntryOn(m, r) = EntryOn(d, r)
            BY <1>8
        <3>2. c \in Usable /\ c \notin B /\ \A x \in Usable : map[x] # c
            BY <3>1 DEF WellLinked, EntriesOwn
        <3>4. EntryOn(d, r).dir => m[c].kind = "dir"
            BY <1>4, <3>1, <3>2 DEF WellLinked, EntriesOwn
        <3>5. ~EntryOn(d, r).dir => /\ m[c].kind = "data"
                                    /\ m[c].index = 1
                                    /\ EntryOn(d, r).size = Size[m[c].payload]
            BY <1>0, <1>4, <3>1, <3>2 DEF WellLinked, EntriesOwn
        <3> QED
            BY <3>1, <3>2, <3>4, <3>5
    <2>2. ASSUME NEW r \in ListingsOn(m), NEW q \in ListingsOn(m),
                 EntryOn(m, r).cluster = EntryOn(m, q).cluster
          PROVE  r = q
        BY <1>8, <2>2 DEF WellLinked, EntriesOwn
    <2> QED
        BY <2>1, <2>2 DEF EntriesOwn
<1> QED
    BY <1>2, <1>6, <1>7, <1>9 DEF WellLinked

(* The cluster a delete writes i-th: the entry's table, the n clusters of  *)
(* the chain in the order of the walk w, the FAT.                          *)
InTurn(s, n, w, i) ==
    IF i = 1 THEN s[1] ELSE IF i = n + 2 THEN FAT_CLUSTER_NUMBER ELSE w[i - 1]

(* The first j of them are on the media.                                   *)
WrittenTo(d, s, n, w, j, m) ==
    \A x \in Clusters : m[x] = IF \E i \in 1 .. j : InTurn(s, n, w, i) = x THEN disk[x] ELSE d[x]

Deleting(d, map, s, n, w) ==
    /\ map \in Maps /\ d \in [Clusters -> Content]
    /\ WellLinked(map, d) /\ Reserved(map, d) /\ s \in ListingsOn(d)
    /\ Visits(map, EntryOn(d, s).cluster, n, w)
    /\ disk = WithoutListing(map, d, s)

(* A delete is under way from disk d, and queue is what it has to write.   *)
HalfDeleted ==
    \E d, map, s, n, w :
        /\ Deleting(d, map, s, n, w)
        /\ Len(queue) \in 1 .. n + 2
        /\ \A i \in 1 .. Len(queue) : queue[i] = InTurn(s, n, w, n + 2 - Len(queue) + i)
        /\ WrittenTo(d, s, n, w, n + 2 - Len(queue), media)

LEMMA HalfDeletedLinked ==
    ASSUME CutTypeOK, NEW d, NEW map, NEW s, NEW n, NEW w, Deleting(d, map, s, n, w),
           NEW j \in 0 .. n + 1, WrittenTo(d, s, n, w, j, media)
    PROVE  WellLinked(map, media) /\ Reserved(map, media)
<1> DEFINE c == EntryOn(d, s).cluster
           K == Chain(map, c)
           Written(x) == \E i \in 1 .. j : InTurn(s, n, w, i) = x
           B == {x \in K : Written(x)}
<1>1. /\ map \in Maps /\ d \in [Clusters -> Content]
      /\ WellLinked(map, d) /\ Reserved(map, d) /\ s \in ListingsOn(d)
      /\ n \in Nat /\ n >= 1 /\ j \in Nat /\ j <= n + 1
    BY DEF Deleting, Visits
<1>2. /\ c \in Usable /\ c \in K /\ K \subseteq Usable
      /\ \A x \in Usable \ K : map[x] \notin K
      /\ \A r \in ListingsOn(d) : r # s => EntryOn(d, r).cluster \notin K
      /\ \A x \in Usable : map[x] # c
    <2>1. \A x \in Usable : map[x] # c
        BY <1>1 DEF WellLinked, EntriesOwn
    <2> QED
        BY <1>1, <2>1, ListingChain
<1>3. s[1] \in Clusters /\ d[s[1]].kind = "dir" /\ s[1] # FAT_CLUSTER_NUMBER
    BY <1>1, ListingPlace, Kinds DEF Reserved
<1>4. w[1] = c /\ \A i \in 1 .. n : w[i] \in K /\ (i # n => w[i + 1] = map[w[i]])
    BY DEF Deleting, Visits
<1>5. \A x \in Clusters : media[x] = IF Written(x) THEN disk[x] ELSE d[x]
    BY DEF WrittenTo
<1>6. \A x \in Clusters :
          disk[x] = IF x = FAT_CLUSTER_NUMBER THEN FatImage(Freed(map, K))
                    ELSE IF x \in K THEN Blank
                    ELSE IF x = s[1] THEN Dir(Without(d[s[1]].table, s[2]))
                    ELSE d[x]
    BY DEF Deleting, WithoutListing
<1>7. s[1] \in K => s[1] = c
    <2> SUFFICES ASSUME s[1] \in K, s[1] # c PROVE FALSE
        OBVIOUS
    <2>1. d[c].kind = "dir" \/ d[c].kind = "data"
        BY <1>1 DEF WellLinked, EntriesOwn
    <2>2. CASE d[c].kind = "dir"
        <3>1. map[c] \notin Clusters
            BY <1>1, <1>2, <2>2, Numbers DEF WellLinked, KindsAgree
        <3>2. K = {c}
            BY <1>2, <3>1, ChainOfTable, Numbers
        <3> QED
            BY <3>2
    <2>3. CASE d[c].kind = "data"
        <3>1. d[s[1]].kind = "data"
            <4> HIDE DEF c
            <4> QED
                BY <1>1, <1>2, <2>3, ChainOfFile
        <3> QED
            BY <1>3, <3>1
    <2> QED
        BY <2>1, <2>2, <2>3
<1> HIDE DEF c, K
<1>8. ASSUME NEW i \in 1 .. j
      PROVE  /\ i = 1 => InTurn(s, n, w, i) = s[1]
             /\ i # 1 => i - 1 \in 1 .. n /\ InTurn(s, n, w, i) = w[i - 1]
    BY <1>1 DEF InTurn
<1>9. ASSUME NEW x \in Usable \ B PROVE map[x] \notin B
    <2> SUFFICES ASSUME map[x] \in B PROVE FALSE
        OBVIOUS
    <2>1. map[x] # c /\ map[x] \in K
        BY <1>2
    <2>2. PICK i \in 1 .. j : InTurn(s, n, w, i) = map[x]
        OBVIOUS
    <2>3. i # 1 /\ i - 1 \in 1 .. n /\ map[x] = w[i - 1]
        BY <1>7, <1>8, <2>1, <2>2
    <2>4. i - 1 # 1
        BY <1>4, <2>1, <2>3
    <2>5. i - 2 \in 1 .. n /\ i - 2 # n /\ (i - 2) + 1 = i - 1 /\ i - 1 \in 1 .. j /\ (i - 1) - 1 = i - 2
        BY <1>1, <2>3, <2>4
    <2>6. w[i - 1] = map[w[i - 2]] /\ w[i - 2] \in K
        BY <1>4, <2>5
    <2>7. x = w[i - 2]
        BY <1>1, <1>2, <2>1, <2>3, <2>6 DEF WellLinked, LinksApart
    <2>8. InTurn(s, n, w, i - 1) = w[i - 2]
        BY <1>8, <2>4, <2>5
    <2> QED
        BY <2>5, <2>6, <2>7, <2>8
<1>10. CASE j = 0
    <2>1. \A x \in Clusters : media[x] = d[x]
        BY <1>5, <1>10
    <2>2. media = d
        BY <1>1, <2>1 DEF CutTypeOK
    <2> QED
        BY <1>1, <2>2
<1>11. CASE j # 0
    <2>1. 1 \in 1 .. j /\ Written(s[1])
        BY <1>1, <1>8, <1>11
    <2>2. ASSUME NEW x \in Clusters
          PROVE  media[x] = IF x \in B THEN Blank
                            ELSE IF x = s[1] THEN Dir(Without(d[s[1]].table, s[2]))
                            ELSE d[x]
        <3>1. CASE x \in B
            BY <1>2, <1>5, <1>6, <3>1, Numbers
        <3>2. CASE x \notin B /\ x = s[1]
            BY <1>3, <1>5, <1>6, <2>1, <3>2
        <3>3. CASE x \notin B /\ x # s[1]
            <4>1. ~Written(x)
                BY <1>4, <1>8, <3>3
            <4> QED
                BY <1>5, <3>3, <4>1
        <3> QED
            BY <3>1, <3>2, <3>3
    <2>3. media = [x \in Clusters |-> IF x \in B THEN Blank
                                      ELSE IF x = s[1] THEN Dir(Without(d[s[1]].table, s[2]))
                                      ELSE d[x]]
        BY <2>2 DEF CutTypeOK
    <2>4. B \in SUBSET Usable /\ \A r \in ListingsOn(d) : r # s => EntryOn(d, r).cluster \notin B
        BY <1>2
    <2> HIDE DEF B
    <2> QED
        BY <1>1, <1>9, <2>3, <2>4, BlankedConsistent
<1> QED
    BY <1>10, <1>11

LEMMA HalfDeletedBoots ==
    ASSUME CutTypeOK, HalfDeleted
    PROVE  WellLinked(MediaMap, media) /\ Reserved(MediaMap, media)
<1>1. PICK d, map, s, n, w :
          /\ Deleting(d, map, s, n, w)
          /\ Len(queue) \in 1 .. n + 2
          /\ WrittenTo(d, s, n, w, n + 2 - Len(queue), media)
    BY DEF HalfDeleted
<1>2. n + 2 - Len(queue) \in 0 .. n + 1
    BY <1>1 DEF Deleting, Visits
<1>3. WellLinked(map, media) /\ Reserved(map, media)
    BY <1>1, <1>2, HalfDeletedLinked
<1> QED
    BY <1>3, ReservedMap DEF MediaMap

LEMMA HalfDeletedKept ==
    ASSUME CutTypeOK, HalfDeleted, WriteCluster, queue' # <<>>
    PROVE  HalfDeleted'
<1>1. PICK d, map, s, n, w :
          /\ Deleting(d, map, s, n, w)
          /\ Len(queue) \in 1 .. n + 2
          /\ \A i \in 1 .. Len(queue) : queue[i] = InTurn(s, n, w, n + 2 - Len(queue) + i)
          /\ WrittenTo(d, s, n, w, n + 2 - Len(queue), media)
    BY DEF HalfDeleted
<1>2. n \in Nat
    BY <1>1 DEF Deleting, Visits
<1>3. /\ queue \in Seq(Clusters) /\ queue # <<>> /\ queue' = Tail(queue) /\ queue' # <<>>
      /\ disk' = disk
    BY DEF WriteCluster, Idle, CutTypeOK, vars
<1>4. /\ Len(queue') = Len(queue) - 1 /\ Len(queue') \in Nat /\ Len(queue') # 0
      /\ Head(queue) = queue[1]
      /\ \A i \in 1 .. Len(queue') : i + 1 \in 1 .. Len(queue) /\ queue'[i] = queue[i + 1]
    BY <1>3
<1>13. n + 2 - Len(queue) \in Nat
    BY <1>1, <1>2
<1> PICK j \in Nat : j = n + 2 - Len(queue)
    BY <1>13
<1>5. n + 2 - Len(queue') = j + 1 /\ j + 1 \in Nat /\ Len(queue') \in 1 .. n + 2
    BY <1>1, <1>2, <1>4
<1>6. Head(queue) = InTurn(s, n, w, j + 1)
    BY <1>1, <1>4
<1>7. \A i \in 1 .. Len(queue') : queue'[i] = InTurn(s, n, w, j + 1 + i)
    <2> SUFFICES ASSUME NEW i \in 1 .. Len(queue') PROVE queue'[i] = InTurn(s, n, w, j + 1 + i)
        OBVIOUS
    <2>1. i + 1 \in 1 .. Len(queue) /\ queue'[i] = queue[i + 1] /\ i \in Nat
        BY <1>4
    <2>2. queue[i + 1] = InTurn(s, n, w, j + (i + 1))
        BY <1>1, <2>1
    <2>3. j + (i + 1) = j + 1 + i
        BY <1>5, <2>1
    <2> QED
        BY <2>1, <2>2, <2>3
<1>8. WrittenTo(d, s, n, w, j, media)
    BY <1>1
<1>9. Deleting(d, map, s, n, w)'
    BY <1>1, <1>3 DEF Deleting
<1>10. \A x \in Clusters : (\E i \in 1 .. j + 1 : InTurn(s, n, w, i) = x)
                           <=> x = Head(queue) \/ \E i \in 1 .. j : InTurn(s, n, w, i) = x
    <2>1. \A i : i \in 1 .. j + 1 <=> i = j + 1 \/ i \in 1 .. j
        BY <1>5
    <2> QED
        BY <1>6, <2>1
<1>11. /\ \A x \in Clusters : x # Head(queue) => media'[x] = media[x]
       /\ media'[Head(queue)] = disk[Head(queue)]
    BY HeadWritten
<1>12. WrittenTo(d, s, n, w, j + 1, media)'
    BY <1>3, <1>8, <1>10, <1>11 DEF WrittenTo
<1> QED
    BY <1>5, <1>7, <1>9, <1>12 DEF HalfDeleted

(* The queue of a delete, one cluster at a time.                           *)
LEMMA DeleteQueue ==
    ASSUME NEW a \in Clusters, NEW n \in Nat, NEW w \in [1 .. n -> Clusters], NEW b \in Clusters
    PROVE  LET q == <<a>> \o w \o <<b>>
           IN  /\ Len(q) = n + 2
               /\ \A i \in 1 .. n + 2 :
                     q[i] = IF i = 1 THEN a ELSE IF i = n + 2 THEN b ELSE w[i - 1]
<1>1. w \in Seq(Clusters) /\ Len(w) = n
    OBVIOUS
<1> DEFINE p == <<a>> \o w
<1>2. <<a>> \in Seq(Clusters) /\ Len(<<a>>) = 1 /\ <<a>>[1] = a
    OBVIOUS
<1>3. p \in Seq(Clusters) /\ Len(p) = n + 1
    BY <1>1, <1>2
<1>4. \A i \in 1 .. n + 1 : p[i] = IF i = 1 THEN a ELSE w[i - 1]
    BY <1>1, <1>2
<1>5. <<b>> \in Seq(Clusters) /\ Len(<<b>>) = 1 /\ <<b>>[1] = b
    OBVIOUS
<1> HIDE DEF p
<1> DEFINE q == p \o <<b>>
<1>6. Len(q) = n + 2 /\ \A i \in 1 .. n + 1 : q[i] = p[i]
    BY <1>3, <1>5
<1>7. q[n + 2] = b
    BY <1>3, <1>5
<1>8. ASSUME NEW i \in 1 .. n + 2
      PROVE  q[i] = IF i = 1 THEN a ELSE IF i = n + 2 THEN b ELSE w[i - 1]
    <2>1. i = n + 2 \/ i \in 1 .. n + 1
        OBVIOUS
    <2> HIDE DEF q
    <2> QED
        BY <1>4, <1>6, <1>7, <2>1
<1> QED
    BY <1>6, <1>8 DEF p, q

LEMMA DeleteBegins ==
    ASSUME CutTypeOK, Pending, Bootable, Sound', NEW parent \in Clusters, NEW name \in AllNames,
           NEW ext \in AllExts,
           CutDeleteFile(parent, name, ext) \/ CutDeleteFileAstray(parent, name, ext)
    PROVE  HalfDeleted'
<1>1. /\ DeleteFile(parent, name, ext) \/ DeleteFileAstray(parent, name, ext)
      /\ Idle /\ UNCHANGED media
    BY DEF CutDeleteFile, CutDeleteFileAstray, Writes
<1>2. /\ DeleteFile(parent, name, ext) /\ fat = SavedMap
      /\ \E s \in ListingsOn(disk) :
            /\ s[1] = parent
            /\ EntryOn(disk, s) = Table(parent)[TargetSlot(Table(parent), name, ext, FALSE)]
            /\ disk' = WithoutListing(SavedMap, disk, s)
    BY <1>1, DeleteFileRemoves DEF CutTypeOK
<1>3. PICK s \in ListingsOn(disk) :
          /\ s[1] = parent
          /\ EntryOn(disk, s) = Table(parent)[TargetSlot(Table(parent), name, ext, FALSE)]
          /\ disk' = WithoutListing(SavedMap, disk, s)
    BY <1>2
<1> DEFINE c == EntryOn(disk, s).cluster
           n == Cardinality(Chain(SavedMap, c))
           w == WalkedClusters(SavedMap, c)
<1>4. queue' = <<s[1]>> \o w \o <<FAT_CLUSTER_NUMBER>>
    <2>1. CutDeleteFile(parent, name, ext)
        BY <1>2 DEF CutDeleteFileAstray, DeleteFileAstray, DeleteFile
    <2> QED
        BY <1>2, <1>3, <2>1 DEF CutDeleteFile, Writes, DeleteFileOrder
<1>5. /\ SavedMap \in Maps /\ disk \in [Clusters -> Content]
      /\ Reserved(SavedMap, disk) /\ WellLinked(SavedMap, disk)
    BY FormattedDisk DEF CutTypeOK
<1>6. c \in Clusters /\ s[1] \in Clusters
    BY <1>3, <1>5, Numbers DEF WellLinked, EntriesOwn
<1>7. Visits(SavedMap, c, n, w)
    <2> HIDE DEF c
    <2> QED
        BY <1>5, <1>6, WalkVisits
<1> HIDE DEF n, w
<1>8. n \in Nat /\ w \in [1 .. n -> Clusters]
    BY <1>7 DEF Visits
<1>9. /\ Len(queue') = n + 2
      /\ \A i \in 1 .. n + 2 : queue'[i] = InTurn(s, n, w, i)
    BY <1>4, <1>6, <1>8, DeleteQueue, Numbers DEF InTurn
<1>10. media' = disk
    BY <1>1, PendingWhenIdle
<1>11. n + 2 - Len(queue') = 0 /\ Len(queue') \in 1 .. n + 2
    BY <1>8, <1>9
<1>12. \A i \in 1 .. Len(queue') : queue'[i] = InTurn(s, n, w, n + 2 - Len(queue') + i)
    BY <1>8, <1>9, <1>11
<1>13. \E d, map, k, v : d = disk /\ map = SavedMap /\ k = n /\ v = w
    OBVIOUS
<1>14. PICK d, map, k, v : d = disk /\ map = SavedMap /\ k = n /\ v = w
    BY <1>13
<1>15. Deleting(d, map, s, k, v)'
    BY <1>3, <1>5, <1>7, <1>14 DEF Deleting
<1>16. WrittenTo(d, s, k, v, k + 2 - Len(queue), media)'
    BY <1>8, <1>10, <1>11, <1>14 DEF WrittenTo
<1>17. /\ Len(queue') \in 1 .. k + 2
       /\ \A i \in 1 .. Len(queue') : queue'[i] = InTurn(s, k, v, k + 2 - Len(queue') + i)
    BY <1>11, <1>12, <1>14
<1> QED
    BY <1>15, <1>16, <1>17 DEF HalfDeleted

(* As long as only deletes of files were interrupted, the disk is          *)
(* untouched or well linked, and so will be what the next cut leaves of a  *)
(* delete.                                                                 *)
LinkedInvariant ==
    cut \subseteq {"deleteFile"} =>
        /\ Virgin \/ Bootable
        /\ queue # <<>> /\ call = "deleteFile" => HalfDeleted

LEMMA QueuedDelete ==
    ASSUME CutNext, Idle, queue' # <<>>, call' = "deleteFile"
    PROVE  \E parent \in Clusters, name \in AllNames, ext \in AllExts :
              CutDeleteFile(parent, name, ext) \/ CutDeleteFileAstray(parent, name, ext)
<1>1. ~(CutFormat \/ CutLoad \/ WriteCluster \/ PowerCut)
    BY DEF CutFormat, CutLoad, WriteCluster, PowerCut, Writes, WritesNothing, Idle
<1>2. ASSUME NEW parent, NEW name PROVE ~(CutMakeDirectory(parent, name) \/ CutDeleteFolder(parent, name))
    BY DEF CutMakeDirectory, CutDeleteFolder, Writes
<1>3. ASSUME NEW parent, NEW name, NEW ext PROVE ~CutNoWrite(parent, name, ext)
    BY DEF CutNoWrite, WritesNothing, Idle
<1>4. ASSUME NEW parent, NEW name, NEW ext, NEW p PROVE ~CutStoreFile(parent, name, ext, p)
    BY DEF CutStoreFile, Writes
<1> QED
    BY <1>1, <1>2, <1>3, <1>4 DEF CutNext

LEMMA LinkedKept ==
    ASSUME CutTypeOK, Pending, LinkedInvariant, CutNext
    PROVE  LinkedInvariant'
<1> SUFFICES ASSUME cut' \subseteq {"deleteFile"}
             PROVE  /\ Virgin' \/ Bootable'
                    /\ queue' # <<>> /\ call' = "deleteFile" => HalfDeleted'
    BY DEF LinkedInvariant
<1>1. /\ TypeOK
      /\ Virgin \/ Bootable
      /\ queue # <<>> /\ call = "deleteFile" => HalfDeleted
    BY CutGrows DEF LinkedInvariant, CutTypeOK
<1>2. Sound'
    BY CutTypesKept, NoGarbageAssumption DEF CutTypeOK, TypeOK, Sound
<1>3. CASE CallWrites
    <2>1. Virgin' \/ Bootable'
        BY <1>1, <1>2, <1>3, DiskKept DEF CallWrites
    <2>2. ASSUME queue' # <<>>, call' = "deleteFile" PROVE HalfDeleted'
        <3>1. PICK parent \in Clusters, name \in AllNames, ext \in AllExts :
                  CutDeleteFile(parent, name, ext) \/ CutDeleteFileAstray(parent, name, ext)
            BY <1>3, <2>2, QueuedDelete DEF CallWrites
        <3>2. Bootable
            BY <1>1, <3>1 DEF CutDeleteFile, CutDeleteFileAstray, DeleteFile, DeleteFileAstray, Virgin
        <3> QED
            BY <1>2, <3>1, <3>2, DeleteBegins
    <2> QED
        BY <2>1, <2>2
<1>4. CASE CallWritesNothing
    <2>1. queue' = <<>>
        BY <1>4 DEF CallWritesNothing, WritesNothing, Idle
    <2> QED
        BY <1>1, <1>2, <1>4, <2>1, DiskKept DEF CallWritesNothing
<1>5. CASE WriteCluster
    <2>1. Virgin' \/ Bootable'
        BY <1>1, <1>2, <1>5, DiskKept DEF WriteCluster
    <2>2. ASSUME queue' # <<>>, call' = "deleteFile" PROVE HalfDeleted'
        <3>1. HalfDeleted
            BY <1>1, <1>5, <2>2 DEF WriteCluster, Idle
        <3> QED
            BY <1>5, <2>2, <3>1, HalfDeletedKept
    <2> QED
        BY <2>1, <2>2
<1>6. CASE PowerCut
    <2>1. queue' = <<>>
        BY <1>6 DEF PowerCut
    <2>2. CASE Idle
        BY <1>1, <1>2, <1>6, <2>1, <2>2, IdleCut, DiskKept DEF Next
    <2>3. CASE ~Idle
        <3>1. HalfDeleted
            BY <1>1, <1>6, <2>3 DEF PowerCut, Idle
        <3>2. WellLinked(MediaMap, media) /\ Reserved(MediaMap, media)
            BY <3>1, HalfDeletedBoots
        <3>3. disk' = media /\ SavedMap' = MediaMap /\ status' = "off"
            BY <1>6 DEF PowerCut, SavedMap, MediaMap
        <3>4. Bootable'
            BY <3>2, <3>3, Kinds DEF Bootable, Reserved
        <3> QED
            BY <2>1, <3>4
    <2> QED
        BY <2>2, <2>3
<1> QED
    BY <1>1, <1>3, <1>4, <1>5, <1>6, Steps

(* Interrupted deletes of files, any number of them and whatever is called *)
(* after the reboots, leave clusters allocated to nobody and nothing       *)
(* worse: no chain is shared or lost, files read back, no call hangs.      *)
THEOREM InterruptedDeletesLeak == CutSpec => []InterruptedDeleteOnlyLeaks
<1>1. CutInit => LinkedInvariant
    BY DEF CutInit, LinkedInvariant, Init, Virgin
<1>2. CutTypeOK /\ Pending /\ LinkedInvariant /\ [CutNext]_cutVars => LinkedInvariant'
    <2>1. ASSUME LinkedInvariant, UNCHANGED cutVars PROVE LinkedInvariant'
        <3>1. /\ Virgin \/ Bootable => Virgin' \/ Bootable'
              /\ cut' = cut /\ queue' = queue /\ call' = call
            BY <2>1 DEF cutVars, Virgin, Bootable, SavedMap, MapOn
        <3>2. ASSUME HalfDeleted PROVE HalfDeleted'
            <4>1. PICK d, map, s, n, w :
                      /\ Deleting(d, map, s, n, w)
                      /\ Len(queue) \in 1 .. n + 2
                      /\ \A i \in 1 .. Len(queue) : queue[i] = InTurn(s, n, w, n + 2 - Len(queue) + i)
                      /\ WrittenTo(d, s, n, w, n + 2 - Len(queue), media)
                BY <3>2 DEF HalfDeleted
            <4>2. disk' = disk /\ media' = media /\ queue' = queue
                BY <2>1 DEF cutVars, vars
            <4>3. Deleting(d, map, s, n, w)'
                BY <4>1, <4>2 DEF Deleting
            <4>4. WrittenTo(d, s, n, w, n + 2 - Len(queue), media)'
                BY <4>1, <4>2 DEF WrittenTo
            <4>5. /\ Len(queue') \in 1 .. n + 2
                  /\ \A i \in 1 .. Len(queue') : queue'[i] = InTurn(s, n, w, n + 2 - Len(queue') + i)
                BY <4>1, <4>2
            <4> QED
                BY <4>3, <4>4, <4>5 DEF HalfDeleted
        <3> QED
            BY <2>1, <3>1, <3>2 DEF LinkedInvariant
    <2> QED
        BY <2>1, LinkedKept
<1>3. CutTypeOK /\ LinkedInvariant => InterruptedDeleteOnlyLeaks
    <2> SUFFICES ASSUME CutTypeOK, LinkedInvariant, cut \subseteq {"deleteFile"}
                 PROVE  OwnedOnce /\ NothingDangles /\ ReadBack /\ NeverHangs
        BY DEF InterruptedDeleteOnlyLeaks
    <2>1. TypeOK /\ (Virgin \/ Bootable)
        BY DEF CutTypeOK, LinkedInvariant
    <2>2. NeverHangs
        BY <2>1 DEF NeverHangs, Virgin, Bootable
    <2> QED
        BY <2>1, <2>2, OwnedOnceOnDisk, NothingDanglesOnDisk, ReadBackOnDisk
<1> QED
    BY <1>1, <1>2, <1>3, StaysPending, PTL DEF CutSpec

=============================================================================
