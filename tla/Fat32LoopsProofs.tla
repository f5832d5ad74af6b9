--------------------------- MODULE Fat32LoopsProofs ---------------------------
(***************************************************************************)
(* That the loops of read, write and delete compute what Fat32Driver says  *)
(* of them in one step, proved for every FAT, every number of clusters and *)
(* every width of the counters.                                            *)
(***************************************************************************)
EXTENDS Fat32Loops, FiniteSetTheorems, TLAPS

-----------------------------------------------------------------------------
LEMMA Numbers ==
    /\ Clusters = 0 .. ClusterCount - 1 /\ Clusters = Driver!Clusters
    /\ Driver!Usable = 3 .. ClusterCount - 1
    /\ Clusters \subseteq Driver!FatValues
    /\ EMPTY = 0 /\ BOOT_SECTOR = 0 /\ EMPTY \in Clusters /\ BOOT_SECTOR \in Clusters
    /\ END_OF_FILE = -1 /\ Driver!CLUSTER_0_VALUE = -2
    /\ END_OF_FILE \in Driver!FatValues
    /\ \A v \in Driver!FatValues \ Clusters : v = END_OF_FILE \/ v = Driver!CLUSTER_0_VALUE
    /\ END_OF_FILE \notin Clusters /\ Driver!CLUSTER_0_VALUE \notin Clusters
    /\ Driver!Maps = [Clusters -> Driver!FatValues]
BY ClusterCountAssumption
DEF Clusters, EMPTY, BOOT_SECTOR, END_OF_FILE, Driver!Clusters, Driver!Usable, Driver!FatValues,
    Driver!EMPTY, Driver!BOOT_SECTOR, Driver!END_OF_FILE, Driver!CLUSTER_0_VALUE, Driver!Maps

(* A counter of so many values, one further.                               *)
LEMMA Counted ==
    ASSUME NEW k \in 0 .. CounterSize - 1
    PROVE  (k + 1) % CounterSize = IF k + 1 = CounterSize THEN 0 ELSE k + 1
BY CounterAssumption

-----------------------------------------------------------------------------
(* The types.                                                              *)

LEMMA TypesStart == Init => TypeOK
<1> SUFFICES ASSUME Init PROVE TypeOK
    OBVIOUS
<1>1. fat0 \in Driver!Maps
    BY MapsAssumption DEF Init
<1>2. n_clusters \in 1 .. MaxNeeded /\ list \in [0 .. n_clusters - 1 -> Clusters]
    <2>1. CASE op = "write"
        BY <2>1, GarbageAssumption DEF Init
    <2>2. CASE op # "write"
        <3>1. n_clusters = 1 /\ list = [k \in {0} |-> BOOT_SECTOR]
            BY <2>2 DEF Init
        <3>2. 0 .. n_clusters - 1 = {0} /\ n_clusters \in 1 .. MaxNeeded
            BY <3>1, CounterAssumption
        <3> QED
            BY <3>1, <3>2, Numbers
    <2> QED
        BY <2>1, <2>2
<1>3. start \in Clusters
    BY Numbers DEF Init
<1> QED
    BY <1>1, <1>2, <1>3, Numbers, CounterAssumption DEF Init, TypeOK, NotWritten

LEMMA TypesKept == TypeOK /\ [Next]_vars => TypeOK'
<1> SUFFICES ASSUME TypeOK, [Next]_vars PROVE TypeOK'
    OBVIOUS
<1> USE DEF TypeOK
<1>1. CASE SearchTakes
    <2>1. i \in Clusters
        BY <1>1, ClusterCountAssumption, Numbers DEF SearchTakes
    <2>2. found' \in 0 .. CounterSize - 1
        BY <1>1, Counted, CounterAssumption DEF SearchTakes
    <2>3. list' \in [0 .. n_clusters - 1 -> Clusters]
        BY <1>1, <2>1 DEF SearchTakes
    <2>4. i' \in Nat /\ pc' \in {"search", "link"}
        BY <1>1 DEF SearchTakes
    <2> QED
        BY <1>1, <2>2, <2>3, <2>4 DEF SearchTakes
<1>2. CASE SearchPasses \/ SearchEnds
    BY <1>2 DEF SearchPasses, SearchEnds
<1>3. CASE Link
    <2>1. i \in 0 .. n_clusters - 1 /\ i + 1 \in 0 .. n_clusters - 1 /\ i + 1 \in NotWritten .. MaxNeeded
        BY <1>3, CounterAssumption DEF Link, NotWritten
    <2>2. (i + 1) % CounterSize \in Nat
        BY CounterAssumption
    <2> QED
        BY <1>3, <2>1, <2>2, Numbers DEF Link, Successor
<1>4. CASE Terminate
    <2>1. n_clusters - 1 \in 0 .. n_clusters - 1 /\ n_clusters \in NotWritten .. MaxNeeded
        BY CounterAssumption DEF NotWritten
    <2> QED
        BY <1>4, <2>1, Numbers DEF Terminate
<1>5. CASE ReadStep \/ DeleteStep
    <2>1. temp \in Clusters
        BY <1>5 DEF ReadStep, DeleteStep, IsOver
    <2>3. map[temp] \in Driver!FatValues /\ map \in [Clusters -> Driver!FatValues]
        BY <2>1, Numbers
    <2>2. 0 \in NotWritten .. MaxNeeded
        BY CounterAssumption DEF NotWritten
    <2>4. CASE ReadStep
        BY SMTT(20), <2>1, <2>3, <2>4, Numbers DEF ReadStep, LinkOf
    <2>5. CASE DeleteStep
        <3>1. blocks' \in [Clusters -> NotWritten .. MaxNeeded]
            BY <2>1, <2>2, <2>5 DEF DeleteStep
        <3>2. map' \in Driver!Maps
            BY <2>1, <2>3, <2>5, Numbers DEF DeleteStep
        <3> QED
            BY <2>3, <2>5, <3>1, <3>2 DEF DeleteStep, LinkOf
    <2> QED
        BY <1>5, <2>4, <2>5
<1>6. CASE WalkEnds
    BY <1>6 DEF WalkEnds
<1>7. CASE UNCHANGED vars
    BY <1>7 DEF vars
<1> QED
    BY <1>1, <1>2, <1>3, <1>4, <1>5, <1>6, <1>7 DEF Next

(* The variables of the loops keep their types; the indices into           *)
(* cluster_number_list stay within it.                                     *)
THEOREM TypeCorrect == Spec => []TypeOK
BY TypesStart, TypesKept, PTL DEF Spec

-----------------------------------------------------------------------------
(* write's search: the free clusters it has passed are the first members   *)
(* of the list, until the index wraps.                                     *)

Places(k) == 0 .. k - 1
Found     == {c \in Driver!Free(fat0) : c < i}
Untouched == map = fat0 /\ blocks = [c \in Clusters |-> NotWritten]

InOrder(k) ==
    /\ \A j \in Places(k) : list[j] \in Found
    /\ \A j \in k .. n_clusters - 1 : list[j] \in StackGarbage
    /\ \A h, j \in Places(k) : h < j => list[h] < list[j]
    /\ \A c \in Found : \E j \in Places(k) : list[j] = c

FilledFrom(S) ==
    /\ \A j \in Places(n_clusters) : list[j] \in S
    /\ \A h, j \in Places(n_clusters) : list[h] = list[j] => h = j

Searching ==
    pc = "search" =>
        /\ op = "write" /\ Untouched /\ i \in 3 .. ClusterCount
        /\ \/ InOrder(found) /\ found < n_clusters
           \/ n_clusters = CounterSize /\ FilledFrom(Found)
           \/ n_clusters > CounterSize

(* What the search hands on to the loop that links.                        *)
SearchDone ==
    op = "write" /\ pc \in {"link", "done"} /\ n_clusters <= CounterSize =>
        /\ n_clusters < CounterSize =>
              \E m \in 0 .. n_clusters : Driver!FirstFit(ListFrom1, m, n_clusters)
        /\ n_clusters <= Cardinality(Driver!Free(fat0)) => FilledFrom(Driver!Free(fat0))

(* The first k members of the list are linked and written; a cluster that  *)
(* is listed twice has what its last place gave it.                        *)
Stored(k) ==
    /\ \A c \in Clusters :
          (\A j \in Places(k) : list[j] # c) => map[c] = fat0[c] /\ blocks[c] = NotWritten
    /\ \A j \in Places(k) :
          (\A h \in Places(k) : list[h] = list[j] => h <= j) =>
              /\ map[list[j]] = IF j = n_clusters - 1 THEN END_OF_FILE ELSE list[j + 1]
              /\ blocks[list[j]] = j + 1

Linking ==
    /\ pc = "link" => /\ op = "write" /\ i < CounterSize
                      /\ n_clusters <= CounterSize => i <= n_clusters - 1 /\ Stored(i)
    /\ op = "write" /\ pc = "done" => n_clusters <= CounterSize /\ Stored(n_clusters)
    /\ op = "write" => pc \in {"search", "link", "done"}

WriteInvariant == Searching /\ SearchDone /\ Linking

LEMMA FreeFinite ==
    ASSUME TypeOK
    PROVE  /\ Driver!Free(fat0) = {c \in 3 .. ClusterCount - 1 : fat0[c] = EMPTY}
           /\ IsFiniteSet(Driver!Free(fat0))
<1>1. Driver!Free(fat0) = {c \in 3 .. ClusterCount - 1 : fat0[c] = EMPTY}
    BY Numbers DEF Driver!Free, EMPTY
<1>2. IsFiniteSet(3 .. ClusterCount - 1)
    BY FS_Interval, ClusterCountAssumption
<1> QED
    BY <1>1, <1>2, FS_Subset

LEMMA SearchTakesKeeps ==
    ASSUME TypeOK, WriteInvariant, SearchTakes
    PROVE  WriteInvariant'
<1> USE DEF Places
<1>1. /\ op = "write" /\ op' = op /\ Untouched /\ Untouched' /\ i \in 3 .. ClusterCount - 1
      /\ fat0' = fat0 /\ n_clusters' = n_clusters
    BY ClusterCountAssumption DEF WriteInvariant, Searching, SearchTakes, Untouched
<1>2. /\ n_clusters \in Nat \ {0} /\ found \in 0 .. CounterSize - 1 /\ CounterSize \in Nat \ {0}
      /\ list \in [0 .. n_clusters - 1 -> Clusters]
    BY CounterAssumption DEF TypeOK
<1>3. found' = IF found + 1 = CounterSize THEN 0 ELSE found + 1
    BY <1>2, Counted DEF SearchTakes
<1>4. /\ \A j \in 0 .. n_clusters - 1 : list'[j] = IF j = found THEN i ELSE list[j]
    BY <1>2 DEF SearchTakes
<1>5. i \in Driver!Free(fat0) /\ \A c \in Driver!Free(fat0) : c \in Nat
    BY <1>1, FreeFinite DEF SearchTakes, Untouched
<1> DEFINE F == {c \in Driver!Free(fat0) : c < i + 1}
<1>6. /\ i \in F /\ i \notin Found /\ Found \subseteq F /\ \A c \in F : c # i => c \in Found
      /\ \A c \in Found : c \in Nat /\ c < i
    <2>1. i \in Nat
        BY <1>1, ClusterCountAssumption
    <2>2. ASSUME NEW c \in F, c # i PROVE c \in Found
        <3>1. c \in Nat /\ c < i + 1 /\ c \in Driver!Free(fat0)
            BY <1>5
        <3>2. c < i
            BY <2>1, <2>2, <3>1
        <3> QED
            BY <3>1, <3>2 DEF Found
    <2>3. \A c \in Found : c \in Nat /\ c < i /\ c \in F
        BY <1>5, <2>1 DEF Found
    <2>4. i \in F /\ i \notin Found
        BY <1>5, <2>1 DEF Found
    <2> HIDE DEF F
    <2> QED
        BY <2>2, <2>3, <2>4
<1> DEFINE Ordered(k) ==
              /\ \A j \in 0 .. k - 1 : list'[j] \in F
              /\ \A j \in k .. n_clusters - 1 : list'[j] \in StackGarbage
              /\ \A h, j \in 0 .. k - 1 : h < j => list'[h] < list'[j]
              /\ \A c \in F : \E j \in 0 .. k - 1 : list'[j] = c
           Full == /\ \A j \in 0 .. n_clusters - 1 : list'[j] \in F
                   /\ \A h, j \in 0 .. n_clusters - 1 : list'[h] = list'[j] => h = j
<1>7. \/ found < n_clusters /\ Ordered(found + 1)
      \/ n_clusters = CounterSize /\ Full
      \/ n_clusters > CounterSize
    <2>1. CASE InOrder(found) /\ found < n_clusters
        <3>1. \A j \in 0 .. found : list'[j] \in F
            BY <1>2, <1>4, <1>6, <2>1 DEF InOrder
        <3>2. \A j \in found + 1 .. n_clusters - 1 : list'[j] \in StackGarbage
            BY <1>2, <1>4, <2>1 DEF InOrder
        <3>3. ASSUME NEW h \in 0 .. found, NEW j \in 0 .. found, h < j
              PROVE  list'[h] < list'[j]
            <4>1. CASE j = found
                BY <1>2, <1>4, <1>6, <2>1, <3>3, <4>1 DEF InOrder
            <4>2. CASE j # found
                BY <1>2, <1>4, <2>1, <3>3, <4>2 DEF InOrder
            <4> QED
                BY <4>1, <4>2
        <3>4. ASSUME NEW c \in F PROVE \E j \in 0 .. found : list'[j] = c
            <4>1. CASE c = i
                BY <1>2, <1>4, <2>1, <4>1
            <4>2. CASE c # i
                <5>1. PICK j \in 0 .. found - 1 : list[j] = c
                    BY <1>6, <2>1, <4>2 DEF InOrder
                <5> QED
                    BY <1>2, <1>4, <2>1, <5>1
            <4> QED
                BY <4>1, <4>2
        <3>5. 0 .. (found + 1) - 1 = 0 .. found
            BY <1>2
        <3>6. Ordered(found + 1)
            <4> HIDE DEF F
            <4> QED BY <3>1, <3>2, <3>3, <3>4, <3>5, Zenon
        <3> QED
            BY <2>1, <3>6
    <2>2. CASE n_clusters = CounterSize /\ FilledFrom(Found)
        <3>1. \A j \in 0 .. n_clusters - 1 : list[j] \in Found /\ list[j] # i
            BY <1>6, <2>2 DEF FilledFrom
        <3>2. \A j \in 0 .. n_clusters - 1 : list'[j] \in F
            BY <1>4, <1>6, <3>1
        <3>3. \A h, j \in 0 .. n_clusters - 1 : list'[h] = list'[j] => h = j
            BY <1>4, <2>2, <3>1 DEF FilledFrom
        <3> QED
            BY <2>2, <3>2, <3>3
    <2>3. \/ InOrder(found) /\ found < n_clusters
          \/ n_clusters = CounterSize /\ FilledFrom(Found)
          \/ n_clusters > CounterSize
        BY DEF WriteInvariant, Searching, SearchTakes
    <2> HIDE DEF Ordered, Full
    <2> QED
        BY <2>1, <2>2, <2>3
<1>8. CASE found' = n_clusters
    <2>1. pc' = "link" /\ i' = 0
        BY <1>8 DEF SearchTakes, FoundAll
    <2>2. n_clusters < CounterSize /\ found + 1 = n_clusters
        BY <1>2, <1>3, <1>8
    <2>3. Ordered(n_clusters)
        <3> HIDE DEF Ordered, Full
        <3> QED BY <1>2, <1>7, <2>2
    <2>4. /\ ListFrom1' = [k \in 1 .. n_clusters |-> list'[k - 1]]
          /\ \A k \in 1 .. n_clusters : k - 1 \in 0 .. n_clusters - 1 /\ ListFrom1'[k] = list'[k - 1]
        BY <1>1, <1>2 DEF ListFrom1
    <2>5. Driver!FirstFit(ListFrom1, n_clusters, n_clusters)'
        <3>1. \A k \in 1 .. n_clusters : ListFrom1'[k] \in Driver!Free(fat0)
            BY <2>3, <2>4
        <3>2. \A k \in n_clusters + 1 .. n_clusters : ListFrom1'[k] \in StackGarbage
            BY <1>2
        <3>3. \A h, k \in 1 .. n_clusters : h < k => ListFrom1'[h] < ListFrom1'[k]
            BY <1>2, <2>3, <2>4
        <3>4. ASSUME NEW c \in Driver!Free(fat0), \A k \in 1 .. n_clusters : ListFrom1'[k] # c
              PROVE  ListFrom1'[n_clusters] < c
            <4>1. c \notin F
                <5>1. SUFFICES ASSUME c \in F PROVE FALSE
                    OBVIOUS
                <5>2. PICK j \in 0 .. n_clusters - 1 : list'[j] = c
                    BY <2>3, <5>1
                <5>3. j + 1 \in 1 .. n_clusters /\ (j + 1) - 1 = j
                    BY <1>2
                <5> QED
                    BY <2>4, <3>4, <5>2, <5>3
            <4>2. ListFrom1'[n_clusters] = i
                BY <1>2, <1>4, <2>2, <2>4
            <4> QED
                BY <1>1, <1>5, <1>6, <4>1, <4>2
        <3> QED
            BY <1>1, <3>1, <3>2, <3>3, <3>4 DEF Driver!FirstFit
    <2>6. FilledFrom(Driver!Free(fat0))'
        <3>1. \A j \in 0 .. n_clusters - 1 : list'[j] \in Driver!Free(fat0) /\ list'[j] \in Nat
            BY <1>5, <2>3
        <3>2. \A h, j \in 0 .. n_clusters - 1 : list'[h] = list'[j] => h = j
            BY <1>2, <2>3, <3>1
        <3> QED
            BY <1>1, <3>1, <3>2 DEF FilledFrom
    <2>7. SearchDone'
        BY <1>1, <1>2, <2>5, <2>6 DEF SearchDone
    <2>8. Stored(0)'
        BY <1>1 DEF Stored, Untouched
    <2>9. Linking'
        BY <1>1, <1>2, <2>1, <2>8 DEF Linking
    <2>10. Searching'
        BY <2>1 DEF Searching
    <2> QED
        BY <2>7, <2>9, <2>10 DEF WriteInvariant
<1>9. CASE found' # n_clusters
    <2>1. pc' = "search" /\ i' = i + 1
        BY <1>9 DEF SearchTakes, FoundAll
    <2>2. Found' = F
        BY <1>1, <2>1 DEF Found
    <2>3. \/ InOrder(found)' /\ found' < n_clusters
          \/ n_clusters = CounterSize /\ FilledFrom(Found)'
          \/ n_clusters > CounterSize
        <3>1. CASE found < n_clusters /\ Ordered(found + 1)
            <4>1. CASE found + 1 = CounterSize
                <5>1. n_clusters > CounterSize \/ n_clusters = CounterSize
                    BY <1>2, <3>1, <4>1
                <5>2. ASSUME n_clusters = CounterSize PROVE Full
                    <6>1. Ordered(n_clusters)
                        BY <3>1, <4>1, <5>2
                    <6>2. \A j \in 0 .. n_clusters - 1 : list'[j] \in Nat
                        BY <1>5, <6>1
                    <6> QED
                        BY <1>2, <6>1, <6>2
                <5> QED
                    BY <1>1, <2>2, <5>1, <5>2 DEF FilledFrom
            <4>2. CASE found + 1 # CounterSize
                <5>1. found' = found + 1 /\ found' < n_clusters
                    BY <1>2, <1>3, <1>9, <3>1, <4>2
                <5> QED
                    BY <1>1, <2>2, <3>1, <5>1 DEF InOrder
            <4> QED
                BY <4>1, <4>2
        <3>2. CASE n_clusters = CounterSize /\ Full
            BY <1>1, <2>2, <3>2 DEF FilledFrom
        <3> HIDE DEF Ordered, Full
        <3> QED
            BY <1>7, <3>1, <3>2
    <2>4. Searching'
        <3>1. i' \in 3 .. ClusterCount
            BY <1>1, <2>1, ClusterCountAssumption
        <3> QED
            BY <1>1, <2>3, <3>1 DEF Searching
    <2> QED
        BY <1>1, <2>1, <2>4 DEF WriteInvariant, SearchDone, Linking
<1> QED
    BY <1>8, <1>9

LEMMA SearchPassesKeeps ==
    ASSUME TypeOK, WriteInvariant, SearchPasses
    PROVE  WriteInvariant'
<1>1. /\ op = "write" /\ Untouched /\ i \in 3 .. ClusterCount - 1 /\ i' = i + 1
      /\ UNCHANGED <<op, pc, fat0, map, blocks, n_clusters, list, found>>
      /\ \/ InOrder(found) /\ found < n_clusters
         \/ n_clusters = CounterSize /\ FilledFrom(Found)
         \/ n_clusters > CounterSize
    BY ClusterCountAssumption DEF WriteInvariant, Searching, SearchPasses
<1>2. Found' = Found
    <2>1. fat0[i] # EMPTY /\ \A c \in Driver!Free(fat0) : c \in Nat /\ c # i
        BY <1>1, FreeFinite DEF SearchPasses, Untouched
    <2>2. \A c \in Driver!Free(fat0) : c < i + 1 <=> c < i
        BY <1>1, <2>1
    <2> QED
        BY <1>1, <2>2 DEF Found
<1>3. InOrder(found)' <=> InOrder(found)
    BY <1>1, <1>2 DEF InOrder
<1>4. FilledFrom(Found)' <=> FilledFrom(Found)
    BY <1>1, <1>2 DEF FilledFrom
<1>5. i' \in 3 .. ClusterCount /\ Untouched'
    BY <1>1, ClusterCountAssumption DEF Untouched
<1>6. pc = "search" /\ pc' = "search"
    BY <1>1 DEF SearchPasses
<1>7. Searching'
    BY <1>1, <1>3, <1>4, <1>5 DEF Searching
<1> QED
    BY <1>1, <1>6, <1>7 DEF WriteInvariant, SearchDone, Linking

(* Too few clusters were found for a file that needs no more than there are: *)
(* that cannot be.                                                         *)
LEMMA EnoughFound ==
    ASSUME TypeOK, InOrder(found), found < n_clusters, Found = Driver!Free(fat0),
           n_clusters <= Cardinality(Driver!Free(fat0))
    PROVE  FALSE
<1> DEFINE S == 1 .. found
           T == Driver!Free(fat0)
           f == [k \in S |-> list[k - 1]]
<1>1. found \in Nat /\ n_clusters \in Nat
    BY CounterAssumption DEF TypeOK
<1>2. IsFiniteSet(S) /\ Cardinality(S) = found
    BY <1>1, FS_Interval
<1>3. ASSUME NEW k \in S PROVE f[k] \in T
    BY <1>1 DEF InOrder, Places
<1>4. ASSUME NEW c \in T PROVE \E k \in S : f[k] = c
    <2>1. PICK j \in Places(found) : list[j] = c
        BY DEF InOrder
    <2>2. j + 1 \in S /\ (j + 1) - 1 = j
        BY <1>1, <2>1 DEF Places
    <2> QED
        BY <2>1, <2>2
<1>5. f \in Surjection(S, T)
    <2>1. f \in [S -> T]
        BY <1>3
    <2> HIDE DEF f
    <2> QED
        BY <1>4, <2>1 DEF Surjection
<1>6. Cardinality(T) <= found /\ Cardinality(T) \in Nat
    <2> HIDE DEF S, T, f
    <2> QED BY <1>2, <1>5, FS_Surjection, FS_CardinalityType
<1> QED
    BY <1>1, <1>6

LEMMA SearchEndsKeeps ==
    ASSUME TypeOK, WriteInvariant, SearchEnds
    PROVE  WriteInvariant'
<1>1. /\ op = "write" /\ Untouched /\ i = ClusterCount /\ i' = 0 /\ pc' = "link"
      /\ UNCHANGED <<op, fat0, map, blocks, n_clusters, list, found>>
      /\ \/ InOrder(found) /\ found < n_clusters
         \/ n_clusters = CounterSize /\ FilledFrom(Found)
         \/ n_clusters > CounterSize
    BY DEF WriteInvariant, Searching, SearchEnds
<1>2. /\ n_clusters \in Nat \ {0} /\ found \in Nat /\ CounterSize \in Nat \ {0}
      /\ list \in [0 .. n_clusters - 1 -> Clusters]
    BY CounterAssumption DEF TypeOK
<1>3. Found = Driver!Free(fat0)
    BY <1>1, FreeFinite, ClusterCountAssumption DEF Found
<1>4. ASSUME n_clusters < CounterSize
      PROVE  Driver!FirstFit(ListFrom1, found, n_clusters) /\ found \in 0 .. n_clusters
    <2>1. InOrder(found) /\ found < n_clusters
        BY <1>1, <1>2, <1>4
    <2>2. \A k \in 1 .. n_clusters : k - 1 \in 0 .. n_clusters - 1 /\ ListFrom1[k] = list[k - 1]
        BY <1>2 DEF ListFrom1
    <2>3. \A k \in 1 .. found : ListFrom1[k] \in Driver!Free(fat0)
        BY <1>2, <1>3, <2>1, <2>2 DEF InOrder, Places
    <2>4. \A k \in found + 1 .. n_clusters : ListFrom1[k] \in StackGarbage
        BY <1>2, <2>1, <2>2 DEF InOrder
    <2>5. \A h, k \in 1 .. found : h < k => ListFrom1[h] < ListFrom1[k]
        BY <1>2, <2>1, <2>2 DEF InOrder, Places
    <2>6. ASSUME NEW c \in Driver!Free(fat0) PROVE ~ \A k \in 1 .. found : ListFrom1[k] # c
        <3>1. PICK j \in 0 .. found - 1 : list[j] = c
            BY <1>3, <2>1 DEF InOrder, Places
        <3>2. j + 1 \in 1 .. found /\ (j + 1) - 1 = j /\ j + 1 \in 1 .. n_clusters
            BY <1>2, <2>1
        <3> QED
            BY <2>2, <3>1, <3>2
    <2> QED
        BY <1>2, <2>1, <2>3, <2>4, <2>5, <2>6 DEF Driver!FirstFit
<1>5. ASSUME n_clusters <= CounterSize, n_clusters <= Cardinality(Driver!Free(fat0))
      PROVE  FilledFrom(Driver!Free(fat0))
    BY <1>1, <1>2, <1>3, <1>5, EnoughFound
<1>6. SearchDone'
    <2>1. ASSUME n_clusters < CounterSize
          PROVE  \E m \in 0 .. n_clusters : Driver!FirstFit(ListFrom1, m, n_clusters)'
        <3>1. ListFrom1' = ListFrom1 /\ Driver!Free(fat0)' = Driver!Free(fat0)
            BY <1>1 DEF ListFrom1, Driver!Free
        <3>2. Driver!FirstFit(ListFrom1, found, n_clusters)'
            BY <1>1, <1>4, <2>1, <3>1 DEF Driver!FirstFit
        <3> QED
            BY <1>1, <1>4, <2>1, <3>2
    <2>2. FilledFrom(Driver!Free(fat0))' <=> FilledFrom(Driver!Free(fat0))
        BY <1>1 DEF FilledFrom
    <2> QED
        BY <1>1, <1>5, <2>1, <2>2 DEF SearchDone
<1>7. Stored(0)'
    BY <1>1 DEF Stored, Untouched, Places
<1>8. Linking'
    BY <1>1, <1>2, <1>7 DEF Linking
<1> QED
    BY <1>1, <1>6, <1>8 DEF WriteInvariant, Searching

(* One more member of the list is linked and written.                      *)
LEMMA StoredFurther ==
    ASSUME TypeOK, NEW k \in 0 .. n_clusters - 1, Stored(k),
           UNCHANGED <<fat0, n_clusters, list>>,
           map' = [map EXCEPT ![list[k]] = IF k = n_clusters - 1 THEN END_OF_FILE ELSE list[k + 1]],
           blocks' = [blocks EXCEPT ![list[k]] = k + 1]
    PROVE  Stored(k + 1)'
<1>1. /\ n_clusters \in Nat \ {0} /\ list \in [0 .. n_clusters - 1 -> Clusters]
      /\ map \in [Clusters -> Driver!FatValues] /\ DOMAIN blocks = Clusters
    <2>1. map \in [Clusters -> Driver!FatValues]
        BY Numbers DEF TypeOK
    <2> QED
        BY <2>1, CounterAssumption DEF TypeOK
<1>2. list[k] \in Clusters /\ k \in Nat
    BY <1>1
<1>3. /\ \A c \in Clusters : c # list[k] => map'[c] = map[c] /\ blocks'[c] = blocks[c]
      /\ map'[list[k]] = IF k = n_clusters - 1 THEN END_OF_FILE ELSE list[k + 1]
      /\ blocks'[list[k]] = k + 1
    BY <1>1, <1>2
<1>4. Places(k + 1) = 0 .. k /\ Places(k) = 0 .. k - 1
    BY <1>2 DEF Places
<1>5. ASSUME NEW c \in Clusters, \A j \in 0 .. k : list[j] # c
      PROVE  map'[c] = fat0[c] /\ blocks'[c] = NotWritten
    <2>1. c # list[k] /\ \A j \in 0 .. k - 1 : list[j] # c
        BY <1>2, <1>5
    <2> QED
        BY <1>3, <1>4, <2>1 DEF Stored
<1>6. ASSUME NEW j \in 0 .. k, \A h \in 0 .. k : list[h] = list[j] => h <= j
      PROVE  /\ map'[list[j]] = IF j = n_clusters - 1 THEN END_OF_FILE ELSE list[j + 1]
             /\ blocks'[list[j]] = j + 1
    <2>1. CASE j = k
        BY <1>3, <2>1
    <2>2. CASE j # k
        <3>1. j \in 0 .. k - 1 /\ list[j] # list[k] /\ \A h \in 0 .. k - 1 : list[h] = list[j] => h <= j
            BY <1>2, <1>6, <2>2
        <3>2. list[j] \in Clusters
            BY <1>1, <1>2, <3>1
        <3> QED
            BY <1>3, <1>4, <3>1, <3>2 DEF Stored
    <2> QED
        BY <2>1, <2>2
<1> QED
    BY <1>4, <1>5, <1>6 DEF Stored

LEMMA LinkKeeps ==
    ASSUME TypeOK, WriteInvariant, Link
    PROVE  WriteInvariant'
<1>1. /\ op = "write" /\ i < CounterSize /\ pc' = "link" /\ pc = "link" /\ i < n_clusters - 1
      /\ n_clusters <= CounterSize => Stored(i)
      /\ UNCHANGED <<op, pc, fat0, n_clusters, list, found>>
    BY DEF WriteInvariant, Linking, Link
<1>2. n_clusters \in Nat \ {0} /\ CounterSize \in Nat \ {0} /\ i \in 0 .. CounterSize - 1
    BY <1>1, CounterAssumption DEF TypeOK
<1>3. i' \in Nat /\ i' < CounterSize
    BY <1>2, Counted DEF Link
<1>4. ASSUME n_clusters <= CounterSize PROVE i' <= n_clusters - 1 /\ Stored(i)'
    <2>1. i' = i + 1 /\ i + 1 <= n_clusters - 1 /\ i \in 0 .. n_clusters - 1
        BY <1>1, <1>2, <1>4, Counted DEF Link
    <2>2. map' = [map EXCEPT ![list[i]] = IF i = n_clusters - 1 THEN END_OF_FILE ELSE list[i + 1]]
        <3>1. i # n_clusters - 1
            BY <1>1, <1>2
        <3>2. map' = [map EXCEPT ![list[i]] = list[i + 1]]
            BY DEF Link, Successor
        <3> QED
            BY <3>1, <3>2, Zenon
    <2>3. blocks' = [blocks EXCEPT ![list[i]] = i + 1]
        BY DEF Link
    <2>4. \A k : k = i => Stored(k + 1)'
        BY <1>1, <1>4, <2>1, <2>2, <2>3, StoredFurther
    <2> QED
        BY <2>1, <2>4 DEF Stored
<1>5. Linking'
    BY <1>1, <1>3, <1>4 DEF Linking
<1>6. SearchDone' <=> SearchDone
    BY <1>1 DEF SearchDone, ListFrom1, FilledFrom, Driver!FirstFit, Driver!Free
<1> QED
    BY <1>1, <1>5, <1>6 DEF WriteInvariant, Searching

LEMMA TerminateKeeps ==
    ASSUME TypeOK, WriteInvariant, Terminate
    PROVE  WriteInvariant'
<1>1. /\ op = "write" /\ i < CounterSize /\ pc' = "done" /\ pc = "link" /\ i >= n_clusters - 1
      /\ n_clusters <= CounterSize => i <= n_clusters - 1 /\ Stored(i)
      /\ UNCHANGED <<op, fat0, n_clusters, list, found>>
    BY DEF WriteInvariant, Linking, Terminate
<1>2. n_clusters \in Nat \ {0} /\ CounterSize \in Nat \ {0} /\ i \in 0 .. CounterSize - 1
    BY <1>1, CounterAssumption DEF TypeOK
<1>3. n_clusters <= CounterSize /\ i = n_clusters - 1 /\ i \in 0 .. n_clusters - 1
      /\ i + 1 = n_clusters /\ Stored(i)
    BY <1>1, <1>2
<1>4. Stored(n_clusters)'
    <2>1. map' = [map EXCEPT ![list[i]] = IF i = n_clusters - 1 THEN END_OF_FILE ELSE list[i + 1]]
        BY <1>3 DEF Terminate
    <2>2. blocks' = [blocks EXCEPT ![list[i]] = i + 1]
        BY <1>3 DEF Terminate
    <2>3. \A k : k = n_clusters => Stored(k)'
        BY <1>1, <1>3, <2>1, <2>2, StoredFurther
    <2> QED
        BY <1>1, <2>3 DEF Stored
<1>5. Linking'
    BY <1>1, <1>3, <1>4 DEF Linking
<1>6. SearchDone' <=> SearchDone
    BY <1>1 DEF SearchDone, ListFrom1, FilledFrom, Driver!FirstFit, Driver!Free
<1> QED
    BY <1>1, <1>5, <1>6 DEF WriteInvariant, Searching

LEMMA WriteStart == Init => WriteInvariant
<1> SUFFICES ASSUME Init PROVE WriteInvariant
    OBVIOUS
<1>1. CASE op = "write"
    <2>1. /\ pc = "search" /\ Untouched /\ i = 3 /\ found = 0 /\ found < n_clusters
          /\ list \in [0 .. n_clusters - 1 -> StackGarbage] /\ fat0 \in Driver!Maps
        BY <1>1, MapsAssumption, CounterAssumption DEF Init, Untouched
    <2>2. Found = {}
        <3>1. Driver!Free(fat0) \subseteq 3 .. ClusterCount - 1
            BY Numbers DEF Driver!Free
        <3> QED
            BY <2>1, <3>1, ClusterCountAssumption DEF Found
    <2>3. InOrder(found)
        BY <2>1, <2>2 DEF InOrder, Places
    <2> QED
        BY <1>1, <2>1, <2>3, ClusterCountAssumption
        DEF WriteInvariant, Searching, SearchDone, Linking
<1>2. CASE op # "write"
    BY <1>2 DEF Init, WriteInvariant, Searching, SearchDone, Linking
<1> QED
    BY <1>1, <1>2

LEMMA WriteKept == TypeOK /\ WriteInvariant /\ [Next]_vars => WriteInvariant'
<1> SUFFICES ASSUME TypeOK, WriteInvariant, [Next]_vars PROVE WriteInvariant'
    OBVIOUS
<1>1. CASE ReadStep \/ DeleteStep \/ WalkEnds
    <2>1. pc = "walk" /\ op # "write" /\ op' = op /\ pc' \notin {"search", "link"}
        BY <1>1 DEF WriteInvariant, Linking, ReadStep, DeleteStep, WalkEnds
    <2> QED
        BY <2>1 DEF WriteInvariant, Searching, SearchDone, Linking
<1>2. CASE UNCHANGED vars
    <2>1. Searching' <=> Searching
        BY <1>2 DEF vars, Searching, Untouched, InOrder, Found, FilledFrom, Driver!Free
    <2>2. SearchDone' <=> SearchDone
        BY <1>2 DEF vars, SearchDone, ListFrom1, FilledFrom, Driver!FirstFit, Driver!Free
    <2>3. Linking' <=> Linking
        BY <1>2 DEF vars, Linking, Stored
    <2> QED
        BY <2>1, <2>2, <2>3 DEF WriteInvariant
<1> QED
    BY <1>1, <1>2, SearchTakesKeeps, SearchPassesKeeps, SearchEndsKeeps, LinkKeeps, TerminateKeeps
    DEF Next

-----------------------------------------------------------------------------
(* What write leaves behind, in the terms of Fat32Driver.                  *)

LEMMA LeastNumber ==
    ASSUME NEW S \in SUBSET Nat, S # {}
    PROVE  \E k \in S : \A j \in S : k <= j
<1> DEFINE R == {p \in Nat \X Nat : p[1] < p[2]}
<1>1. IsWellFoundedOn(R, Nat)
    BY NatLessThanWellFounded DEF OpToRel
<1>2. PICK k \in S : \A j \in S : ~ (<<j, k>> \in R)
    <2> HIDE DEF R
    <2> QED BY <1>1, WFMin
<1>3. \A j \in S : <<j, k>> \in Nat \X Nat /\ <<j, k>>[1] = j /\ <<j, k>>[2] = k
    OBVIOUS
<1>4. \A j \in S : ~ (j < k)
    BY <1>2, <1>3
<1> QED
    BY <1>4

(* A listed cluster has a last place, and Driver!LastAt is that place.     *)
LEMMA LastPlace ==
    ASSUME NEW n \in Nat, NEW l, DOMAIN l = 1 .. n, NEW c \in Driver!Listed(l)
    PROVE  /\ Driver!LastAt(l, c) \in 1 .. n /\ l[Driver!LastAt(l, c)] = c
           /\ \A j \in 1 .. n : l[j] = c => j <= Driver!LastAt(l, c)
<1> DEFINE S == {m \in Nat : n - m \in 1 .. n /\ l[n - m] = c}
<1>1. PICK p \in 1 .. n : l[p] = c
    BY DEF Driver!Listed
<1>2. n - p \in S
    <2>1. n - p \in Nat /\ n - (n - p) = p
        OBVIOUS
    <2> QED
        BY <1>1, <2>1
<1>3. PICK m \in S : \A j \in S : m <= j
    <2>1. S \in SUBSET Nat /\ S # {}
        BY <1>2
    <2> HIDE DEF S
    <2> QED BY <2>1, LeastNumber
<1> DEFINE k == n - m
<1>4. k \in 1 .. n /\ l[k] = c /\ m \in Nat
    BY <1>3
<1>5. ASSUME NEW j \in 1 .. n, l[j] = c PROVE j <= k
    <2>1. n - j \in Nat /\ n - (n - j) = j
        OBVIOUS
    <2>2. n - j \in S
        BY <1>5, <2>1
    <2>3. m <= n - j
        BY <1>3, <2>2
    <2> QED
        BY <1>4, <2>3
<1>6. \E i_ \in DOMAIN l : l[i_] = c /\ \A j \in DOMAIN l : l[j] = c => j <= i_
    <2> HIDE DEF k
    <2> QED BY <1>4, <1>5
<1> QED
    BY <1>6 DEF Driver!LastAt

(* A function that goes along the links of a map is the walk.              *)
GoesAlong(m, c, n, at) ==
    /\ at = [k \in 1 .. n |-> at[k]]
    /\ \A k \in 1 .. n : at[k] = IF k = 1 THEN c
                                 ELSE IF at[k - 1] \in Clusters THEN m[at[k - 1]] ELSE END_OF_FILE

LEMMA WalkIs ==
    ASSUME NEW m, NEW c, NEW n \in Nat, NEW at, GoesAlong(m, c, n, at)
    PROVE  Driver!Walk(m, c, n) = at
<1> DEFINE Goes(a) == a = [k \in 1 .. n |-> IF k = 1 THEN c
                              ELSE IF a[k - 1] \in Clusters THEN m[a[k - 1]] ELSE END_OF_FILE]
           w == Driver!Walk(m, c, n)
<1>1. w = CHOOSE a : Goes(a)
    BY Zenon DEF Driver!Walk, Clusters, END_OF_FILE
<1>2. Goes(at)
    <2> DEFINE Step(k) == IF k = 1 THEN c
                          ELSE IF at[k - 1] \in Clusters THEN m[at[k - 1]] ELSE END_OF_FILE
    <2>1. \A k \in 1 .. n : at[k] = Step(k)
        BY DEF GoesAlong
    <2>2. at = [k \in 1 .. n |-> Step(k)]
        <3> HIDE DEF Step
        <3> QED BY <2>1 DEF GoesAlong
    <2> QED
        BY <2>2
<1>3. Goes(w)
    <2> HIDE DEF Goes, w
    <2> QED BY <1>1, <1>2, Zenon
<1> HIDE DEF w
<1>8. \A k \in 1 .. n : w[k] = IF k = 1 THEN c
                               ELSE IF w[k - 1] \in Clusters THEN m[w[k - 1]] ELSE END_OF_FILE
    BY <1>3
<1>9. \A k \in 1 .. n : at[k] = IF k = 1 THEN c
                                ELSE IF at[k - 1] \in Clusters THEN m[at[k - 1]] ELSE END_OF_FILE
    BY DEF GoesAlong
<1> DEFINE S == {k \in Nat : k \in 1 .. n /\ w[k] # at[k]}
<1>4. S = {}
    <2> SUFFICES ASSUME S # {} PROVE FALSE
        OBVIOUS
    <2>1. PICK k \in S : \A j \in S : k <= j
        <3>1. S \in SUBSET Nat
            OBVIOUS
        <3> HIDE DEF S
        <3> QED BY <3>1, LeastNumber
    <2>2. k \in 1 .. n /\ w[k] # at[k] /\ k \in Nat
        BY <2>1
    <2>3. w[1] = c /\ at[1] = c
        <3>1. 1 \in 1 .. n
            BY <2>2
        <3> QED
            BY <1>8, <1>9, <3>1
    <2>4. k # 1 /\ k - 1 \in 1 .. n /\ k - 1 \in Nat /\ ~(k <= k - 1)
        BY <2>2, <2>3
    <2>5. w[k - 1] = at[k - 1]
        BY <2>1, <2>4
    <2> QED
        BY <1>8, <1>9, <2>2, <2>4, <2>5
<1>5. ASSUME NEW k \in 1 .. n PROVE w[k] = at[k]
    <2>1. k \in Nat
        OBVIOUS
    <2>2. k \notin S
        <3> HIDE DEF S
        <3> QED BY <1>4
    <2> QED
        BY <2>1, <2>2
<1>6. w = [k \in 1 .. n |-> w[k]] /\ at = [k \in 1 .. n |-> at[k]]
    BY <1>2, <1>3
<1>7. w = at
    <2> HIDE DEF Goes
    <2> QED BY <1>5, <1>6
<1> QED
    BY <1>7 DEF w

LEMMA ListOfOne ==
    ASSUME TypeOK
    PROVE  /\ n_clusters \in Nat \ {0} /\ DOMAIN ListFrom1 = 1 .. n_clusters
           /\ \A k \in 1 .. n_clusters : /\ k - 1 \in Places(n_clusters) /\ ListFrom1[k] = list[k - 1]
                                         /\ ListFrom1[k] \in Clusters
           /\ \A j \in Places(n_clusters) : /\ j + 1 \in 1 .. n_clusters /\ (j + 1) - 1 = j
                                            /\ ListFrom1[j + 1] = list[j]
           /\ map = [c \in Clusters |-> map[c]] /\ blocks = [c \in Clusters |-> blocks[c]]
<1>1. n_clusters \in Nat \ {0} /\ list \in [0 .. n_clusters - 1 -> Clusters]
    BY CounterAssumption DEF TypeOK
<1>2. map = [c \in Clusters |-> map[c]] /\ blocks = [c \in Clusters |-> blocks[c]]
    BY Numbers DEF TypeOK
<1>3. \A k \in 1 .. n_clusters : k - 1 \in 0 .. n_clusters - 1
    BY <1>1
<1>4. \A j \in 0 .. n_clusters - 1 : j + 1 \in 1 .. n_clusters /\ (j + 1) - 1 = j
    BY <1>1
<1> QED
    BY <1>1, <1>2, <1>3, <1>4 DEF ListFrom1, Places

(* write's loops compute what Fat32Driver says of write in one step, for   *)
(* every file of fewer clusters than the counters have values.             *)
THEOREM WriteKeepsWord == Spec => []WriteAsDescribed
<1>1. TypeOK /\ WriteInvariant => WriteAsDescribed
    <2> SUFFICES ASSUME TypeOK, WriteInvariant, op = "write", pc = "done", n_clusters < CounterSize
                 PROVE  /\ \E m \in 0 .. n_clusters : Driver!FirstFit(ListFrom1, m, n_clusters)
                        /\ map = Driver!Linked(fat0, ListFrom1, n_clusters)
                        /\ blocks = [c \in Clusters |-> IF c \in Driver!Listed(ListFrom1)
                                          THEN Driver!LastAt(ListFrom1, c) ELSE NotWritten]
        BY DEF WriteAsDescribed
    <2> DEFINE l == ListFrom1
               n == n_clusters
    <2>1. Stored(n) /\ \E m \in 0 .. n : Driver!FirstFit(l, m, n)
        BY CounterAssumption DEF WriteInvariant, SearchDone, Linking, TypeOK
    <2>2. /\ n \in Nat /\ DOMAIN l = 1 .. n
          /\ \A k \in 1 .. n : k - 1 \in Places(n) /\ l[k] = list[k - 1]
          /\ \A j \in Places(n) : j + 1 \in 1 .. n /\ (j + 1) - 1 = j /\ l[j + 1] = list[j]
          /\ map = [c \in Clusters |-> map[c]] /\ blocks = [c \in Clusters |-> blocks[c]]
        BY ListOfOne
    <2>3. ASSUME NEW c \in Clusters, c \notin Driver!Listed(l)
          PROVE  map[c] = fat0[c] /\ blocks[c] = NotWritten
        <3>1. \A j \in Places(n) : list[j] # c
            BY <2>2, <2>3 DEF Driver!Listed
        <3> QED
            BY <2>1, <3>1 DEF Stored
    <2>4. ASSUME NEW c \in Clusters, c \in Driver!Listed(l), NEW k, k = Driver!LastAt(l, c)
          PROVE  map[c] = (IF k = n THEN END_OF_FILE ELSE l[k + 1]) /\ blocks[c] = k
        <3>1. k \in 1 .. n /\ l[k] = c /\ \A j \in 1 .. n : l[j] = c => j <= k
            BY <2>2, <2>4, LastPlace
        <3>2. k - 1 \in Places(n) /\ list[k - 1] = c
            BY <2>2, <3>1
        <3>3. ASSUME NEW h \in Places(n), list[h] = list[k - 1] PROVE h <= k - 1
            <4>1. h + 1 \in 1 .. n /\ l[h + 1] = c
                BY <2>2, <3>2, <3>3
            <4>2. h + 1 <= k
                BY <3>1, <4>1
            <4> QED
                BY <2>2, <3>1, <4>2 DEF Places
        <3>4. /\ map[c] = IF k - 1 = n - 1 THEN END_OF_FILE ELSE list[(k - 1) + 1]
              /\ blocks[c] = (k - 1) + 1
            <4> HIDE DEF l
            <4> QED BY <2>1, <3>2, <3>3 DEF Stored
        <3>5. (k - 1) + 1 = k /\ (k - 1 = n - 1 <=> k = n)
            BY <2>2, <3>1
        <3>6. ASSUME k # n PROVE l[k + 1] = list[k]
            <4>1. k + 1 \in 1 .. n /\ (k + 1) - 1 = k
                BY <2>2, <3>1, <3>6
            <4> QED
                BY <2>2, <4>1
        <3> HIDE DEF l
        <3> QED
            BY <3>4, <3>5, <3>6
    <2>5. map = Driver!Linked(fat0, l, n)
        <3>1. \A c \in Clusters : map[c] =
                 IF c \notin Driver!Listed(l) THEN fat0[c]
                 ELSE IF Driver!LastAt(l, c) = n THEN END_OF_FILE ELSE l[Driver!LastAt(l, c) + 1]
            <4> HIDE DEF l, n
            <4> QED BY <2>3, <2>4
        <3>2. map = [c \in Clusters |->
                 IF c \notin Driver!Listed(l) THEN fat0[c]
                 ELSE IF Driver!LastAt(l, c) = n THEN END_OF_FILE ELSE l[Driver!LastAt(l, c) + 1]]
            <4> HIDE DEF l, n
            <4> QED BY <2>2, <3>1
        <3> HIDE DEF l, n
        <3> QED
            BY <3>2, Zenon DEF Driver!Linked, Clusters, END_OF_FILE
    <2>6. blocks = [c \in Clusters |-> IF c \in Driver!Listed(l) THEN Driver!LastAt(l, c) ELSE NotWritten]
        <3>1. \A c \in Clusters : blocks[c] = IF c \in Driver!Listed(l) THEN Driver!LastAt(l, c) ELSE NotWritten
            <4> HIDE DEF l, n
            <4> QED BY <2>3, <2>4
        <3> HIDE DEF l, n
        <3> QED
            BY <2>2, <3>1
    <2> QED
        BY <2>1, <2>5, <2>6
<1> QED
    BY <1>1, TypeCorrect, WriteStart, TypesKept, WriteKept, PTL DEF Spec

(* A file of as many clusters as the counters have values is stored in     *)
(* order too, in clusters that were free; no other cluster is touched.     *)
THEOREM FilesAreStored == Spec => []StoredInOrder
<1>1. TypeOK /\ WriteInvariant => StoredInOrder
    <2> DEFINE l == ListFrom1
               n == n_clusters
               F == Driver!Free(fat0)
    <2> SUFFICES ASSUME TypeOK, WriteInvariant, op = "write", pc = "done", n <= Cardinality(F)
                 PROVE  /\ Driver!Walk(map, list[0], n) = l
                        /\ \A k \in 1 .. n : l[k] \in F /\ blocks[l[k]] = k
                        /\ map[list[n - 1]] = END_OF_FILE
                        /\ \A c \in Clusters \ Driver!Listed(l) : map[c] = fat0[c] /\ blocks[c] = NotWritten
        BY DEF StoredInOrder
    <2>1. Stored(n) /\ FilledFrom(F)
        BY DEF WriteInvariant, SearchDone, Linking
    <2>2. /\ n \in Nat \ {0} /\ DOMAIN l = 1 .. n
          /\ \A k \in 1 .. n : k - 1 \in Places(n) /\ l[k] = list[k - 1] /\ l[k] \in Clusters
          /\ \A j \in Places(n) : j + 1 \in 1 .. n /\ (j + 1) - 1 = j /\ l[j + 1] = list[j]
        BY ListOfOne
    <2> HIDE DEF l, n, F
    <2>3. ASSUME NEW j \in Places(n)
          PROVE  /\ list[j] \in F /\ blocks[list[j]] = j + 1
                 /\ map[list[j]] = IF j = n - 1 THEN END_OF_FILE ELSE list[j + 1]
        <3>1. \A h \in Places(n) : list[h] = list[j] => h <= j
            <4>1. \A h \in Places(n) : list[h] = list[j] => h = j
                BY <2>1 DEF FilledFrom, n
            <4> QED
                BY <2>2, <4>1 DEF Places
        <3> QED
            BY <2>1, <3>1 DEF Stored, FilledFrom, n
    <2>4. ASSUME NEW k \in 1 .. n PROVE l[k] \in F /\ blocks[l[k]] = k
        <3>1. k - 1 \in Places(n) /\ l[k] = list[k - 1]
            BY <2>2
        <3>2. n \in Nat
            BY <2>2
        <3>3. (k - 1) + 1 = k
            BY <3>2
        <3> QED
            BY <2>3, <3>1, <3>3
    <2>5. map[list[n - 1]] = END_OF_FILE
        <3>1. n - 1 \in Places(n)
            BY <2>2 DEF Places
        <3> QED
            BY <2>3, <3>1
    <2>6. ASSUME NEW c \in Clusters \ Driver!Listed(l) PROVE map[c] = fat0[c] /\ blocks[c] = NotWritten
        <3>1. \A j \in Places(n) : list[j] # c
            BY <2>2 DEF Driver!Listed
        <3> QED
            BY <2>1, <3>1 DEF Stored
    <2>7. Driver!Walk(map, list[0], n) = l
        <3> DEFINE Next1(k) == IF k = 1 THEN list[0]
                               ELSE IF l[k - 1] \in Clusters THEN map[l[k - 1]] ELSE END_OF_FILE
        <3>1. ASSUME NEW k \in 1 .. n PROVE l[k] = Next1(k)
            <4>1. CASE k = 1
                BY <2>2, <4>1
            <4>2. CASE k # 1
                <5>1. k - 1 \in 1 .. n /\ k - 2 \in Places(n) /\ (k - 1) - 1 = k - 2 /\ (k - 2) + 1 = k - 1
                      /\ k - 2 # n - 1
                    BY <2>2, <4>2 DEF Places
                <5>2. l[k - 1] = list[k - 2] /\ l[k - 1] \in Clusters /\ l[k] = list[k - 1]
                    BY <2>2, <5>1
                <5>3. map[list[k - 2]] = list[k - 1]
                    BY <2>3, <5>1
                <5> QED
                    BY <4>2, <5>2, <5>3
            <4> QED
                BY <4>1, <4>2
        <3>2. l = [k \in 1 .. n |-> l[k]]
            BY <2>2 DEF l, ListFrom1
        <3>3. n \in Nat
            BY <2>2
        <3>4. GoesAlong(map, list[0], n, l)
            BY <3>1, <3>2 DEF GoesAlong
        <3> QED
            BY <3>3, <3>4, WalkIs
    <2> QED
        BY <2>4, <2>5, <2>6, <2>7
<1> QED
    BY <1>1, TypeCorrect, WriteStart, TypesKept, WriteKept, PTL DEF Spec

-----------------------------------------------------------------------------
(* The walks: the set of clusters visited so far and the one to visit next. *)

Walking(m, from, V, next) ==
    /\ V \subseteq Driver!Chain(m, from)
    /\ next \in Clusters => next \in Driver!Chain(m, from)
    /\ from \in V \cup {next}
    /\ \A x \in V : m[x] \in V \cup {next}
    /\ next = from \/ \E x \in V : m[x] = next

LEMMA ChainBasics ==
    ASSUME NEW m, NEW c \in Clusters
    PROVE  /\ Driver!Chain(m, c) \subseteq Clusters /\ c \in Driver!Chain(m, c)
           /\ \A x \in Driver!Chain(m, c) : m[x] \in Clusters => m[x] \in Driver!Chain(m, c)
           /\ \A K \in SUBSET Clusters :
                 c \in K /\ (\A x \in K : m[x] \in Clusters => m[x] \in K) => Driver!Chain(m, c) \subseteq K
<1> DEFINE C == Driver!Chain(m, c)
<1>1. C = {x \in Clusters : \A K \in SUBSET (Clusters \ {x}) :
                               c \in K => \E y \in K : m[y] \in Clusters \ K}
    BY DEF Driver!Chain, Clusters
<1> HIDE DEF C
<1>2. ASSUME NEW x \in C, m[x] \in Clusters PROVE m[x] \in C
    <2> SUFFICES ASSUME NEW K \in SUBSET (Clusters \ {m[x]}), c \in K,
                        \A y \in K : m[y] \notin Clusters \ K
                 PROVE  FALSE
        BY <1>1, <1>2
    <2>1. x \notin K
        BY <1>2
    <2>2. K \in SUBSET (Clusters \ {x})
        BY <2>1
    <2> QED
        BY <1>1, <2>2
<1>3. ASSUME NEW K \in SUBSET Clusters, c \in K, \A x \in K : m[x] \in Clusters => m[x] \in K
      PROVE  C \subseteq K
    <2> SUFFICES ASSUME NEW x \in C, x \notin K PROVE FALSE
        OBVIOUS
    <2>1. K \in SUBSET (Clusters \ {x})
        OBVIOUS
    <2> QED
        BY <1>1, <1>3, <2>1
<1>4. C \subseteq Clusters /\ c \in C
    BY <1>1
<1> QED
    BY <1>2, <1>3, <1>4 DEF C

LEMMA WalkStarts ==
    ASSUME NEW m, NEW c \in Clusters
    PROVE  Walking(m, c, {}, c)
BY ChainBasics DEF Walking

LEMMA WalkGoesOn ==
    ASSUME NEW m, NEW from \in Clusters, NEW V, NEW next \in Clusters, Walking(m, from, V, next)
    PROVE  Walking(m, from, V \cup {next}, m[next])
BY ChainBasics DEF Walking

(* The walk comes to a cluster it has visited: it circles.                 *)
LEMMA WalkReturns ==
    ASSUME NEW m, NEW from \in Clusters, NEW V, NEW next \in V, Walking(m, from, V, next)
    PROVE  V = Driver!Chain(m, from) /\ Driver!Circles(m, from) /\ ~ Driver!Ends(m, from)
<1>1. from \in V /\ V \subseteq Clusters /\ \A x \in V : m[x] \in V
    BY ChainBasics DEF Walking
<1>2. Driver!Chain(m, from) \subseteq V
    BY <1>1, ChainBasics
<1>3. V = Driver!Chain(m, from)
    BY <1>2 DEF Walking
<1> QED
    BY <1>1, <1>3, Numbers DEF Driver!Circles, Driver!Ends, Clusters, END_OF_FILE

(* The walk comes to a value that is no cluster: it has seen the chain.    *)
LEMMA WalkOver ==
    ASSUME NEW m, NEW from \in Clusters, NEW V, NEW next, next \notin Clusters, Walking(m, from, V, next)
    PROVE  /\ V = Driver!Chain(m, from) /\ ~ Driver!Circles(m, from)
           /\ Driver!Ends(m, from) <=> next = END_OF_FILE
<1>1. /\ from \in V /\ V \subseteq Clusters /\ \A x \in V : m[x] \in Clusters => m[x] \in V
      /\ \E x \in V : m[x] = next
    BY ChainBasics DEF Walking
<1>2. V = Driver!Chain(m, from)
    <2>1. Driver!Chain(m, from) \subseteq V
        BY <1>1, ChainBasics
    <2> QED
        BY <2>1 DEF Walking
<1>3. \A x \in V : m[x] = END_OF_FILE => next = END_OF_FILE
    BY <1>1, Numbers DEF Walking
<1> QED
    BY <1>1, <1>2, <1>3 DEF Driver!Circles, Driver!Ends, Clusters, END_OF_FILE
-----------------------------------------------------------------------------
(* delete: first along the chain; if that circles, from the boot cluster   *)
(* along what the emptied entries have made of the FAT; if that circles    *)
(* too, at the boot cluster for ever.                                      *)

Emptied == Driver!AfterCircle(fat0, start)

FirstRound  == Walking(fat0, start, Zeroed, temp)
SecondRound == /\ Driver!Circles(fat0, start) /\ ~ Driver!Ends(fat0, start)
               /\ \E V \in SUBSET Clusters : /\ Zeroed = Driver!Chain(fat0, start) \cup V
                                             /\ Walking(Emptied, BOOT_SECTOR, V, temp)
AtBootSector == pc = "walk" /\ temp = BOOT_SECTOR /\ BOOT_SECTOR \in Zeroed

DeleteInvariant ==
    op = "delete" =>
        /\ pc \in {"walk", "done", "outside"}
        /\ pc # "walk" => /\ temp \notin Clusters
                          /\ pc = "outside" <=> temp = Driver!CLUSTER_0_VALUE
        /\ map = Driver!Freed(fat0, Zeroed)
        /\ \A c \in Clusters : blocks[c] \in {0, NotWritten}
        /\ FirstRound \/ SecondRound \/ AtBootSector

LEMMA DeleteStart == TypeOK /\ Init => DeleteInvariant
<1> SUFFICES ASSUME TypeOK, Init, op = "delete" PROVE DeleteInvariant
    BY DEF DeleteInvariant
<1>1. pc = "walk" /\ map = fat0 /\ blocks = [c \in Clusters |-> NotWritten] /\ temp = start
    BY DEF Init
<1>2. Zeroed = {}
    BY <1>1 DEF Zeroed, NotWritten
<1>3. map = Driver!Freed(fat0, Zeroed)
    <2>1. map \in [Clusters -> Driver!FatValues]
        BY Numbers DEF TypeOK
    <2> QED
        BY <1>1, <1>2, <2>1, Numbers DEF Driver!Freed
<1>4. FirstRound
    BY <1>1, <1>2, WalkStarts DEF FirstRound, TypeOK
<1> QED
    BY <1>1, <1>3, <1>4 DEF DeleteInvariant, NotWritten

LEMMA DeleteStepKeeps ==
    ASSUME TypeOK, DeleteInvariant, DeleteStep
    PROVE  DeleteInvariant'
<1>1. /\ op = "delete" /\ op' = op /\ pc = "walk" /\ pc' = pc /\ temp \in Clusters
      /\ temp' = map[temp] /\ UNCHANGED <<fat0, start>>
      /\ blocks' = [blocks EXCEPT ![temp] = 0] /\ map' = [map EXCEPT ![temp] = EMPTY]
    BY DEF DeleteStep, IsOver, LinkOf
<1>2. /\ map \in [Clusters -> Driver!FatValues] /\ DOMAIN blocks = Clusters /\ start \in Clusters
      /\ map = Driver!Freed(fat0, Zeroed)
    <2>1. map \in [Clusters -> Driver!FatValues]
        BY Numbers DEF TypeOK
    <2> QED
        BY <1>1, <2>1 DEF TypeOK, DeleteInvariant
<1>3. Zeroed' = Zeroed \cup {temp} /\ \A c \in Clusters : blocks'[c] \in {0, NotWritten}
    BY <1>1, <1>2 DEF Zeroed, DeleteInvariant
<1>4. \A c \in Clusters : map[c] = IF c \in Zeroed THEN EMPTY ELSE fat0[c]
    BY <1>2, Numbers DEF Driver!Freed, EMPTY
<1>5. map' = Driver!Freed(fat0, Zeroed)'
    <2>1. \A c \in Clusters : map'[c] = IF c \in Zeroed' THEN EMPTY ELSE fat0[c]
        BY <1>1, <1>2, <1>3, <1>4
    <2>2. map' = [c \in Clusters |-> IF c \in Zeroed' THEN EMPTY ELSE fat0[c]]
        BY <1>1, <1>2, <2>1
    <2>3. fat0' = fat0
        BY <1>1
    <2> QED
        BY <2>2, <2>3, Numbers DEF Driver!Freed, EMPTY
<1> DEFINE chain == Driver!Chain(fat0, start)
<1>6. /\ \A c \in Clusters : Emptied[c] = IF c \in chain THEN EMPTY ELSE fat0[c]
      /\ Emptied' = Emptied
    <2>1. \A c \in Clusters : Emptied[c] = IF c \in chain THEN EMPTY ELSE fat0[c]
        BY Numbers DEF Emptied, Driver!AfterCircle, Driver!Freed, EMPTY
    <2>2. Emptied' = Emptied
        BY <1>1 DEF Emptied
    <2> QED
        BY <2>1, <2>2
<1>7. (FirstRound \/ SecondRound \/ AtBootSector)'
    <2>1. CASE FirstRound /\ temp \notin Zeroed
        <3>1. Walking(fat0, start, Zeroed \cup {temp}, fat0[temp])
            BY <1>1, <1>2, <2>1, WalkGoesOn DEF FirstRound
        <3>2. temp' = fat0[temp]
            BY <1>1, <1>4, <2>1
        <3> QED
            BY <1>1, <1>3, <3>1, <3>2 DEF FirstRound, Walking
    <2>2. CASE FirstRound /\ temp \in Zeroed
        <3>1. Zeroed = chain /\ Driver!Circles(fat0, start) /\ ~ Driver!Ends(fat0, start)
            BY <1>2, <2>2, WalkReturns DEF FirstRound
        <3>2. temp' = BOOT_SECTOR /\ Zeroed' = chain \cup {}
            BY <1>1, <1>3, <1>4, <2>2, <3>1, Numbers
        <3>3. Walking(Emptied, BOOT_SECTOR, {}, BOOT_SECTOR)
            BY Numbers, WalkStarts
        <3>4. Walking(Emptied, BOOT_SECTOR, {}, temp)'
            BY <1>6, <3>2, <3>3 DEF Walking
        <3> QED
            BY <1>1, <3>1, <3>2, <3>4 DEF SecondRound
    <2>3. CASE SecondRound
        <3>1. PICK V \in SUBSET Clusters : Zeroed = chain \cup V /\ Walking(Emptied, BOOT_SECTOR, V, temp)
            BY <2>3 DEF SecondRound
        <3>2. CASE temp \in V
            <4>1. temp' = BOOT_SECTOR
                BY <1>1, <1>4, <3>1, <3>2, Numbers
            <4>2. BOOT_SECTOR \in Zeroed'
                BY <1>3, <3>1, <3>2 DEF Walking
            <4> QED
                BY <1>1, <4>1, <4>2 DEF AtBootSector
        <3>3. CASE temp \notin V
            <4>1. temp' = Emptied[temp]
                BY <1>1, <1>4, <1>6, <3>1, <3>3
            <4>2. Walking(Emptied, BOOT_SECTOR, V \cup {temp}, Emptied[temp])
                BY <1>1, <3>1, Numbers, WalkGoesOn
            <4>3. Walking(Emptied, BOOT_SECTOR, V \cup {temp}, temp')
                BY <4>1, <4>2
            <4>4. Zeroed' = chain \cup (V \cup {temp}) /\ V \cup {temp} \in SUBSET Clusters
                BY <1>1, <1>3, <3>1
            <4> QED
                BY <1>1, <1>6, <2>3, <4>3, <4>4 DEF SecondRound, Walking
        <3> QED
            BY <3>2, <3>3
    <2>4. CASE AtBootSector
        BY <1>1, <1>3, <1>4, <2>4, Numbers DEF AtBootSector
    <2> QED
        BY <1>1, <2>1, <2>2, <2>3, <2>4 DEF DeleteInvariant
<1> QED
    BY <1>1, <1>3, <1>5, <1>7 DEF DeleteInvariant

LEMMA DeleteKept == TypeOK /\ DeleteInvariant /\ [Next]_vars => DeleteInvariant'
<1> SUFFICES ASSUME TypeOK, DeleteInvariant, [Next]_vars PROVE DeleteInvariant'
    OBVIOUS
<1>1. CASE op # "delete"
    <2>1. op' = op
        BY DEF Next, vars, SearchTakes, SearchPasses, SearchEnds, Link, Terminate, ReadStep,
               DeleteStep, WalkEnds
    <2> QED
        BY <1>1, <2>1 DEF DeleteInvariant
<1>2. ASSUME op = "delete", SearchTakes \/ SearchPasses \/ SearchEnds \/ Link \/ Terminate \/ ReadStep
      PROVE  FALSE
    BY <1>2 DEF DeleteInvariant, SearchTakes, SearchPasses, SearchEnds, Link, Terminate, ReadStep
<1>3. CASE op = "delete" /\ WalkEnds
    <2>1. /\ UNCHANGED <<op, fat0, map, blocks, start, temp>> /\ temp \notin Clusters /\ pc = "walk"
          /\ pc' = IF temp = Driver!CLUSTER_0_VALUE THEN "outside" ELSE "done"
        BY <1>3 DEF WalkEnds, IsOver
    <2>2. Zeroed' = Zeroed /\ (FirstRound' <=> FirstRound) /\ (SecondRound' <=> SecondRound)
        BY <2>1 DEF Zeroed, FirstRound, SecondRound, Walking, Emptied
    <2>3. ~ AtBootSector
        BY <2>1, Numbers DEF AtBootSector
    <2> QED
        BY <1>3, <2>1, <2>2, <2>3 DEF DeleteInvariant, Driver!Freed
<1>4. CASE UNCHANGED vars
    <2>1. UNCHANGED <<op, pc, fat0, map, blocks, start, temp>>
        BY <1>4 DEF vars
    <2>2. /\ Zeroed' = Zeroed /\ (FirstRound' <=> FirstRound) /\ (SecondRound' <=> SecondRound)
          /\ AtBootSector' <=> AtBootSector
        BY <2>1 DEF Zeroed, FirstRound, SecondRound, Walking, Emptied, AtBootSector
    <2> QED
        BY <2>1, <2>2 DEF DeleteInvariant, Driver!Freed
<1> QED
    BY <1>1, <1>2, <1>3, <1>4, DeleteStepKeeps DEF Next

(* delete's walk zeroes and frees what Fat32Driver says, on any FAT, and   *)
(* returns when Fat32Driver says it does.                                  *)
THEOREM DeleteKeepsWord == Spec => []DeleteAsDescribed
<1>1. TypeOK /\ DeleteInvariant => DeleteAsDescribed
    <2> SUFFICES ASSUME TypeOK, DeleteInvariant, op = "delete", pc \in {"done", "outside"}
                 PROVE  /\ Driver!EraseEnds(fat0, start) <=> pc = "done"
                        /\ Zeroed = Driver!Erased(fat0, start)
                        /\ map = Driver!Freed(fat0, Zeroed)
        BY DEF DeleteAsDescribed
    <2>1. /\ temp \notin Clusters /\ (pc = "done" <=> temp = END_OF_FILE) /\ start \in Clusters
          /\ map = Driver!Freed(fat0, Zeroed)
        <3>1. temp \in Driver!FatValues \ Clusters
            BY DEF TypeOK, DeleteInvariant
        <3> QED
            BY <3>1, Numbers DEF TypeOK, DeleteInvariant
    <2>2. CASE FirstRound
        <3>1. /\ Zeroed = Driver!Chain(fat0, start) /\ ~ Driver!Circles(fat0, start)
              /\ Driver!Ends(fat0, start) <=> temp = END_OF_FILE
            BY <2>1, <2>2, WalkOver DEF FirstRound
        <3> QED
            BY <2>1, <3>1 DEF Driver!EraseEnds, Driver!Erased
    <2>3. CASE SecondRound
        <3>1. PICK V \in SUBSET Clusters : /\ Zeroed = Driver!Chain(fat0, start) \cup V
                                           /\ Walking(Emptied, BOOT_SECTOR, V, temp)
            BY <2>3 DEF SecondRound
        <3>2. /\ V = Driver!Chain(Emptied, BOOT_SECTOR)
              /\ Driver!Ends(Emptied, BOOT_SECTOR) <=> temp = END_OF_FILE
            BY <2>1, <3>1, Numbers, WalkOver
        <3> QED
            BY <2>1, <2>3, <3>1, <3>2
            DEF SecondRound, Emptied, Driver!EraseEnds, Driver!Erased, BOOT_SECTOR
    <2> QED
        BY <2>2, <2>3 DEF DeleteInvariant, AtBootSector
<1> QED
    BY <1>1, TypeCorrect, TypesStart, DeleteStart, TypesKept, DeleteKept, PTL DEF Spec

-----------------------------------------------------------------------------
(* read: the clusters copied so far are the walk; if one comes twice, the  *)
(* next one has been copied too.                                           *)

Copies == {copied[k] : k \in 1 .. Len(copied)}

ReadInvariant ==
    op = "read" =>
        /\ pc \in {"walk", "done", "outside"}
        /\ pc # "walk" => /\ temp \notin Clusters
                          /\ pc = "outside" <=> temp = Driver!CLUSTER_0_VALUE
        /\ map = fat0
        /\ Walking(fat0, start, Copies, temp)
        /\ IF Len(copied) = 0 THEN temp = start
           ELSE copied[1] = start /\ temp = fat0[copied[Len(copied)]]
        /\ \A k \in 1 .. Len(copied) - 1 : copied[k + 1] = fat0[copied[k]]
        /\ \A j, k \in 1 .. Len(copied) :
              j < k /\ copied[j] = copied[k] => temp = copied[j + Len(copied) - k + 1]

LEMMA ReadStart == TypeOK /\ Init => ReadInvariant
<1> SUFFICES ASSUME TypeOK, Init, op = "read" PROVE ReadInvariant
    BY DEF ReadInvariant
<1>1. pc = "walk" /\ map = fat0 /\ copied = <<>> /\ temp = start /\ start \in Clusters
    BY DEF Init, TypeOK
<1>2. Copies = {} /\ Len(copied) = 0
    BY <1>1 DEF Copies
<1>3. Walking(fat0, start, Copies, temp)
    BY <1>1, <1>2, WalkStarts
<1> QED
    BY <1>1, <1>2, <1>3 DEF ReadInvariant

LEMMA ReadStepKeeps ==
    ASSUME TypeOK, ReadInvariant, ReadStep
    PROVE  ReadInvariant'
<1> DEFINE n == Len(copied)
<1>1. /\ op = "read" /\ op' = op /\ pc = "walk" /\ pc' = pc /\ temp \in Clusters
      /\ temp' = fat0[temp] /\ UNCHANGED <<fat0, start, map>> /\ map = fat0
      /\ copied \in Seq(Clusters) /\ n \in Nat /\ start \in Clusters
    BY DEF ReadStep, IsOver, LinkOf, ReadInvariant, TypeOK
<1>2. /\ Len(copied') = n + 1 /\ copied'[n + 1] = temp
      /\ \A k \in 1 .. n : copied'[k] = copied[k]
    BY <1>1 DEF ReadStep
<1>3. Copies' = Copies \cup {temp}
    <2>1. Copies' = {copied'[k] : k \in 1 .. n + 1}
        BY <1>2 DEF Copies
    <2>2. 1 .. n + 1 = (1 .. n) \cup {n + 1}
        BY <1>1
    <2> HIDE DEF n
    <2> QED
        BY <1>2, <2>1, <2>2 DEF Copies, n
<1>4. Walking(fat0, start, Copies, temp)'
    <2>1. Walking(fat0, start, Copies \cup {temp}, fat0[temp])
        BY <1>1, WalkGoesOn DEF ReadInvariant
    <2> QED
        BY <1>1, <1>3, <2>1 DEF Walking
<1>5. copied'[1] = start /\ temp' = fat0[copied'[n + 1]]
    BY <1>1, <1>2 DEF ReadInvariant
<1>6. ASSUME NEW k \in 1 .. n PROVE copied'[k + 1] = fat0[copied'[k]]
    <2>1. CASE k = n
        <3>1. copied'[k + 1] = temp /\ copied'[k] = copied[k]
            BY <1>2, <1>6, <2>1
        <3>2. n # 0
            BY <1>1, <1>6
        <3>3. temp = fat0[copied[n]]
            BY <1>1, <3>2 DEF ReadInvariant
        <3> QED
            BY <2>1, <3>1, <3>3
    <2>2. CASE k # n
        <3>1. k \in 1 .. n - 1 /\ k + 1 \in 1 .. n
            BY <1>1, <2>2
        <3>2. copied[k + 1] = fat0[copied[k]]
            BY <1>1, <3>1 DEF ReadInvariant
        <3> QED
            BY <1>2, <3>1, <3>2
    <2> QED
        BY <2>1, <2>2
<1>7. ASSUME NEW j \in 1 .. n + 1, NEW k \in 1 .. n + 1, j < k, copied'[j] = copied'[k]
      PROVE  temp' = copied'[j + (n + 1) - k + 1]
    <2>1. j \in 1 .. n /\ copied'[j] = copied[j]
        BY <1>1, <1>2, <1>7
    <2>2. CASE k = n + 1
        <3>1. j + (n + 1) - k + 1 = j + 1
            BY <1>1, <2>2
        <3>2. copied'[j] = temp
            BY <1>2, <1>7, <2>2
        <3> QED
            BY <1>1, <1>6, <2>1, <3>1, <3>2
    <2>3. CASE k # n + 1
        <3> DEFINE p == j + n - k + 1
        <3>1. k \in 1 .. n /\ p \in 1 .. n /\ j + (n + 1) - k + 1 = p + 1
            BY <1>1, <1>7, <2>3
        <3>2. temp = copied[p]
            BY <1>1, <1>2, <1>7, <2>1, <3>1 DEF ReadInvariant
        <3>3. copied'[p + 1] = fat0[copied'[p]] /\ copied'[p] = copied[p]
            BY <1>2, <1>6, <3>1
        <3> QED
            BY <1>1, <3>1, <3>2, <3>3
    <2> QED
        BY <2>2, <2>3
<1>8. (n + 1) - 1 = n
    BY <1>1
<1> HIDE DEF n
<1> QED
    BY <1>1, <1>2, <1>4, <1>5, <1>6, <1>7, <1>8 DEF ReadInvariant

LEMMA ReadKept == TypeOK /\ ReadInvariant /\ [Next]_vars => ReadInvariant'
<1> SUFFICES ASSUME TypeOK, ReadInvariant, [Next]_vars PROVE ReadInvariant'
    OBVIOUS
<1>1. CASE op # "read"
    <2>1. op' = op
        BY DEF Next, vars, SearchTakes, SearchPasses, SearchEnds, Link, Terminate, ReadStep,
               DeleteStep, WalkEnds
    <2> QED
        BY <1>1, <2>1 DEF ReadInvariant
<1>2. ASSUME op = "read", SearchTakes \/ SearchPasses \/ SearchEnds \/ Link \/ Terminate \/ DeleteStep
      PROVE  FALSE
    BY <1>2 DEF ReadInvariant, SearchTakes, SearchPasses, SearchEnds, Link, Terminate, DeleteStep
<1>3. CASE op = "read" /\ WalkEnds
    <2>1. /\ UNCHANGED <<op, fat0, map, copied, start, temp>> /\ temp \notin Clusters /\ pc = "walk"
          /\ pc' = IF temp = Driver!CLUSTER_0_VALUE THEN "outside" ELSE "done"
        BY <1>3 DEF WalkEnds, IsOver
    <2>2. Walking(fat0, start, Copies, temp)' <=> Walking(fat0, start, Copies, temp)
        BY <2>1 DEF Walking, Copies
    <2> QED
        BY <1>3, <2>1, <2>2 DEF ReadInvariant
<1>4. CASE UNCHANGED vars
    <2>1. UNCHANGED <<op, pc, fat0, map, copied, start, temp>>
        BY <1>4 DEF vars
    <2>2. Walking(fat0, start, Copies, temp)' <=> Walking(fat0, start, Copies, temp)
        BY <2>1 DEF Walking, Copies
    <2> QED
        BY <2>1, <2>2 DEF ReadInvariant
<1> QED
    BY <1>1, <1>2, <1>3, <1>4, ReadStepKeeps DEF Next

(* read copies the chain's clusters once each in the order of the links,   *)
(* and returns if and only if the chain ends, on any FAT.                  *)
THEOREM ReadKeepsWord == Spec => []ReadAsDescribed
<1>1. TypeOK /\ ReadInvariant => ReadAsDescribed
    <2> DEFINE n == Len(copied)
    <2> SUFFICES ASSUME TypeOK, ReadInvariant, op = "read", pc \in {"done", "outside"}
                 PROVE  /\ Driver!Ends(fat0, start) <=> pc = "done"
                        /\ copied = Driver!Walk(fat0, start, n)
                        /\ {copied[k] : k \in DOMAIN copied} = Driver!Chain(fat0, start)
                        /\ \A j, k \in DOMAIN copied : copied[j] = copied[k] => j = k
        BY DEF ReadAsDescribed
    <2>1. /\ temp \notin Clusters /\ (pc = "done" <=> temp = END_OF_FILE) /\ start \in Clusters
          /\ copied \in Seq(Clusters) /\ n \in Nat /\ DOMAIN copied = 1 .. n
          /\ Walking(fat0, start, Copies, temp)
        <3>1. temp \in Driver!FatValues \ Clusters
            BY DEF TypeOK, ReadInvariant
        <3> QED
            BY <3>1, Numbers DEF TypeOK, ReadInvariant
    <2>2. /\ Copies = Driver!Chain(fat0, start)
          /\ Driver!Ends(fat0, start) <=> temp = END_OF_FILE
        BY <2>1, WalkOver
    <2>3. \A k \in 1 .. n : copied[k] \in Clusters
        BY <2>1
    <2>4. ASSUME NEW j \in 1 .. n, NEW k \in 1 .. n, j < k, copied[j] = copied[k] PROVE FALSE
        <3>1. j + n - k + 1 \in 1 .. n
            BY <2>1, <2>4
        <3>2. temp = copied[j + n - k + 1]
            BY <2>4 DEF ReadInvariant
        <3> QED
            BY <2>1, <2>3, <3>1, <3>2
    <2>5. ASSUME NEW j \in 1 .. n, NEW k \in 1 .. n, copied[j] = copied[k] PROVE j = k
        <3>1. ~(j < k) /\ ~(k < j)
            BY <2>4, <2>5
        <3> QED
            BY <2>1, <3>1
    <2>6. copied = Driver!Walk(fat0, start, n)
        <3>1. copied = [k \in 1 .. n |-> copied[k]]
            BY <2>1
        <3>2. ASSUME NEW k \in 1 .. n
              PROVE  copied[k] = IF k = 1 THEN start
                                 ELSE IF copied[k - 1] \in Clusters THEN fat0[copied[k - 1]] ELSE END_OF_FILE
            <4>1. CASE k = 1
                BY <2>1, <4>1 DEF ReadInvariant
            <4>2. CASE k # 1
                <5>1. k - 1 \in 1 .. n - 1 /\ k - 1 \in 1 .. n /\ (k - 1) + 1 = k
                    BY <2>1, <4>2
                <5>2. copied[(k - 1) + 1] = fat0[copied[k - 1]]
                    BY <5>1 DEF ReadInvariant
                <5> QED
                    BY <2>3, <4>2, <5>1, <5>2
            <4> QED
                BY <4>1, <4>2
        <3>3. n \in Nat
            BY <2>1
        <3> HIDE DEF n
        <3>4. GoesAlong(fat0, start, n, copied)
            BY <3>1, <3>2 DEF GoesAlong
        <3> QED
            BY <3>3, <3>4, WalkIs
    <2> QED
        BY <2>1, <2>2, <2>5, <2>6 DEF Copies
<1> QED
    BY <1>1, TypeCorrect, TypesStart, ReadStart, TypesKept, ReadKept, PTL DEF Spec

=============================================================================
