SPECIFICATION RequestSpec
CONSTANTS
    ClusterCount = 6
    SlotCount = 3
    a = a
    root = root
    noName = noName
    noExt = noExt
    p1 = p1
    p2 = p2
    Names = {a, root}
    NoName = noName
    RootName = root
    RootLike = {root}
    Exts = {txt}
    txt = txt
    NoExt = noExt
    Payloads = {p1, p2}
    MaxSize = 2
    Size <- MCSize
    Sparse = {p1}
    StackGarbage = {0, 3}
    Tolerated = {"emptySlot", "noCluster", "wrongKind", "noSlot"}
CONSTRAINTS
    Undamaged
    OneExtension
VIEW WithoutRequest
INVARIANTS
    TypeOK
    OwnedOnce
    NothingDangles
    NothingLeaks
    ReadBack
    FolderNamesDiffer
    EveryFolderReachable
    RebootRestores
    NeverHangs
    DiskInvariant
PROPERTIES
    ImplementsFileStore
