SPECIFICATION FairShellSpec
CONSTANTS
    ClusterCount = 6
    SlotCount = 4
    a = a
    d = d
    root = root
    noName = noName
    noExt = noExt
    p1 = p1
    txt = txt
    p2 = p2
    table = table
    TableBytes = table
    Names = {a, d, root}
    NoName = noName
    RootName = root
    RootLike = {root}
    Exts = {txt}
    NoExt = noExt
    Payloads = {p1, p2, table}
    MaxSize = 1
    Size <- MCSize
    Sparse = {}
    StackGarbage = {}
    Tolerated = {"wrongKind"}
    LeftoverExts = {noExt, txt}
    LeftoverNames = {}
    MaxDepth = 3
    Typed <- MCTyped
CONSTRAINT TwoInserted
INVARIANTS
    PathIsReal
    CopyIsFresh
    NothingForgotten
    EveryEntrySeen
PROPERTIES
    ScanEnds
CHECK_DEADLOCK FALSE
