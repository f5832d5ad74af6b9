SPECIFICATION CutSpec
CONSTANTS
    ClusterCount = 6
    SlotCount = 3
    a = a
    root = root
    noName = noName
    noExt = noExt
    p1 = p1
    p2 = p2
    Names = {a, root}
    NoName = noName
    RootName = root
    RootLike = {root}
    Exts = {}
    NoExt = noExt
    Payloads = {p1, p2}
    MaxSize = 2
    Size <- MCSize
    Sparse = {p1}
    StackGarbage = {0, 3}
    Tolerated = {}
    MaxCuts = 1
CONSTRAINT Followed
INVARIANTS
    CallsAreWritten
    OthersSurviveCut
    InterruptedDeleteOnlyLeaks
