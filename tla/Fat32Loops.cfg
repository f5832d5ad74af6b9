SPECIFICATION FairSpec
CONSTANTS
    ClusterCount = 8
    CounterSize = 4
    MaxNeeded = 5
    StackGarbage = {0, 3}
    SearchedMaps <- MCSearchedMaps
    WalkedMaps <- MCWalkedMaps
INVARIANTS
    WriteAsDescribed
    StoredInOrder
    DeleteAsDescribed
    ReadAsDescribed
PROPERTIES
    CallsEnd
CHECK_DEADLOCK FALSE
