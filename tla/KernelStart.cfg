SPECIFICATION FairSpec
CONSTANTS
    Requests <- MCRequests
INVARIANTS
    FramesApart
    FramesExist
    NoStaleTranslation
    KernelIsProtected
    ShellRuns
    NoReset
PROPERTIES
    ShellStarts
CHECK_DEADLOCK FALSE
