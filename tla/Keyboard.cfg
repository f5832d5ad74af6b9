SPECIFICATION FairSpec
CONSTANTS
    a = a
    b = b
    Nul = Nul
    Chars = {a, b}
    BufferSize = 2
    MaxPressed = 4
INVARIANTS
    TypeOK
    LineAsTyped
    Heard
    StaysInBuffer
PROPERTIES
    EnterDelivers
CHECK_DEADLOCK FALSE
