SPECIFICATION Spec
CONSTANTS
    a = a
    b = b
    Nul = Nul
    Chars = {a, b}
    BufferSize = 2
    MaxPressed = 5
INVARIANTS
    IgnoredIsIgnored
CHECK_DEADLOCK FALSE
