SPECIFICATION Spec
CONSTANTS
    a = a
    junk = junk
    Letters = {a}
    Blank = Blank
    Nul = Nul
    Columns = 3
    Rows = 2
    BufferSize = 4
    LineSize = 4
    MAX_ARGS = 3
    Names <- MCNames
    MaxWords <- MCMaxWords
    Tails <- MCTails
    Leftovers <- MCLeftovers
VIEW Live
INVARIANTS
    TypeOK
    EchoIsLine
    RunsWhatIsShown
    NoWordLeft
