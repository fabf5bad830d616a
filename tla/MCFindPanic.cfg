SPECIFICATION Spec
CONSTANTS
    c1 = c1
    c2 = c2
    Conns <- TwoConns
    BufSize = 1
    StreamMaxLen = 1
    MaxEvents = 2
INVARIANTS
    DropIsHarmless
CHECK_DEADLOCK FALSE
