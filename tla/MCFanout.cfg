SPECIFICATION FairSpec
CONSTANTS
    c1 = c1
    c2 = c2
    Conns <- TwoConns
    BufSize = 1
    StreamMaxLen = 1
    MaxEvents = 3
INVARIANTS
    TypeOK
    RegisteredIsOpen
    SubscribersHaveReader
    OneReaderUnlessDropped
    OnlyCutIsSkipped
PROPERTIES
    LiveEventArrives
    ReadersEnd
CHECK_DEADLOCK FALSE
