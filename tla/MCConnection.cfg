SPECIFICATION FairSpec
CONSTANTS
    HistoryCount = 2
    BufSize = 1
    StreamMaxLen = 1
    SharedReaders = 1
    MaxEvents = 3
INVARIANTS
    TypeOK
    HistoryThenLive
    OpenMeansFed
PROPERTIES
    EverythingEnds
    HandedIsSent
CHECK_DEADLOCK FALSE
