SPECIFICATION FairSpec
CONSTANTS
    e = e
    r1 = r1
    a1 = a1
    a2 = a2
    Entry <- MCEntry
    Apis <- OneApi
    HighWater <- MCHighWater
    LowWaterPct <- MCLowWaterPct
    Requests <- OneRequest
    Sends = 1
    Burst = 1
    MaxAbandoned = 3
    MaxRestarts = 1
    MaxLen <- MCMaxLen
    Count <- MCCount
    MaxEntries = 7
INVARIANTS
    NothingEvicted
PROPERTIES
    SheddingEnds
    OverloadIsShed
