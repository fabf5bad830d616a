SPECIFICATION Spec
CONSTANTS
    e = e
    r1 = r1
    a1 = a1
    a2 = a2
    Entry <- MCEntry
    Apis <- TwoApis
    HighWater = 1
    LowWaterPct = 50
    Requests <- OneRequest
    Sends = 2
    Burst = 1
    MaxAbandoned = 0
    MaxRestarts = 0
    MaxLen = 7
    Count = 2
    MaxEntries = 8
SYMMETRY ApiSymmetry
INVARIANTS
    TypeOK
    NothingEvicted
PROPERTIES
    SheddingStopsGrowth
