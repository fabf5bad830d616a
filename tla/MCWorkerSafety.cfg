SPECIFICATION Spec
CONSTANTS
    t1 = t1
    t2 = t2
    e1 = e1
    e2 = e2
    w1 = w1
    w2 = w2
    Tenant <- MCTenant
    EventId <- MCEventId
    Entry <- MCEntry
    Workers <- TwoWorkers
    MaxRetries = 2
    Lapsing <- LapsingE1
    FaultKinds <- AllFaults
    MaxFaults = 1
    MaxLen = 0
    Count = 2
    MaxEntries = 3
SYMMETRY Symmetry
INVARIANTS
    TypeOK
    BatchesAreExclusive
    OneEffect
    ProcessedOnce
    AckedIsAccountedFor
    NoEventVanishes
    EveryEventIsKept
