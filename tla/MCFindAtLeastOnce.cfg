SPECIFICATION FairSpec
CONSTANTS
    t1 = t1
    t2 = t2
    e1 = e1
    e2 = e2
    w1 = w1
    w2 = w2
    Tenant <- MCTenant
    EventId <- MCEventId
    Entry <- OneTenantEntry
    Workers <- OneWorker
    MaxRetries = 2
    Lapsing <- NoEvents
    FaultKinds <- OnlyCrash
    MaxFaults = 1
    MaxLen = 0
    Count = 2
    MaxEntries = 2
PROPERTIES
    AtLeastOnce
