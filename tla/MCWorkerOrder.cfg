SPECIFICATION Spec
CONSTANTS
    t1 = t1
    t2 = t2
    e1 = e1
    e2 = e2
    w1 = w1
    w2 = w2
    Tenant <- MCTenant
    EventId <- MCEventId
    Entry <- OneTenantEntry
    Workers <- OneWorker
    MaxRetries = 2
    Lapsing <- NoEvents
    FaultKinds <- AllFaults
    MaxFaults = 3
    MaxLen = 1
    Count = 2
    MaxEntries = 3
INVARIANTS
    AcceptedAreInReach
    PendingWasDelivered
    TenantOrder
PROPERTIES
    HandedOutOnceInOrder
    StrandedForGood
