SPECIFICATION Spec
CONSTANTS
    p1 = p1
    p2 = p2
    r1 = r1
    r2 = r2
    r3 = r3
    s1 = s1
    s2 = s2
    Processes <- MCProcesses
    Seed <- MCSeed
    Creates <- MCCreates
    AdminToken <- MCAdminToken
    At <- MCAt
    NoToken = NoToken
    NoSecret = NoSecret
    FaultKinds <- AllFaults
    MaxFaults = 2
INVARIANTS
    TypeOK
    ReturnedIsWhole
    LoginIsRight
    FailedLeavesNothing
    OneAdmin
PROPERTIES
    ImplementsRegistry
