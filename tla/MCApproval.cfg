SPECIFICATION Spec
CONSTANTS
    None = None
    Shutdown = Shutdown
    r1 = r1
    r2 = r2
    r3 = r3
    A = A
    B = B
    g1 = g1
    g2 = g2
    Reads = {r1, r2, r3}
    Caller <- MCCaller
    Guards = {g1, g2}
    Admits <- MCAdmits
    MaxPending = 2
    MaxSets = 1
    MaxDeaths = 1
    MaxAtStop = 2
INVARIANTS
    TypeOK
    NobodyWaitsInVain
PROPERTIES
    KeepsPromise
    ShutdownEnds
CHECK_DEADLOCK FALSE
