SPECIFICATION Spec
CONSTANTS
    None = None
    Static = Static
    c1 = c1
    v1 = v1
    g1 = g1
    f1 = f1
    Sources = {c1}
    Values = {v1, f1}
    Fetched = {}
    Guards = {g1}
    Principals = {}
    Tokens = {}
    FailureBackoff = 2
    Keys = {k1}
    Clients = {a1, a2}
    Writes <- MCWrites
    OnlineDefs <- MCOnline
    Configs <- MCConfigs
    Eager = {k1}
    PersistDefinitions = TRUE
    PinLengths = {}
    Headroom = 6
    MaxTime = 0
    MaxSkew = 0
    MaxFaults = 2
    MaxRestarts = 2
    MaxRequests = 0
INVARIANTS
    TypeOK

    
