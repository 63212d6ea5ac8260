SPECIFICATION Spec
CONSTANTS
    None = None
    Static = Static
    c1 = c1
    v1 = v1
    g1 = g1
    f1 = f1
    Sources = {c1}
    Values = {v1, f1}
    Fetched = {f1}
    Guards = {g1}
    Principals = {}
    Tokens = {}
    FailureBackoff = 2
    Keys = {k1}
    Clients = {a1}
    Writes <- MCWrites
    OnlineDefs <- MCOnline
    Configs <- MCConfigs
    Eager = {k1}
    PersistDefinitions = TRUE
    PinLengths = {3}
    Headroom = 6
    MaxTime = 3
    MaxSkew = 1
    MaxFaults = 1
    MaxRestarts = 1
    MaxRequests = 2
PROPERTY GuardStaysWithValue
