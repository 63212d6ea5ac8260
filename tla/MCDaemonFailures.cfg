SPECIFICATION Spec
CONSTANTS
    None = None
    Static = Static
    c1 = c1
    p1 = p1
    p2 = p2
    v1 = v1
    v2 = v2
    f1 = f1
    Sources = {c1}
    Values = {v1, v2, f1}
    Fetched = {f1}
    Guards <- MCGuards
    Principals = {}
    Tokens = {t1}
    FailureBackoff = 0
    Keys = {k1}
    PersistedKeys = {k1}
    ConfigDefs <- MCConfigured
    PersistDefinitions = FALSE
    Peers = {p1, p2}
    Admitted <- MCEverybody
    Audience <- MCV1Guarded
    PersistFlags = {FALSE}
    Ttls <- MCTtlsShort
    PinLengths = {1}
    ClaimTtls = {1}
    Commits = {"ok", "untouched", "died"}
    MaxTime = 1
    MaxDelay = 0
    MaxVersion = 2
    MaxFaults = 1
INVARIANTS
    TypeOK
    LockedHidesValues
    GuardTravels
