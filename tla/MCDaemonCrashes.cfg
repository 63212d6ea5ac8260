SPECIFICATION Spec
CONSTANTS
    None = None
    Static = Static
    c1 = c1
    p1 = p1
    p2 = p2
    v1 = v1
    v2 = v2
    f1 = f1
    Sources = {c1}
    Values = {v1, f1}
    Fetched = {f1}
    Guards = {}
    Principals <- MCPrincipals
    Tokens = {t1, t2}
    FailureBackoff = 0
    Keys = {k1}
    PersistedKeys = {k1}
    ConfigDefs <- MCConfigured
    PersistDefinitions = FALSE
    Peers = {p1, p2}
    Admitted <- MCEverybody
    Audience <- MCUnguarded
    PersistFlags = {FALSE}
    Ttls <- MCTtls
    PinLengths = {}
    ClaimTtls = {2}
    Commits = {"ok", "died"}
    MaxTime = 2
    MaxDelay = 0
    MaxVersion = 2
    MaxFaults = 1
INVARIANTS
    CopiesAgree
PROPERTIES
    VersionsAdvance
    ClaimFenced
    OwnerInForce
