SPECIFICATION Spec
CONSTANTS
    None = None
    Static = Static
    Sources = {c1}
    Values = {v1}
    Guards = {}
    Principals = {}
    Tokens = {}
    FailureBackoff = 2
    Keys = {k1}
    Ttls <- MCTtls
    PinLengths = {1, 3}
    MaxTime = 5
    MaxDelay = 2
INVARIANTS
    TypeOK
    ReleasedAsPromised
    Bookkeeping
PROPERTIES
    ExpiryIsFinal
    RefusalGrantsNothing
    BackoffHonoured
    UpstreamOnlyWhenNeeded
