SPECIFICATION Spec
CONSTANTS
    None = None
    Torn = Torn
    Static = Static
    Sources = {}
    Values = {v1, v2}
    Guards = {}
    Principals = {}
    Tokens = {t1, t2}
    FailureBackoff = 0
    Keys = {k1}
    Recipients = {r1}
    Deks = {d1}
    ClaimTtls = {1, 2}
    MaxTime = 2
    MaxVersion = 3
    MaxFaults = 2
INVARIANTS
    TypeOK
    AcknowledgedSurvives
PROPERTIES
    NoLostUpdate
    ClaimFenced
CHECK_DEADLOCK FALSE
