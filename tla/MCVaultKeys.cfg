SPECIFICATION Spec
CONSTANTS
    None = None
    Torn = Torn
    Static = Static
    Sources = {}
    Values = {}
    Guards = {}
    Principals = {}
    Tokens = {}
    FailureBackoff = 0
    Keys = {}
    Recipients = {r1, r2, r3}
    Deks = {d1, d2, d3, d4}
    ClaimTtls = {}
    MaxTime = 0
    MaxVersion = 0
    MaxFaults = 3
INVARIANTS
    EveryRecipientOpens
    RemovalIsFinal
CHECK_DEADLOCK FALSE
