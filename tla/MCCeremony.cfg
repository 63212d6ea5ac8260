SPECIFICATION Spec
CONSTANTS
    None = None
    p1 = p1
    p2 = p2
    c = c
    Pages = {p1, p2}
    Clients = {c}
    Window = 2
    Ttl = 1
    MaxOutstanding = 2
    MaxTime = 2
    MaxPosts = 4
    MaxCalls = 2
INVARIANTS
    TypeOK
    OneSlotPerArming
    OneUse
    ChallengesStay
    OpenMeansResident
PROPERTIES
    RequestsEnd

CHECK_DEADLOCK FALSE
