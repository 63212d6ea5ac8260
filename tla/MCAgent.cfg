SPECIFICATION Spec
CONSTANTS
    None = None
    b1 = b1
    b2 = b2
    i1 = i1
    i2 = i2
    i3 = i3
    l1 = l1
    s1 = s1
    s2 = s2
    k1 = k1
    k2 = k2
    Blobs = {b1, b2}
    Items = {i1, i2, i3}
    Sources = {s1, s2}
    Sockets = {k1, k2}
    Locals = {l1}
    Conns = {c1}
    Covers <- MCCovers
    SourceOf <- MCSourceOf
    LocalOf <- MCLocalOf
    SocketOf <- MCSocketOf
    Held <- MCHeld
    MaxMoves = 1
    MaxGuards = 1
    MaxFaults = 1
    MaxRequests = 2
PROPERTIES
    OutageKeepsKeys
    HealthyServed
    SignsApprovedKey

CHECK_DEADLOCK FALSE
