SPECIFICATION Spec
CONSTANTS
    c1 = c1
    c2 = c2
    k1 = k1
    k2 = k2
    k3 = k3
    BadKey = BadKey
    Clients = {c1, c2}
    Keys = {k1, k2, k3}
    ObjIds <- SixObjects
    FloatMax = 2
    Nesting = 3
    IntMax = 4
    QueueSize = 1
    CountBits = 8
    MaxLen = 2
    Jobs <- Families
CHECK_DEADLOCK FALSE
INVARIANTS KindsHoldTheirShape LogKeepsUp ScansAreHonest PanicsAreKnown
PROPERTIES DocumentsChangeAtPath
