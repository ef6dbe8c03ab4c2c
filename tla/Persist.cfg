SPECIFICATION Spec
CONSTANTS
    c1 = c1
    c2 = c2
    k1 = k1
    k2 = k2
    s1 = s1
    s2 = s2
    x = x
    Nil = Nil
    Clients = {c1, c2}
    Keys = {k1, k2}
    Shards = {s1, s2}
    Home <- TwoShards
    Texts = {}
    MaxNum = 1
    Owns <- OwnKeys
    EarlyTraffic = FALSE
    Refuses = TRUE
    TornFiles = TRUE
    MaxLog = 3
    MaxCrashes = 2
SYMMETRY Exchange
CHECK_DEADLOCK FALSE
INVARIANTS TypeOK LogAgreesWithMemory
PROPERTIES RecoveryRestoresFiles LogsAreDurable
