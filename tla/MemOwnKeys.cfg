SPECIFICATION FairSpec
CONSTANTS
    t1 = t1
    t2 = t2
    k1 = k1
    k2 = k2
    o1 = o1
    o2 = o2
    o3 = o3
    Nil = Nil
    Threads = {t1, t2}
    Keys = {k1, k2}
    ObjIds = {o1, o2, o3}
    TTLs = {1}
    Ops = {"Get", "Set", "SetWithTTL", "Delete", "TTL", "Expire", "CleanupExpired"}
    Touches <- OwnKeys
    MaxTime = 3
CHECK_DEADLOCK FALSE
INVARIANTS TypeOK OnlyReapsRace
PROPERTIES NoLiveKeyDropped ImplementsTtlStore CallsReturn
