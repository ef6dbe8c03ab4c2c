SPECIFICATION FairSpec
CONSTANTS
    p1 = p1
    p2 = p2
    Producers = {p1, p2}
    ChanSize = 1
    BatchMax = 2
    SyncPolicy = "everyN"
    SyncEveryN = 2
    Tears = {"header", "bare", "body"}
    DiskFails = TRUE
    MarshalFails = TRUE
    MayClose = TRUE
    PowerFails = TRUE
    MaxLog = 4
    MaxCrashes = 1
CHECK_DEADLOCK FALSE
INVARIANTS TypeOK FileIsPrefix CloseKeepsAll
PROPERTIES ImplementsDurableLog RecoverableStays AcceptedIsWritten
