SPECIFICATION Spec
CONSTANTS
    p1 = p1
    p2 = p2
    Producers = {p1, p2}
    ChanSize = 1
    BatchMax = 2
    SyncPolicy = "everyN"
    SyncEveryN = 1
    Tears = {"header"}
    DiskFails = FALSE
    MarshalFails = FALSE
    MayClose = FALSE
    PowerFails = FALSE
    MaxLog = 3
    MaxCrashes = 2
PROPERTIES EveryRecordRecovered
