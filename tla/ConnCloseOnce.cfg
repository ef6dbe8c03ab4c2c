SPECIFICATION Spec
CONSTANTS
    c1 = c1
    c2 = c2
    a1 = a1
    a2 = a2
    Nobody = Nobody
    Peers = {c1, c2}
    Addresses <- Addrs
    Limits = {2, 4}
    Credentials = {"right", "wrong"}
    MaxThreads = 1
    EnableAuth = TRUE
    Pipelining = {c2}
    MaySend <- Sayings
    MaxSends <- Sends
    MaxScraps = 1
CHECK_DEADLOCK FALSE
INVARIANTS ClosesOwnSocket

