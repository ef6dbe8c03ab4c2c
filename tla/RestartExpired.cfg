SPECIFICATION Spec
CONSTANTS
    a = a
    c = c
    Keys = {a, c}
    Counts = {1, 2, 3}
    Hash <- Crc
    Texts = {"x", "y"}
    Nothing = Nothing
    Durations <- Times
    IntMax = 127
    MaxNow = 3
    MaxLog = 3
    MaxRestarts = 2
CHECK_DEADLOCK FALSE
INVARIANTS ExpiredStaysGone
