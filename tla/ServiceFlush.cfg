SPECIFICATION Spec
CONSTANTS
    Nothing = Nothing
    Invalid = Invalid
    Workers = {w1, w2}
    Starts <- AllStarts
    MaxRequests = 1
    QueueSize = 2
    Entries = 1
CHECK_DEADLOCK FALSE
INVARIANTS LogsAreFlushed
