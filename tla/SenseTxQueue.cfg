CONSTANTS
    Peer = {p1, p2}
    MaxRounds = 2
    MaxUpdates = 1
    MaxReports = 1
SPECIFICATION Spec
CHECK_DEADLOCK FALSE
INVARIANT TxQueueExclusive
