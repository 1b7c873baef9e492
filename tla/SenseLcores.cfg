CONSTANTS
    Peer = {p1, p2}
    MaxRounds = 2
    MaxUpdates = 2
    MaxReports = 2
SPECIFICATION Spec
SYMMETRY Symmetry
CHECK_DEADLOCK FALSE
INVARIANTS
    TypeOK
    ReportIsRecent
    ReportsDoNotGoBack
    LossNotOlderThanAverage
