CONSTANTS
    Peer = {p1}
    MaxSamples = 3
    Window = 2
    Word = 16
    MaxTime = 4
    MaxRestarts = 1
    MaxPongs = 4
SPECIFICATION Spec
CHECK_DEADLOCK FALSE
INVARIANTS
    TypeOK
    LossNotOverstated
    LossIsUnanswered
    AverageIsOfWindow
