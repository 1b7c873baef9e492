SPECIFICATION LiveSpec
CONSTANTS
    Pool = 8
    RxRing = 1
    TxRing = 1
    Burst = 1
    Peers = 1
    SensePort = 1
    OwnPort = 2
    MaxStarts = 2
INVARIANT TypeOK
INVARIANT NoMbufLost
INVARIANT AttachedAsPublished
INVARIANT ListsOwnTimers
PROPERTY ElectionPacketsReceived
