SPECIFICATION MCSpec
CONSTANTS
    Thread = {t1, t2}
    Object = {1, 2, 3, 4, 5}
    None = None
    Size = 4
    Word = 16
    Start = 14
    MaxBulk = 2
    MaxCalls = 5
    Killable = {t2}
CHECK_DEADLOCK FALSE
INVARIANT TypeOK
INVARIANT IndicesInOrder
INVARIANT OneOwner
PROPERTY ImplementsQueue
PROPERTY RefusesTruthfully
PROPERTY CallsReturn
