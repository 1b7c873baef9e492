SPECIFICATION LiveSpec
CONSTANTS
    Lcore = {c1, c2}
    Timer = {t1, t2}
    None = None
    Periodic = {t2}
    MaxCalls = 6
CHECK_DEADLOCK FALSE
INVARIANT TypeOK
INVARIANT OneList
INVARIANT StoppedIsUnlinked
INVARIANT RunsOnlyIfArmed
INVARIANT ArmedIsListed
PROPERTY EventuallyRuns
