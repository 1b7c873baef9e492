SPECIFICATION LiveSpec
CONSTANTS
    Worker = {w1, w2}
    None = None
    MaxJobs = 3
\* The main lcore makes no call it need not make; a deadlock of the hand-shake
\* violates CallsReturn.
CHECK_DEADLOCK FALSE
INVARIANT TypeOK
INVARIANT ConfigHasOneUser
INVARIANT CallsWhatWasLaunched
INVARIANT WaitReturnsResult
PROPERTY CallsReturn
PROPERTY LaunchesRun
