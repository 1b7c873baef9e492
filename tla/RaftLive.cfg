SPECIFICATION LiveSpec
CONSTANTS
    Node = {n1, n2, n3}
    NoVote = NoVote
    MaxTerm = 2
    MaxRestarts = 0
    TestAutoFail = TRUE
    Duplication = TRUE
    Loss = TRUE
CHECK_DEADLOCK FALSE
PROPERTY StaleLeaderStepsDown
