SPECIFICATION Spec
CONSTANTS
    Node = {n1, n2, n3}
    NoVote = NoVote
    MaxTerm = 3
    MaxRestarts = 0
    TestAutoFail = TRUE
    Duplication = TRUE
    Loss = FALSE
SYMMETRY Symmetry
CHECK_DEADLOCK FALSE
INVARIANT AddedTimerNotInList
