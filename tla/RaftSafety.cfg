SPECIFICATION Spec
CONSTANTS
    Node = {n1, n2, n3}
    NoVote = NoVote
    MaxTerm = 3
    MaxRestarts = 0
    TestAutoFail = TRUE
    Duplication = TRUE
    Loss = FALSE
SYMMETRY Symmetry
INVARIANT TypeOK
INVARIANT ElectionSafety
PROPERTY DeposedByLaterTerm
PROPERTY ImplementsTermLeaders
INVARIANT OneVotePerTerm
INVARIANT TimersMatchState
CHECK_DEADLOCK FALSE
