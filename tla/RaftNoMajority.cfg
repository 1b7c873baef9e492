SPECIFICATION Spec
CONSTANTS
    Node = {n1, n2, n3, n4}
    NoVote = NoVote
    MaxTerm = 2
    MaxRestarts = 0
    TestAutoFail = FALSE
    Duplication = FALSE
    Loss = FALSE
SYMMETRY Symmetry
INVARIANT LeaderHasMajority
