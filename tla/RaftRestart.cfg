SPECIFICATION Spec
CONSTANTS
    Node = {n1, n2, n3}
    NoVote = NoVote
    MaxTerm = 2
    MaxRestarts = 2
    TestAutoFail = FALSE
    Duplication = TRUE
    Loss = FALSE
SYMMETRY Symmetry
INVARIANT LeaderHasMajority
INVARIANT LeadersAreElected
