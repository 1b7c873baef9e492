---------------------------- MODULE MCRaftElection ----------------------------
EXTENDS RaftElection, TLC
Symmetry == Permutations(Node)
=============================================================================
