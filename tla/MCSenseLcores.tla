------------------------------- MODULE MCSenseLcores ------------------------------
EXTENDS SenseLcores, TLC

Symmetry == Permutations(Peer)
=============================================================================
