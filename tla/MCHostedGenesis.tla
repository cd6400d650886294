--------------------------- MODULE MCHostedGenesis ---------------------------
EXTENDS HostedGenesis, TLC

CONSTANTS o1, o2

Symmetry == Permutations({o1, o2})

=============================================================================
