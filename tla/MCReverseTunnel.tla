-------------------------- MODULE MCReverseTunnel --------------------------
EXTENDS ReverseTunnel, TLC

MCSymmetry == Permutations(Remotes)
=============================================================================
