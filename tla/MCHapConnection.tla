-------------------------- MODULE MCHapConnection --------------------------
EXTENDS HapConnection, TLC

\* The connections are interchangeable.
ConnSymmetry == Permutations(Conns)
=============================================================================
