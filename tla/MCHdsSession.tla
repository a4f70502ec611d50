---------------------------- MODULE MCHdsSession ----------------------------
EXTENDS HdsSession, TLC

\* HAP sessions are interchangeable, and so are HDS connections.
SessionSymmetry == Permutations(Sessions) \cup Permutations(Conns)
=============================================================================
