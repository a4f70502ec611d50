----------------------------- MODULE MCLiveView -----------------------------
EXTENDS LiveView, TLC

\* The sessions are interchangeable.
SessionSymmetry == Permutations(Sessions)
=============================================================================
