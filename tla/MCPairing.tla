------------------------------ MODULE MCPairing ------------------------------
EXTENDS Pairing, TLC

\* Controllers are interchangeable, and so are connections.
PairingSymmetry == Permutations(Controllers) \cup Permutations(Conns)
==============================================================================
