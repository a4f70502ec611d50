SPECIFICATION Spec
CONSTANTS
  Sessions = {s1, s2}
  MaxSetups = 4
  NoSession = NoSession
INVARIANTS StreamsPaired
PROPERTIES StartedAsTold
SYMMETRY SessionSymmetry
CHECK_DEADLOCK FALSE
