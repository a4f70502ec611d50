SPECIFICATION Spec
CONSTANTS
  Conns = {c1, c2}
  MaxChanges = 3
  MaxParts = 2
INVARIANTS SettledHasHeard
PROPERTIES EventsInOrder ResponsesWhole VerifiedInPlain
SYMMETRY ConnSymmetry
CHECK_DEADLOCK FALSE
