SPECIFICATION Spec
CONSTANTS
  Sessions = {s1, s2}
  Conns = {h1, h2}
  NoSession = NoSession
  MaxSetups = 3
INVARIANTS KeyServesOnce AnsweredIsPrepared KeyIsSessionBound 
PROPERTIES StaleKeyRefused OwnAnswer
CHECK_DEADLOCK FALSE
SYMMETRY SessionSymmetry
