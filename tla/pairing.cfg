SPECIFICATION Spec
CONSTANTS
  Controllers = {a, b}
  Conns = {t1, t2}
  Nobody = Nobody
  MaxRequests = 4
  MaxCrashes = 1
  MaxFaults = 1
INVARIANTS StatusFollowsPairings IdOnFile OnlyAddMeetsListener
CHECK_DEADLOCK FALSE
SYMMETRY PairingSymmetry
