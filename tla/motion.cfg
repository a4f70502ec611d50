SPECIFICATION FairSpec
CONSTANTS
  MaxEvents = 4
INVARIANTS AgreeUnlessRaced FreshUnlessRaced
PROPERTIES SensorsCleared
CHECK_DEADLOCK FALSE
