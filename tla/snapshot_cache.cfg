SPECIFICATION CacheFairSpec
CONSTANTS
  Requests = {r1, r2}
  Sizes = {small, large}
  Refresher = refresher
  Refresh = 2
  Dedup = 0
  FetchTimeout = 1
  ScaleTimeout = 1
  MaxAge = 3
  MaxPictures = 2
INVARIANTS CacheTypeOK
PROPERTIES NeverBackwards AgeBounded FramesSpaced Answered
CHECK_DEADLOCK FALSE
