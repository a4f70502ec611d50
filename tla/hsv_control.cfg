SPECIFICATION Spec
CONSTANTS
  Configs <- MCConfigs
  Encoder <- MCEncoder
  NoConfig = NoConfig
  Factory = Factory
  Spawned = {s1, s2}
  MaxWrites = 3
  MaxCrashes = 1
SYMMETRY SpawnedSymmetry
INVARIANTS AloneSettles CameraFollowsSelected
CHECK_DEADLOCK FALSE
