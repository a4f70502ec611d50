SPECIFICATION Spec
CONSTANTS
  Configs = {c1, c2}
  Subs = {s1}
  MaxPrebuffer = 2
  LiveCapacity = 1
  MaxGen = 3
  MaxFrags = 3
  NoConfig = NoConfig
INVARIANTS PrebufferIsCurrent DeliveredWithoutGap OneStraggler
CHECK_DEADLOCK FALSE
