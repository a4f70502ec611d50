SPECIFICATION Spec
CONSTANTS
  Conns = {c1, c2}
  MaxStreams = 3
  MaxPre = 0
  NumChunks = 1
  SeqMod = 1
  NoConn = NoConn
INVARIANTS OneStreamAtATime

