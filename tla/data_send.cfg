SPECIFICATION FairSpec
CONSTANTS
  Conns = {c1}
  MaxStreams = 1
  MaxPre = 2
  NumChunks = 3
  SeqMod = 4
  NoConn = NoConn
INVARIANTS CancelStopsPump BusyIsHeld
PROPERTIES WireContract QuietStreamEnds
