---------------------------- MODULE MCHsvControl ----------------------------
EXTENDS HsvControl, TLC

\* Three configurations, two of which ask the encoder for the same.
MCConfigs == {"hd", "hdLongPrebuffer", "uhd"}
MCEncoder(c) == IF c = "uhd" THEN "uhdEncoder" ELSE "hdEncoder"

SpawnedSymmetry == Permutations(Spawned)
=============================================================================
