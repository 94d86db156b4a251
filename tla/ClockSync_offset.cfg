CONSTANTS
  Rounds = 2
  Threshold = 1
  SlowLink = FALSE
  FirstBeat = 1
  Boot = 1
  Skews <- MCSkews
  MaxTime = 4
  MaxDrift = 2
  MaxProbes = 2
  MaxBeats = 1
SPECIFICATION Spec
INVARIANTS TypeOK OffsetBounded DriftBounded ClientAgrees
PROPERTIES HandshakeEnds
CHECK_DEADLOCK FALSE
