CONSTANTS
  Rounds = 2
  Threshold = 1
  SlowLink = TRUE
  FirstBeat = 4
  Boot = 1
  Skews <- MCSkews
  MaxTime = 9
  MaxDrift = 0
  MaxProbes = 0
  MaxBeats = 1
SPECIFICATION Spec
INVARIANTS OffsetBounded
CHECK_DEADLOCK FALSE
