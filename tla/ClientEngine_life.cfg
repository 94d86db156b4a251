CONSTANTS
  PlcCap = 1
  MaxSeq = 4
SPECIFICATION Spec
INVARIANTS TypeOK StopQuiesces SendsOnOpenSocket ConcealsTheLost
PROPERTIES StopEnds RejectionTerminates
CHECK_DEADLOCK FALSE
