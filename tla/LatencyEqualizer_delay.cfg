CONSTANTS
  c1 = c1
  c2 = c2
  Clients <- MCClients
  MaxP95 = 1999
  Headroom = 20
  MinDelay = 20
  MaxDelay = 500
  Threshold = 10
  DownStep = 2
  Resolution = 1
  IosJitter = 30
  IosFrame = 40
  Frame = 10
  P95 = {29, 36, 600}
  MaxChanges = 3
SYMMETRY MCSymmetry
SPECIFICATION Spec
INVARIANTS TypeOK ToldInRange
PROPERTIES GentleDecrease SignificantReportIsCovered RaiseIsExact
CHECK_DEADLOCK FALSE
