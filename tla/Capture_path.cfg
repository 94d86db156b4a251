CONSTANTS
  RingSize = 5
  PacketLen = 3
  FrameLen = 2
  Snap = 4
  Drift = 1
  Slew = 1
  MaxTime = 12
SPECIFICATION Spec
INVARIANTS TypeOK NoUseAfterRelease NoSleepOnData FrameIntact NotAhead
PROPERTIES StepBackBounded StopReturns WaiterEnds
CHECK_DEADLOCK FALSE
