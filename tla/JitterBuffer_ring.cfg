CONSTANTS
  Cap = 2
  Times <- MCTimes
  Lengths = {2, 3}
  Targets <- MCTargets
  Needs = {1, 3}
  Torn = torn
  MaxPushes = 4
SPECIFICATION Spec
INVARIANTS TypeOK NoSharedSlot PlayoutWindow
PROPERTIES ImplementsQueue
