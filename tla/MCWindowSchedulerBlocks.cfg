CONSTANTS
  Callers = {"c1"}
  OpenDuration = 1
  ClosedDuration = 1
  ForceDurations = {}
  MaxWindows = 2
SPECIFICATION Spec
PROPERTIES
  EveryCallReturns
CHECK_DEADLOCK FALSE
