CONSTANTS
  Callers = {"c1", "c2"}
  OpenDuration = 2
  ClosedDuration = 1
  ForceDurations = {0, 2}
  MaxWindows = 2
SPECIFICATION Spec
INVARIANTS
  IndInv
  ListenerErrsWithCause
PROPERTIES
  WindowsTurn
  CallsReturn
CHECK_DEADLOCK FALSE
