CONSTANTS
  N = 2
  MaxRequests = 2
  MaxReplays = 0
  MaxFailures = 0
  MaxHandlers = 2
SPECIFICATION Spec
PROPERTIES
  PlanCompletes
CHECK_DEADLOCK FALSE
