SPECIFICATION Spec
CONSTANTS
  MaxReceives = 2
  MaxDepth = 1
  MaxPlans = 2
  MaxDown = 2
  MaxFailures = 2
INVARIANTS TypeOK ClientIsNewest HandledInOrder
PROPERTIES PlansArrive StopHonoured LinkSettles
CHECK_DEADLOCK FALSE
