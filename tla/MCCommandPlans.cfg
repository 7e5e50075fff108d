CONSTANTS
  N = 2
  MaxRequests = 3
  MaxReplays = 1
  MaxFailures = 1
  MaxHandlers = 2
SPECIFICATION Spec
INVARIANTS
  StatusTruthful
  IndInv
  UploadedOnce
PROPERTIES
  ClosedForGood
  CompletesUnlessRaced
CHECK_DEADLOCK FALSE
