CONSTANTS
  MaxEntries = 5
  MaxFailures = 3
SPECIFICATION Spec
INVARIANTS
  ChainSurvivesKills
  LossBounded
  IndInv
PROPERTIES
  LoggedStays
CHECK_DEADLOCK FALSE
