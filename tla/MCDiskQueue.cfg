SPECIFICATION Spec
CONSTANTS
  MaxDepth = 3
  Radix = 2
  Limit = 4
  MaxFrames = 5
  MaxLives = 3
INVARIANTS TypeOK OnlyRenumberingLoses OnlyWiderOvertakes
CHECK_DEADLOCK FALSE
