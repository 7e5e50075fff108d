SPECIFICATION Spec
CONSTANTS
  MaxDepth = 2
  Radix = 2
  Limit = 4
  MaxFrames = 5
  MaxLives = 3
INVARIANT SurvivesRestarts
CHECK_DEADLOCK FALSE
