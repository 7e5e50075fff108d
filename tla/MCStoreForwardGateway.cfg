CONSTANTS
  MaxDepth = 4
  LinkLoses = {TRUE}
  GroundAcksHighest = FALSE
  MaxFrames = 3
  MaxDrops = 1
SPECIFICATION Spec
PROPERTY
  QueueDrains
CHECK_DEADLOCK FALSE
