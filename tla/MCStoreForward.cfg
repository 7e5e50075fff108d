CONSTANTS
  MaxDepth = 2
  LinkLoses = {TRUE, FALSE}
  GroundAcksHighest = TRUE
  MaxFrames = 5
  MaxDrops = 3
SPECIFICATION Spec
INVARIANTS
  AckCoversPrefix
  IndInv
PROPERTIES
  OrderedChannel
  RemovedOnlyIfReceived
  LossHasCause
  QueueDrains
CHECK_DEADLOCK FALSE
