CONSTANTS
  MaxWdRestarts = 2
  SafeRate = 2
  StabilityTimer = 3
  TempWarn = 75
  HysteresisTemp = 5
  VoltageMin = 460
  SocMin = 10
  ErrorRateMax = 100
  Readings <- MCReadings
  RecoveryModes = {TRUE, FALSE}
  Pauses = {1, 2}
  MaxUncleared = 5
SPECIFICATION Spec
INVARIANTS
  TickingUnderLimit
  NoPrematureEscalation
  EscalationHonoured
  IndInv
PROPERTIES
  StableBeforeNominal
  RecoversWhenCalm
CHECK_DEADLOCK FALSE
