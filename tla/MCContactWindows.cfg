CONSTANTS
  Handlers = {h1, h2}
  MaxRows = 3
  MaxTime = 1
  MaxFailures = 2
  MaxRequests = 3
  Spans <- SpansDef
SYMMETRY Symmetry
SPECIFICATION Spec
INVARIANTS
  TypeOK
  ForkBound
  VerifiersAccept
  LiveDisjoint
  CreatedIsLogged
PROPERTIES
  ClosedStays
CHECK_DEADLOCK FALSE
