SPECIFICATION Spec
CONSTANTS
  Distances = {0, 1}
  ApiFrames <- MCApiFrames
  MaxAmount = 1
  MaxCallbacks = 2
  MaxWire = 1
  MaxConns = 2
  Backends = {"nutjs", "cliclick"}
  MaxCalls = 1
INVARIANTS
  TypeOK
  ClickInPlace
  ButtonHeldForADrag
PROPERTY
  MovesNotStranded
CHECK_DEADLOCK FALSE
