SPECIFICATION Spec
CONSTANTS
  MaxMid = 1
  MaxConn = 2
  MaxAckAttempts = 4
INVARIANTS
  NoDoubleSideEffects
CHECK_DEADLOCK FALSE
