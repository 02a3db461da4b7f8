SPECIFICATION Spec
CONSTANTS
  MaxMid = 2
  MaxConn = 2
  MaxAckAttempts = 2
INVARIANTS
  TypeOK
  TimerIffWaiting
  OneRunPerConnection
  RetryBudget
PROPERTIES
  KeepsPromise
CHECK_DEADLOCK FALSE
