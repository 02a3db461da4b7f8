SPECIFICATION Spec
CONSTANTS
  Conns = {c1, c2}
  NoSocket = NoSocket
  MissedPongLimit = 1
  Resume = TRUE
  PinCheck = TRUE
INVARIANTS
  TypeOK
  KeepsTrying
PROPERTIES
  NoSocketAfterDispose
  DeadLinkNoticed
  Recovers
CHECK_DEADLOCK FALSE
