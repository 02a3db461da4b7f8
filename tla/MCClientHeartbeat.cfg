SPECIFICATION Spec
CONSTANTS
  Conns = {c1}
  NoSocket = NoSocket
  MissedPongLimit = 3
  Resume = TRUE
  PinCheck = FALSE
PROPERTIES
  HeartbeatPatience
CHECK_DEADLOCK FALSE
