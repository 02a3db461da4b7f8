SPECIFICATION Spec
CONSTANTS
  Conns = {c1}
  Addresses = {a1}
  MaxPerIp = 1
  BanThreshold = 1
  AuthTicks = 1
  SilenceTicks = 1
  MaxMissed = 1
  MaxStops = 1
PROPERTY
  StopAcceptsNobody
CHECK_DEADLOCK FALSE
