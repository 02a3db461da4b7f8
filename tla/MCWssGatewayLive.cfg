SPECIFICATION Spec
CONSTANTS
  Conns = {c1}
  Addresses = {a1}
  MaxPerIp = 1
  BanThreshold = 2
  AuthTicks = 4
  SilenceTicks = 2
  MaxMissed = 3
  MaxStops = 2
PROPERTIES
  AnonymousGo
  SilentGo
  DoomedGo
CHECK_DEADLOCK FALSE
