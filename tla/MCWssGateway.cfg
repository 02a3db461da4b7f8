SPECIFICATION Spec
CONSTANTS
  Conns = {c1, c2}
  Addresses = {a1}
  MaxPerIp = 2
  BanThreshold = 2
  AuthTicks = 1
  SilenceTicks = 1
  MaxMissed = 1
  MaxStops = 2
SYMMETRY Symmetry
INVARIANTS
  TypeOK
  SessionPerSocket
  CountNeverOverstates
CHECK_DEADLOCK FALSE
