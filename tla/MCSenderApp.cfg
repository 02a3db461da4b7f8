SPECIFICATION AppSpec
CONSTANTS
  Conns = {c1, c2}
  NoSocket = NoSocket
  MissedPongLimit = 0
  Resume = FALSE
  PinCheck = FALSE
  Devices = {a, b}
  NoDevice = NoDevice
  MaxCalls = 2
SYMMETRY Symmetry
INVARIANTS
  AppTypeOK
  InputReachesTarget
  ListIsStored
CHECK_DEADLOCK FALSE
