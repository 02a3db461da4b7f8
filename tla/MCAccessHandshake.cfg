SPECIFICATION Spec
CONSTANTS
  Requests = {r1, r2}
  OwnCode = ownCode
  Permissions = {keyboard}
  Defaults = {keyboard}
  MaxPending = 2
  MaxWrites = 2
  MaxDigests = 1
  Conns = {c1}
  MaxHellos = 2
INVARIANT
  RightEchoPasses
CHECK_DEADLOCK FALSE
