SPECIFICATION Spec
CONSTANTS
  Requests = {r1, r2, r3}
  OwnCode = ownCode
  Permissions = {keyboard}
  Defaults = {keyboard}
  MaxPending = 2
  MaxWrites = 2
  MaxDigests = 1
  Conns = {c1}
  MaxHellos = 2
SYMMETRY Symmetry
INVARIANTS
  TypeOK
  RevokedStayOut
  NewestRequestWaits
  ToldOnce
  RefusalEnds
CHECK_DEADLOCK FALSE
