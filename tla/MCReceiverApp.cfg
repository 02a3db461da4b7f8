SPECIFICATION Spec
CONSTANTS
  Services = {1, 2}
  Ports = {p1, p2}
  Identities = {id1, id2}
  MaxStops = 2
  MaxBoots = 2
  Devices = {d1, d2}
  Scopes = {mouse}
  MaxCalls = 3
  None = None
  Nobody = Nobody
INVARIANTS
  TypeOK
  IdentityOnDiskServes
  NoOrphanService
  ListShowsRegistry
CHECK_DEADLOCK FALSE
