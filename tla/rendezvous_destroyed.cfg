\* Two hosts are destroyed.
SPECIFICATION Spec
CONSTANTS
  c1 = c1
  c2 = c2
  c3 = c3
  Clients = {c1, c2, c3}
  External <- MCExternal
  Internal <- MCInternal
  Reflected <- MCReflected
  Endpoints <- MCEndpoints
  InternalEps <- MCInternalEps
  Services = {1, 2}
  NoService = 0
  Versions = {0, 1}
  Version = 1
  Scopes <- HostScopes
INVARIANTS
  HostsGetError
CHECK_DEADLOCK FALSE
