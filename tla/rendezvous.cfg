\* Matching clients over a faulty network, in five scopes.
SPECIFICATION FairSpec
CONSTANTS
  c1 = c1
  c2 = c2
  c3 = c3
  Clients = {c1, c2, c3}
  External <- MCExternal
  Internal <- MCInternal
  Reflected <- MCReflected
  Endpoints <- MCEndpoints
  InternalEps <- MCInternalEps
  Services = {1, 2}
  NoService = 0
  Versions = {0, 1}
  Version = 1
  Scopes <- AllScopes
INVARIANTS
  IndexAgrees
  NoneMatchable
  MatchedRight
  ToldOnce
PROPERTIES
  EventuallyTold
  EventuallyMatched
  EventuallyForgotten
CHECK_DEADLOCK FALSE
