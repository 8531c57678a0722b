\* Three hubs in a line, with a network error, or in a cycle.
SPECIFICATION PlanSpec
CONSTANTS
  MaxUuid = 3
  Nodes = {1, 2, 3}
  Sockets = {1, 2, 3}
  Ends <- CycleEnds
  Destroyable = {2}
  OneByOne = FALSE
  MaxSends <- SecondOnce
  MaxBreaks = 1
INVARIANTS
  ConfigAgreement
  Converged
  NoEcho
  VirtualSynchrony
ACTION_CONSTRAINT
  Planned
