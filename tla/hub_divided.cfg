\* Hub 2 is destroyed before hubs 1 and 3 fuse.
SPECIFICATION Spec
CONSTANTS
  MaxUuid = 3
  Nodes = {1, 2, 3}
  Sockets = {1, 2, 3}
  Ends <- CycleEnds
  Destroyable = {2}
  OneByOne = TRUE
  MaxSends <- SecondOnce
  MaxBreaks = 0
INVARIANTS
  Converged
