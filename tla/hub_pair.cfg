\* Two hubs fuse; hub 2 sends twice, hub 1 once; one network error; hub 2 may be
\* destroyed.  The event loops are fair.
SPECIFICATION FairSpec
CONSTANTS
  MaxUuid = 3
  Nodes = {1, 2}
  Sockets = {1}
  Ends <- PairEnds
  Destroyable = {2}
  OneByOne = FALSE
  MaxSends <- SecondTwice
  MaxBreaks = 1
INVARIANTS
  TypeOK
  TotalOrder
  SenderOrder
PROPERTIES
  ImplementsBroadcast
  EventuallyReceives
