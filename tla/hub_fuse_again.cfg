\* Two hubs that lost their connection fuse again.
SPECIFICATION Spec
CONSTANTS
  MaxUuid = 3
  Nodes = {1, 2}
  Sockets = {1, 2}
  Ends <- TwiceEnds
  Destroyable = {}
  OneByOne = FALSE
  MaxSends <- Silent
  MaxBreaks = 1
INVARIANTS
  PeerIsNew
