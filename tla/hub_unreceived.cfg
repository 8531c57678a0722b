\* Hub 1 sends while hub 2 fuses with hub 3 and loses it again.
SPECIFICATION Spec
CONSTANTS
  MaxUuid = 3
  Nodes = {1, 2, 3}
  Sockets = {1, 2}
  Ends <- LineEnds
  Destroyable = {}
  OneByOne = FALSE
  MaxSends <- FirstOnce
  MaxBreaks = 1
INVARIANTS
  SenderReceives
