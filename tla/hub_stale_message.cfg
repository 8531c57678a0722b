\* Hub 2 has committed its own messages when hub 1, with a lower clock, sends.
SPECIFICATION Spec
CONSTANTS
  MaxUuid = 3
  Nodes = {1, 2}
  Sockets = {1}
  Ends <- PairEnds
  Destroyable = {}
  OneByOne = FALSE
  MaxSends <- SecondTwice
  MaxBreaks = 0
INVARIANTS
  UserDataIsNew
