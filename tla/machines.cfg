SPECIFICATION Spec
CONSTANTS
  Bits = 4
  Modulus = 11
  MessageSize = 6
  MaxEntries = 4
  End = 0
  Durations = {1, 2}
  MaxCalls = 4
  Retries = 2
  Remote <- RemoteEndpoint
  Sources <- PacketSources
  Ids = {1, 2, 3}
  Hubs = {1, 2, 3, 4}
  Plans <- FloodPlans
  MaxCopies = 2
  Servers = {1, 2}
  Stranger = 0
  MaxReflects = 3
  MaxNoise = 1
  MaxInbox = 2
  Base = 8
  UuidSize = 2
  MAX_NODE_COUNT = 2
  MAX_DATAGRAM_SIZE = 3
  SampleMessages <- Messages
  MaxRoom = 60
  Self = 1
  Target = 4
  Topologies <- SearchTopologies
INVARIANTS
  Exact
  MaximalRuns
  VisitsOnce
  OnTime
  OneWait
  ToldRight
  GraphAgrees
  FloodCovers
  SocketFree
  RoundTrip
  AddressFound
PROPERTIES
  EventuallyExpires
  EventuallyPunched
  EventuallyQuiet
  EventuallyAnswered
  EventuallyPort
CHECK_DEADLOCK FALSE
