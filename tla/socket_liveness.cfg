\* What has to happen, from the handshake to the close; two closed sockets do
\* nothing any more.
SPECIFICATION MCFairSpec
CONSTANTS
  Bits = 2   \* so that acknowledgements reach the end of the mask
  Modulus = 16
  Scopes <- LivenessScopes
  Fresh <- HandshakeOnly
PROPERTIES
  EventuallyConnected
  EventuallyReceived
  EventuallyFlushed
  PeerCloses
CHECK_DEADLOCK FALSE
