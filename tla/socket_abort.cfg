\* The owner of a socket closes it; two closed sockets do nothing any more.
SPECIFICATION MCFairSpec
CONSTANTS
  Bits = 3
  Modulus = 16
  Scopes <- AbortOnly
  Fresh = {}
PROPERTIES
  AbortTold
CHECK_DEADLOCK FALSE
