\* Reliable and unreliable messages over a faulty network.
SPECIFICATION MCSpec
CONSTANTS
  Bits = 3
  Modulus = 16
  Scopes <- SafetyScopes
  Fresh = {}
INVARIANTS
  TypeOK
  ReliableOrder
  UnreliableOrder
  FlushedIsReceived
