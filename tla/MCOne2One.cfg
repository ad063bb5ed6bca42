CONSTANTS
  Values = {v1, v2, v3}
  NoValue = NoValue
SPECIFICATION Spec
INVARIANTS Handshake
PROPERTIES RefinesRendezvous
