CONSTANTS
  v1 = v1
  v2 = v2
  w1 = w1
  w2 = w2
  w3 = w3
  Writers <- MCThreeWriters
  Values <- MCValues
  Guards <- MCGuards
  NoValue = NoValue
  Refill = TRUE
SPECIFICATION Spec
INVARIANTS HandoverNotLost OneReadOneBuffer
PROPERTIES ReadServed RefinesGuardedRendezvous CopiesAccepted
