CONSTANTS
  t1 = t1
  t2 = t2
  t3 = t3
  b1 = b1
  b2 = b2
  Threads <- MCThreads
  One2Ones = {}
  Many2Ones = {}
  Barriers = {b1, b2}
  Reads <- MCNoChannels
  Writes <- MCNoChannels
  Syncs <- MCSyncs
  Choices <- MCOneChooses
SPECIFICATION Spec
INVARIANTS NoSleepOverReady
PROPERTIES RefinesExternalChoice
