CONSTANTS
  reader = reader
  writer1 = writer1
  writer2 = writer2
  o1 = o1
  o2 = o2
  m1 = m1
  m2 = m2
  bar = bar
  Threads <- MCThreads
  One2Ones = {o1, o2}
  Many2Ones = {m1, m2}
  Barriers = {bar}
  Reads <- MCReads
  Writes <- MCWrites
  Syncs <- MCSyncs
  Choices <- MCChoices
SPECIFICATION Spec
PROPERTIES NoSleepOverWriter
CHECK_DEADLOCK FALSE
