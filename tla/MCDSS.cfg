CONSTANTS
  Clients = {1, 2, 3}
  None = 0
SPECIFICATION Spec
INVARIANTS InStep
PROPERTIES RefinesFifoServer EveryClientEnds
CHECK_DEADLOCK FALSE
