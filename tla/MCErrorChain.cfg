CONSTANTS
  Threads = {t1, t2}
  MaxRecords = 2
  None = None
SPECIFICATION Spec
INVARIANTS EmergencyOnce Accounted CauseShown
PROPERTIES FlushShowsOwn ExitEnds
CHECK_DEADLOCK FALSE
