CONSTANTS
  Cards = {c1}
  Unknown = unknown
  Amounts = {1}
  Cash = {0, 1}
  Start = 1
  MaxSends = 3
  MaxFaults = 2
SPECIFICATION Spec
INVARIANTS  OwnAnswer ThreeTries BooksMatch
CHECK_DEADLOCK FALSE
