CONSTANTS
  Parties = {p1, p2, p3, p4}
SPECIFICATION Spec
INVARIANTS TwoPlaces PartsAsleep
PROPERTIES RefinesPairing
