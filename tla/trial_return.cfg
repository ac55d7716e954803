\* Two leases, any three disturbances.
SPECIFICATION LiveSpec
CONSTANTS
  Faults = {"power", "panic", "read", "save", "hash", "selector", "copy", "timer", "update"}
  MaxUpsets = 3
  MaxRuns = 2
INVARIANTS TypeOK ReturnImageKept NeverUnbounded AtMostTwoBoots
PROPERTIES SelectionMoves SelectsComplete ReturnedIsEvidence TrialEnds
