SPECIFICATION Spec
CONSTANTS
  None = None
  LastPage = 1
  MaxSeq = 2
  MaxUpsets = 0
INVARIANTS ReportsFinished
