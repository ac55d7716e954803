\* One companion that keeps trying.
SPECIFICATION LiveSpec
CONSTANTS
  Transfers = {t1}
  NoTransfer = NoTransfer
  Size = 4
  Capacity = 2
  Window = 3
  Careless = FALSE
  MaxUpsets = 3
INVARIANTS PrefixExact
PROPERTIES EventuallyDone
