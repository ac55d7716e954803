\* Two power losses.
SPECIFICATION Spec
CONSTANTS
  Transfers = {t1, t2}
  NoTransfer = NoTransfer
  Size = 2
  Capacity = 2
  Window = 2
  Careless = FALSE
  MaxUpsets = 2
INVARIANTS VersionKept
