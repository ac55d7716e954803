\* The selector fails once, and the user installs a firmware.
SPECIFICATION Spec
CONSTANTS
  Faults = {"selector", "update"}
  MaxUpsets = 2
  MaxRuns = 1
INVARIANTS LeaseKeepsReturnSlot
