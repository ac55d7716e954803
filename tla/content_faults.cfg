\* Every spurious result of the storage layer, and decaying assets.
SPECIFICATION Spec
CONSTANTS
  Revisions = {r1, r2, r3}
  NoRevision = NoRevision
  MaxGeneration = 3
  MaxStaged = 1
  RecordFaults = {"missing", "failed"}
  ContentFaults = TRUE
  Decay = TRUE
SYMMETRY RevisionSymmetry
INVARIANTS TypeOK NamedRevisionsKept AlwaysARecord
PROPERTIES NeverUnselected
