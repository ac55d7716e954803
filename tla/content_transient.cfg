\* Verification of an intact revision may fail (a read error, no memory).
SPECIFICATION Spec
CONSTANTS
  Revisions = {r1, r2, r3}
  NoRevision = NoRevision
  MaxGeneration = 3
  MaxStaged = 1
  RecordFaults = {}
  ContentFaults = TRUE
  Decay = FALSE
PROPERTIES PreviousKeptUntilCommit
