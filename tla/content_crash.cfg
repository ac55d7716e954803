\* Power loss and observable read failures; verification is trustworthy.
SPECIFICATION Spec
CONSTANTS
  Revisions = {r1, r2, r3}
  NoRevision = NoRevision
  MaxGeneration = 4
  MaxStaged = 2
  RecordFaults = {"failed"}
  ContentFaults = FALSE
  Decay = FALSE
SYMMETRY RevisionSymmetry
PROPERTIES ImplementsRegister
