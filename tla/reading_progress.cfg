SPECIFICATION Spec
CONSTANTS
  None = None
  LastPage = 1
  MaxSeq = 2
  MaxUpsets = 2
INVARIANTS TypeOK SequenceNamesPlace SavesLastDrawn ReportsWhereLeft
PROPERTIES StoredAgainstSaved
