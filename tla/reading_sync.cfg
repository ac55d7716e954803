SPECIFICATION LiveSpec
CONSTANTS
  None = None
  Depth = 4
  Slots = 4
  MaxRetries = 1
  Chunks = 3
  Pieces = 2
  MaxLinks = 2
  MaxExchanges = 2
INVARIANTS TypeOK OkIsFinal ListWhole
PROPERTIES OwnAnswers ListEnds AnsweredUnlessLost
