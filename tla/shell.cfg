\* One activity under the current one, one transition asked for by a handler per pass.
SPECIFICATION LiveSpec
CONSTANTS
  None = None
  MaxDepth = 2
  MaxHops = 1
INVARIANTS TypeOK DrawsCurrentScreen RadioMemoryReturned RadioYields
PROPERTIES LoopReturns RadioComesDown ScreenPainted
