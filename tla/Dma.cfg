SPECIFICATION Spec
CONSTANTS
  MaxChannels = 2
  MaxThreads = 2
  Lengths = {1, 2}
  Careful = TRUE
INVARIANT NoLateCopy
INVARIANT CompleteIsWhole
PROPERTY CallsEnd
