SPECIFICATION Spec
CONSTANTS
  TRACING = FALSE
  REPLAY = FALSE
  NODE = FALSE
  MaxPromises = 2
  MaxPairs = 2
  MaxDepth = 3
  Recordings = {}
INVARIANTS ProcessedOnEmptyStack
