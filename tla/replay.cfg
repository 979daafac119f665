SPECIFICATION Spec
CONSTANTS
  TRACING = FALSE
  REPLAY = TRUE
  NODE = FALSE
  MaxPromises = 3
  MaxPairs = 4
  MaxDepth = 3
  Recordings <- MCRecordings
INVARIANTS NeverTwice
PROPERTIES ImplementsFates
