SPECIFICATION Spec
CONSTANTS
  TRACING = TRUE
  REPLAY = FALSE
  NODE = TRUE
  MaxPromises = 3
  MaxPairs = 4
  MaxDepth = 3
  Recordings = {}
INVARIANTS NeverTwice BoundaryBalance RecordingIsQueueOrder
