SPECIFICATION Spec
CONSTANTS
  TRACING = TRUE
  REPLAY = FALSE
  NODE = FALSE
  MaxPromises = 2
  MaxPairs = 2
  MaxDepth = 3
  Recordings = {}
PROPERTIES EachReactionIsEnqueued
