SPECIFICATION FairSpec
CONSTANTS
  TRACING = FALSE
  REPLAY = FALSE
  NODE = TRUE
  MaxPromises = 3
  MaxPairs = 4
  MaxDepth = 1
  Recordings = {}
INVARIANTS OneHolder
PROPERTIES QueuedJobsRun AdoptionCompletes
