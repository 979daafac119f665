SPECIFICATION FairSpec
CONSTANTS
  TRACING = FALSE
  REPLAY = FALSE
  NODE = FALSE
  MaxPromises = 3
  MaxPairs = 4
  MaxDepth = 3
  Recordings = {}
INVARIANTS TypeOK SingleResolver OneHolder TrackerAgrees DrainedWhenIdle
PROPERTIES ImplementsFates QueuedJobsRun AdoptionCompletes
