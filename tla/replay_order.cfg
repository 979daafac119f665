SPECIFICATION FairSpec
CONSTANTS
  c1 = c1
  c2 = c2
  c3 = c3
  main = main
  e1 = e1
  e2 = e2
  Continuation <- MCContinuation
  Event <- MCEvent
  Main = main
  Programs <- MCPrograms
INVARIANTS TypeOK FollowsFile ReplaysRecordedJobs
PROPERTIES ReplayCompletes
CHECK_DEADLOCK FALSE
