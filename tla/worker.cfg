SPECIFICATION FairSpec
CONSTANTS
  Main = Main
  outer = outer
  inner = inner
  runner = runner
  Workers = {outer, inner}
  Parent <- MCParent
  Runners = {runner}
  Codes = {0, 1}
  Posters = {inner}
  MaxTasks = 2
  None = None
INVARIANTS TypeOK EnvironmentIsReachable NoOrphans NoTaskOutlivesItsIsolate ExitEventTellsLastRequest
PROPERTIES StopTakesEffect
CHECK_DEADLOCK FALSE
