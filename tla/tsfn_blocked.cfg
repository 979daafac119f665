SPECIFICATION FairSpec
CONSTANTS
  Threads = {t1, t2, main}
  Main = main
  Initial = {t1, main}
  Blocking = {t1, t2}
  MaxQueueSize = 2
  MaxData = 4
PROPERTIES BlockedReturns
CHECK_DEADLOCK FALSE
