SPECIFICATION FairSpec
CONSTANTS
  Threads = {t1, t2, t3, main}
  Main = main
  Initial = {t1, main}
  Blocking = {t1}
  MaxQueueSize = 2
  MaxData = 5
INVARIANTS TypeOK InOrderOnce DispatchDue GracefulDelivery
PROPERTIES ClosesOnceUnused BlockedReturns
CHECK_DEADLOCK FALSE
