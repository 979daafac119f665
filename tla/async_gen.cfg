SPECIFICATION FairSpec
CONSTANTS
  MaxRequests = 6
  MaxSuspensions = 2
INVARIANTS OneActivation
PROPERTIES KeepsPromise RequestsAnswered
CHECK_DEADLOCK FALSE
