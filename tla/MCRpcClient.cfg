SPECIFICATION FairSpec
CONSTANTS
  Retries = 1
  MaxCalls = 3
  MaxConns = 2
  MaxStray = 1
INVARIANTS TypeOK SafeMeansClean OwnOnceOrNothing
PROPERTIES ConnectionsAreSessions CallReturns
CHECK_DEADLOCK FALSE
