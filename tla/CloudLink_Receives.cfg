SPECIFICATION FairSpec
CONSTANTS
  MaxConns = 4
  MissThreshold = 2
  MaxHandlers = 1
  MaxAttempts = 1
  LocalClass = FALSE
  DomainUpdates = FALSE
  MayStop = TRUE
PROPERTY Receives
CHECK_DEADLOCK FALSE
