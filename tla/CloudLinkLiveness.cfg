SPECIFICATION FairSpec
CONSTANTS
  MaxConns = 3
  MissThreshold = 2
  MaxHandlers = 1
  MaxAttempts = 2
  LocalClass = TRUE
  DomainUpdates = FALSE
  MayStop = TRUE
PROPERTIES Reconnects StopTerminates
CHECK_DEADLOCK FALSE
