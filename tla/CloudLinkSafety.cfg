SPECIFICATION Spec
CONSTANTS
  MaxConns = 3
  MissThreshold = 2
  MaxHandlers = 1
  MaxAttempts = 8
  LocalClass = TRUE
  DomainUpdates = TRUE
  MayStop = FALSE
INVARIANTS OneReconnect ConnsAgree BackoffHolds
CHECK_DEADLOCK FALSE
