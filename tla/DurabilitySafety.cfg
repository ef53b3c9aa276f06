SPECIFICATION Spec
CONSTANTS
  t1 = t1
  t2 = t2
  t3 = t3
  Tasks = {t1, t2, t3}
  TaskID <- MCTaskID
  SeqNo <- MCSeqNo
  SentStatus <- MCSentStatus
  Capacity = 2
  MaxCrashes = 2
  StoreMayFail = TRUE
INVARIANTS RecoveredOnce CancelledStaysCancelled QueueInOrder
CHECK_DEADLOCK FALSE
