SPECIFICATION Spec
CONSTANTS
  t1 = t1
  t2 = t2
  t3 = t3
  Tasks = {t1, t2}
  TaskID <- MCTaskID
  SeqNo <- MCSeqNo
  SentStatus <- MCSentStatus
  Capacity = 2
  MaxCrashes = 1
  StoreMayFail = FALSE
INVARIANT NoTaskLost
CHECK_DEADLOCK FALSE
