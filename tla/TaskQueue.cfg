SPECIFICATION FairSpec
CONSTANTS
  d1 = d1
  d2 = d2
  a1 = a1
  a2 = a2
  a3 = a3
  bad = bad
  Tasks = {a1, a2, a3, bad}
  TaskID <- MCTaskID
  SeqNo <- MCSeqNo
  Devices = {d1, d2}
  DeviceOf <- MCDeviceOf
  SentStatus <- MCSentStatus
  Malformed = {bad}
  Capacity = 2
  SaveMayFail = {a1, a3}
  NoTask = NoTask
INVARIANTS TypeOK WithinCapacity NoLostWakeup DeliveredOnce QueuedIsStored
PROPERTIES ImplementsFifo WaiterServed StopTerminates
CHECK_DEADLOCK FALSE
