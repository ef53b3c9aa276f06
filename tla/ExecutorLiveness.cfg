SPECIFICATION FairSpec
CONSTANTS
  d1 = d1
  a1 = a1
  a2 = a2
  w1 = w1
  w2 = w2
  Devices = {d1}
  Started = {d1}
  Workers = {w1}
  Tasks = {a1, a2}
  DeviceOf <- MCDeviceOf
  SentStatus <- MCSentStatus
  Capacity = 1
  MaxRetry = 1
  NoTask = NoTask
PROPERTIES WorkedOff StopTerminates
CHECK_DEADLOCK FALSE
