SPECIFICATION FairSpec
CONSTANTS
  w1 = w1
  d1 = d1
  t1 = t1
  b1 = b1
  Workers = {w1}
  Devices = {d1}
  Tasks = {t1}
  DeviceOf <- MCDeviceOf
  NoTask = NoTask
  Recoverable = {t1}
  MaxRetry = 1
  Beats = {b1}
  Protocols = {"RAW", "LPR", "IPP", "CUPS"}
  BufferSize = 1
  MaxUpdates = 3
INVARIANTS TypeOK DbClosedLast UnheardIsRecovered WrittenOnce
PROPERTY NoneForgotten SendReturns ShutdownCompletes
CHECK_DEADLOCK FALSE
