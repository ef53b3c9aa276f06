SPECIFICATION FairSpec
CONSTANTS
  d1 = d1
  a1 = a1
  a2 = a2
  g1 = g1
  g2 = g2
  Devices = {d1}
  Addrs = {a1, a2}
  Port <- MCPort
  SentProtos = {"CUPS"}
  SentPorts = {0, 515}
  SentStatuses = {""}
  Timers = {g1, g2}
  MaxEvents = 4
  None = None
INVARIANTS EditsStand PendingHasTimer LastChangeReported
PROPERTY StatusConverges
CHECK_DEADLOCK FALSE
