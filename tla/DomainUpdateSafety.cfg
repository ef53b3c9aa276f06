SPECIFICATION Spec
CONSTANTS
  e0 = e0
  e1 = e1
  e2 = e2
  host = host
  ip = ip
  url = url
  Endpoints = {e0, e1, e2, host, ip, url}
  Configured = e0
  Overrides = {e2, host, ip, url}
  Malformed = {ip, url}
  Unloadable = {host, ip}
  SaveMayFail = TRUE
  MaxUpdates = 3
  NoConn = NoConn
INVARIANTS FileAnswered FileFollowsConfig EndpointFollowsConfig AppliedIsKept RefusedIsDotless
