SPECIFICATION Spec
CONSTANTS
  t1 = t1
  t2 = t2
  t3 = t3
  n1 = n1
  n2 = n2
  Threads = {t1, t2, t3}
  BugThreads = {t3}
  Tunnels = {n1, n2}
  NoTunnel = NoTunnel
  MaxConnections = 1
  MaxReconnects = 1
  MaxAttempts = 2
  MaxRequests = 1
  MaxFaults = 1
INVARIANTS
  ConnectionsReturned
  OneTunnel
PROPERTY
  RequestsEnd
CHECK_DEADLOCK FALSE
