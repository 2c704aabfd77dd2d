CONSTANTS
  Connections = {c1, c2, c3}
  HttpConnections = {c1}
  Strangers = {c3}
  Requests = {r1}
  Oversized = {}
  None = None
  MaxPendingAuth = 2
  MaxAuthFailures = 1
  MaxRecentFailures = 1
  MaxPendingRequests = 1
  MaxOutbound = 1
SPECIFICATION Spec
INVARIANTS TypeOK AuthenticationBounded ActiveIsReachable OnlyPairedActive WaitsOnActiveSession
PROPERTIES HealthySessionKept SettledOnce
CONSTRAINT OneBody
