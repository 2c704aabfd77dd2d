CONSTANTS
  Connections = {c1}
  HttpConnections = {c1}
  Strangers = {}
  Requests = {r1, r2}
  Oversized = {r2}
  None = None
  MaxPendingAuth = 1
  MaxAuthFailures = 2
  MaxRecentFailures = 3
  MaxPendingRequests = 2
  MaxOutbound = 3
SPECIFICATION FairSpec
INVARIANTS NoSleepingPoll HandedOverInOrder
PROPERTIES EndedSessionAnswers
