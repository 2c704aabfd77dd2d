CONSTANTS
  Requests = {r1, r2, r3}
  StatusRequests = {r3}
  None = None
  MaxQueueDepth = 3
SPECIFICATION Spec
SYMMETRY Symmetry
CHECK_DEADLOCK FALSE
PROPERTY ReportsQueueDepth
