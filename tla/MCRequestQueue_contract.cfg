CONSTANTS
  Requests = {r1, r2, r3, r4}
  StatusRequests = {r4}
  None = None
  MaxQueueDepth = 3
SPECIFICATION FairSpec
CHECK_DEADLOCK FALSE
INVARIANTS TypeOK FifoOrder RetryableNeverRan CancelHitsItsTarget
PROPERTY KeepsContract
