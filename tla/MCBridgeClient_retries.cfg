SPECIFICATION FairSpec
CONSTANTS
  Attempts = {a1, a2}
  None = None
  Unpaired = TRUE
  TokenFaults = TRUE
  Hangs = TRUE
INVARIANTS TypeOK DisconnectHolds NeverStranded ClaimsOnlyProved
PROPERTIES AbandonedGetsNothing KeepsContract
CHECK_DEADLOCK FALSE
