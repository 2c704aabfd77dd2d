SPECIFICATION Spec
CONSTANTS
  Attempts = {a1, a2}
  None = None
  Unpaired = FALSE
  TokenFaults = FALSE
  Hangs = FALSE
SYMMETRY Symmetry
INVARIANT ShowsItsSession
CHECK_DEADLOCK FALSE
