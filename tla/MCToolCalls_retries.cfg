SPECIFICATION Spec
CONSTANTS
  Paths = {p}
  Settings = {}
  MaxAttempts = 1
  MaxRevision = 3
  Calls = {c1, c2}
  Tools = {"status", "create", "apply", "plain"}
  Overwrites = {TRUE}
  MaxTries = 2
SYMMETRY Symmetry
INVARIANTS BatchAppliedOnce OkIsWritten AdmitsChanges
CHECK_DEADLOCK FALSE
