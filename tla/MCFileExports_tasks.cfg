SPECIFICATION ExportSpec
CONSTANTS
  Paths = {p1, p2}
  Settings = {k1, k2}
  MaxAttempts = 2
  MaxRevision = 1
SYMMETRY Symmetry
INVARIANTS ExportTypeOK HostLeftAsFound
PROPERTIES FilesKept
CHECK_DEADLOCK FALSE
