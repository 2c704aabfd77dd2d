CONSTANTS
  NativeIds = {d1, d2}
  Uuids = {u1, u2}
  None = None
  MaxRevision = 2
  StoreFaults = {"read", "write"}
SPECIFICATION Spec
SYMMETRY Symmetry
CHECK_DEADLOCK FALSE
INVARIANTS TypeOK NoStaleReference AcceptedStaysFresh
PROPERTIES RevisionSteps ChangesNeverSilent
