SPECIFICATION Spec
CONSTANTS
  i1 = i1
  i2 = i2
  i3 = i3
  g = g
  p1 = p1
  p2 = p2
  Items = {i1, i2, i3, g}
  Groups = {g}
  Stacking <- WithGroup
  Pages <- TwoPages
  Layer = Layer
  Lockable = {i1}
  Spread = Spread
  Aliases = {x, y}
  None = None
  MaxOperations = 2
  Checks = {TRUE}
  KeepsProxies = FALSE
  HostFaults = TRUE
  Editable = {i1, i2, p1, Layer}
  BothTroubles = FALSE
SYMMETRY Symmetry
INVARIANTS TypeOK UnchangedAsReported AliasesHold ReportedReferencesHold CarefulPlanRuns
PROPERTIES NoticedEditUntouched GroupsAreExact
CHECK_DEADLOCK FALSE
