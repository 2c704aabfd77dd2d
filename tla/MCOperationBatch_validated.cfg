SPECIFICATION Spec
CONSTANTS
  i1 = i1
  i2 = i2
  i3 = i3
  g = g
  p1 = p1
  p2 = p2
  Items = {i1, i2}
  Groups = {}
  Stacking <- WithoutGroup
  Pages <- OnePage
  Layer = Layer
  Lockable = {Layer}
  Spread = Spread
  Aliases = {x, y}
  None = None
  MaxOperations = 3
  Checks = {TRUE}
  KeepsProxies = FALSE
  HostFaults = FALSE
  Editable = {}
  BothTroubles = FALSE
SYMMETRY Symmetry
INVARIANTS ValidatedPlanRuns
CHECK_DEADLOCK FALSE
