SPECIFICATION Spec
CONSTANTS
  Documents = {d1, d2}
  Traces = {t1, t2}
  None = None
  MaxSteps = 5
SYMMETRY Symmetry
INVARIANTS ProofIsSound
CHECK_DEADLOCK FALSE
