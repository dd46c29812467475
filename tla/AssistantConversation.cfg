SPECIFICATION Spec
CONSTANTS
  Calls = {c1, c2, c3}
  None = None
SYMMETRY Symmetry
INVARIANT Inv
PROPERTY ClosedUnlessStale
CHECK_DEADLOCK FALSE
