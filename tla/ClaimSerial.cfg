SPECIFICATION Spec
CONSTANTS
  Calls = {c1, c2, c3, c4}
  Null = Null
  NoClaim = NoClaim
  Kinds = {"create", "resolve", "finalize", "settle", "score", "read"}
  Keys = {"claim", "latest"}
  MaxWriters = 1
  MayFail = TRUE
  StartsCreated = FALSE
INVARIANTS Inv
PROPERTIES FinalizedIsImmutable NeverUnresolved
CHECK_DEADLOCK FALSE
SYMMETRY Symmetry
