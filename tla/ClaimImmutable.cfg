SPECIFICATION Spec
CONSTANTS
  Calls = {c1, c2}
  Null = Null
  NoClaim = NoClaim
  Kinds = {"settle", "score"}
  Keys = {"claim"}
  MaxWriters = 2
  MayFail = FALSE
  StartsCreated = TRUE
PROPERTIES FinalizedIsImmutable
CHECK_DEADLOCK FALSE
