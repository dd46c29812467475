SPECIFICATION Spec
CONSTANTS
  Blocks <- TreeBlocks
  Height <- TreeHeight
  Parent <- TreeParent
  Emitting <- TreeEmitting
  NoBlock = "none"
  MaxDeliveries = 5
  Depths = {1, 2}
  MaxBlocks = 3
  MaxEvents = 2
  MaxReorgs = 2
INVARIANTS Inv
PROPERTIES UnsettledIsKept ConfirmedWhenDeep SettledUnlessReorg NothingDeepIsPending
CHECK_DEADLOCK FALSE
