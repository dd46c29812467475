SPECIFICATION Spec
CONSTANTS
  Blocks <- TreeBlocks
  Height <- TreeHeight
  Parent <- TreeParent
  Emitting <- TreeEmitting
  NoBlock = "none"
  MaxDeliveries = 5
  Depths = {2}
  MaxBlocks = 10
  MaxEvents = 10
  MaxReorgs = 10
PROPERTY ReorgReachesFork
CHECK_DEADLOCK FALSE
