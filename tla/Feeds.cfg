SPECIFICATION FeedsSpec
CONSTANTS
  Ids = {1, 2}
  Txs = {t}
  Streams = {s}
  Passes = {p1, p2}
  MaxBatch = 1
  MaxReplay = 1
  MaxFaults = 1
  None = None
  Loops = {l1, l2}
  MaxHead = 3
  Required = 1
  BlockRange = 2
  MaxMishaps = 2
  MaxBlock = 4
  Chunk = 2
  MaxOutages = 2
INVARIANTS Inv PollInv FeedInv
PROPERTIES ImplementsPromise EveryRowPublished CursorRises CatchesUp 
\* Without faults left, nothing needs to happen after the last block.
CHECK_DEADLOCK FALSE
