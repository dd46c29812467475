SPECIFICATION QueuesSpec
CONSTANTS
  Deliveries = {1, 2}
  Jobs = {1, 2}
  Calls = {1, 2, 3}
  MaxRetries = 1
  FirstAttempts = {0, 1}
  DisableAfter = 2
  Workers = 2
  MaxFaults = 1
  Removed = Removed
  Tasks = {t1, t2, t3, t4}
  None = None
INVARIANTS Inv PendingHasJob
PROPERTIES ImplementsPromise EveryJobEnds EveryCallSettles
CHECK_DEADLOCK FALSE
