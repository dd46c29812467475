INIT AdminInit
NEXT AdminNext
CONSTANTS
  Calls = {c1, c2}
  Queues = {1, 2}
  Emergencies = {e1, e2}
  None = None
INVARIANT StatusShowsEmergency
CHECK_DEADLOCK FALSE
