INIT PollInit
NEXT PollNext
CONSTANTS
  Loops = {l1, l2}
  MaxHead = 4
  Required = 1
  BlockRange = 2
  MaxMishaps = 2
INVARIANT DeepIsFinal
CHECK_DEADLOCK FALSE
