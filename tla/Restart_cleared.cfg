\* Messages a stop takes out of pi's queue.
CONSTANTS
  Words = {w1}
  MaxSent = 3
  MaxEnds = 2
SPECIFICATION Spec
INVARIANTS ClearedIsTold
CHECK_DEADLOCK FALSE
