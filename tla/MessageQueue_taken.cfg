\* A message taken back that pi has read under other words, and that still waits.
CONSTANTS
  Msgs = {m1, m2}
  Stops = {s1}
  Backs = {s1}
  Text <- Unlike
  Rewritten <- Other
  MaxRuns = 0
  Patient = TRUE
  Early = TRUE
  None = None
SPECIFICATION Spec
PROPERTIES Delivers
CHECK_DEADLOCK FALSE
