\* Three messages, and one of those that wait taken back.
CONSTANTS
  Msgs = {m1, m2, m3}
  Stops = {s1}
  Backs = {s1}
  Text <- Unlike
  Rewritten <- Unlike
  MaxRuns = 0
  Patient = TRUE
  Early = FALSE
  None = None
SPECIFICATION Spec
INVARIANTS StaySent
CHECK_DEADLOCK FALSE
