\* Two messages, a Stop, and a run nobody here asked for.
CONSTANTS
  Msgs = {m1, m2}
  Stops = {s1}
  Backs = {}
  Text <- Unlike
  Rewritten <- Other
  MaxRuns = 1
  Patient = TRUE
  Early = FALSE
  None = None
SPECIFICATION Spec
INVARIANTS WaitsForPi
PROPERTIES Delivers
CHECK_DEADLOCK FALSE
