\* A Stop while the first message is on its way to an idle pi.
CONSTANTS
  Msgs = {m1, m2}
  Stops = {s1}
  Backs = {}
  Text <- Unlike
  Rewritten <- Unlike
  MaxRuns = 0
  Patient = TRUE
  Early = TRUE
  None = None
SPECIFICATION Spec
INVARIANTS OneAtATime
CHECK_DEADLOCK FALSE
