\* Three messages, which an input handler may rewrite, and a Stop, in runs the messages start.
CONSTANTS
  Msgs = {m1, m2, m3}
  Stops = {s1}
  Backs = {s1}
  Text <- Unlike
  Rewritten <- Other
  MaxRuns = 0
  Patient = TRUE
  Early = FALSE
  None = None
SPECIFICATION Spec
SYMMETRY Symmetry
INVARIANTS WaitsForPi ShownAsItIs OneAtATime
PROPERTIES Delivers PlacedAsRead
CHECK_DEADLOCK FALSE
