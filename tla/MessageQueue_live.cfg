\* Two messages, a Stop, a run nobody asked for, and preflights that may be stuck.
CONSTANTS
  Msgs = {m1, m2}
  Stops = {s1}
  Backs = {s1}
  Text <- Unlike
  Rewritten <- Unlike
  MaxRuns = 1
  Patient = FALSE
  Early = TRUE
  None = None
SPECIFICATION StuckSpec
PROPERTIES StopsEnd SendsEnd
CHECK_DEADLOCK FALSE
