\* A channel started beside its old start, as the portal closes.
CONSTANTS
  Chans = {c1, c2}
  MaxEdits = 1
  MaxFails = 0
  MaxRestarts = 1
  MaxStarts = 4
  Nobody = Nobody
SPECIFICATION Spec
PROPERTIES StartsAloneToTheEnd
CHECK_DEADLOCK FALSE
