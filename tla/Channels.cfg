\* Two channels of a package, two edits, one start that fails, one restart.
CONSTANTS
  Chans = {c1, c2}
  MaxEdits = 2
  MaxFails = 1
  MaxRestarts = 1
  MaxStarts = 4
  Nobody = Nobody
SPECIFICATION FairSpec
INVARIANTS ForgetsForGood
PROPERTIES StartsAlone ComesUp
CHECK_DEADLOCK FALSE
