\* Safety alone, with a retry that fails again: two channels, two edits, two starts that fail, one restart.
CONSTANTS
  Chans = {c1, c2}
  MaxEdits = 2
  MaxFails = 2
  MaxRestarts = 1
  MaxStarts = 4
  Nobody = Nobody
SPECIFICATION Spec
SYMMETRY Symmetry
INVARIANTS ForgetsForGood
PROPERTIES StartsAlone
CHECK_DEADLOCK FALSE
