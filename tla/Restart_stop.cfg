\* A run aborted by a stop of the portal that another chat holds up.
CONSTANTS
  Words = {w1}
  MaxSent = 3
  MaxEnds = 2
SPECIFICATION Spec
INVARIANTS NextStartFindsIt
CHECK_DEADLOCK FALSE
