\* Two messages with the same words, and two crashes.
CONSTANTS
  Words = {w1}
  MaxSent = 3
  MaxEnds = 2
SPECIFICATION Spec
INVARIANTS RestNeverReachedPi
CHECK_DEADLOCK FALSE
