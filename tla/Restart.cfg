\* Four messages that may say the same, and three ends of the portal.
CONSTANTS
  Words = {w1, w2}
  MaxSent = 4
  MaxEnds = 3
SPECIFICATION Spec
SYMMETRY Symmetry
INVARIANTS OfferedUnread ShownReadIsRead CutOffSaid
CHECK_DEADLOCK FALSE
