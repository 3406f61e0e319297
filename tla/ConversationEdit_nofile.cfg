\* By hand: an edit with no file before, whose replacement fails and leaves one.  NothingHidden is refuted.
CONSTANTS
  LastSeq = 4
  Wordings <- Either
  MissAny = FALSE
  EarlyFile = TRUE
  MaxEdits = 4
  MaxFaults = 0
  MaxCrashes = 0
  NoFile = NoFile
  NoEdit = NoEdit
SPECIFICATION Spec
INVARIANT NothingHidden
CHECK_DEADLOCK FALSE
