\* By hand: a message pi refused, retried in the same words.  InStep is refuted.
CONSTANTS
  LastSeq = 4
  Wordings <- Either
  MissAny = TRUE
  EarlyFile = FALSE
  MaxEdits = 4
  MaxFaults = 0
  MaxCrashes = 0
  NoFile = NoFile
  NoEdit = NoEdit
SPECIFICATION Spec
INVARIANT InStep
CHECK_DEADLOCK FALSE
