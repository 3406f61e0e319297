\* By hand, and passes: seven edits, with nothing that fails.
CONSTANTS
  LastSeq = 4
  Wordings <- Either
  MissAny = FALSE
  EarlyFile = FALSE
  MaxEdits = 7
  MaxFaults = 0
  MaxCrashes = 0
  NoFile = NoFile
  NoEdit = NoEdit
SPECIFICATION Spec
INVARIANTS InStep NothingHidden VersionsStand
CHECK_DEADLOCK FALSE
