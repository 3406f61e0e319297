\* Four turns, in words of their own or not, four edits, three writes that fail, one stop.
CONSTANTS
  LastSeq = 4
  Wordings <- Either
  MissAny = FALSE
  EarlyFile = FALSE
  MaxEdits = 4
  MaxFaults = 3
  MaxCrashes = 1
  NoFile = NoFile
  NoEdit = NoEdit
SPECIFICATION Spec
INVARIANTS InStep NothingHidden VersionsStand
PROPERTIES WordsStay
CHECK_DEADLOCK FALSE
