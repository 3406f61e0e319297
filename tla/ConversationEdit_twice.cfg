\* By hand: a message retried twice and then switched back once.  ComesBack is refuted.
CONSTANTS
  LastSeq = 4
  Wordings <- Either
  MissAny = FALSE
  EarlyFile = FALSE
  MaxEdits = 4
  MaxFaults = 0
  MaxCrashes = 0
  NoFile = NoFile
  NoEdit = NoEdit
SPECIFICATION Spec
INVARIANT ComesBack
CHECK_DEADLOCK FALSE
