\* The way back of an edit puts its events back, and fails to write pi's file.
CONSTANTS
  LastSeq = 3
  MaxReloads = 2
  MaxCuts = 1
  MaxAnswers = 1
  MaxSaid = 2
  Page = 1
  Window = 2
SPECIFICATION SpecCutShort
INVARIANTS ShowsTheChat
CHECK_DEADLOCK FALSE
