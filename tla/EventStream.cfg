\* Three events, two edits, an answer in two pieces, and one interruption.
CONSTANTS
  LastSeq = 3
  MaxReloads = 2
  MaxCuts = 1
  MaxAnswers = 1
  MaxSaid = 2
  Page = 1
  Window = 2
SPECIFICATION FairSpec
INVARIANTS ShowsTheChat InOrder ShowsTheAnswer
PROPERTIES CatchesUp
CHECK_DEADLOCK FALSE
