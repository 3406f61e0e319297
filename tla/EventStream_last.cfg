\* The last turn is removed, and another message sent, during the replay of a chat.
CONSTANTS
  LastSeq = 3
  MaxReloads = 2
  MaxCuts = 1
  MaxAnswers = 1
  MaxSaid = 2
  Page = 1
  Window = 2
SPECIFICATION Spec
INVARIANTS NoGap

CHECK_DEADLOCK FALSE
