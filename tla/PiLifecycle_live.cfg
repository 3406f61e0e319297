\* Nothing is held for good.
CONSTANTS
  Callers = {c1}
  Editors = {e1}
  Deleters = {d1}
  Pis = {p1, p2}
  Places = {TRUE, FALSE}
  NoPi = NoPi
  NoOne = NoOne
  Reload = Reload
SPECIFICATION FairSpec
PROPERTIES PromptsAnswered EditsLetGo DeletesEnd
CHECK_DEADLOCK FALSE
