\* A prompt that starts pi again while the container of the last is being removed.
CONSTANTS
  Callers = {c1, c2}
  Editors = {}
  Deleters = {}
  Pis = {p1, p2}
  Places = {TRUE}
  NoPi = NoPi
  NoOne = NoOne
  Reload = Reload
SPECIFICATION Spec
PROPERTIES CleanUpSparesTheNext
CHECK_DEADLOCK FALSE
