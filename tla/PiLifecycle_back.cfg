\* A reload that came due during the run of an edit that fails.
CONSTANTS
  Callers = {c1}
  Editors = {e1}
  Deleters = {}
  Pis = {p1, p2}
  Places = {FALSE}
  NoPi = NoPi
  NoOne = NoOne
  Reload = Reload
SPECIFICATION Spec
PROPERTIES FailedEditGoesBack
CHECK_DEADLOCK FALSE
