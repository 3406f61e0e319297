\* A chat deleted twice at once, by a page and by its channel, say.
CONSTANTS
  Callers = {c1}
  Editors = {}
  Deleters = {d1, d2}
  Pis = {p1}
  Places = {FALSE}
  NoPi = NoPi
  NoOne = NoOne
  Reload = Reload
SPECIFICATION Spec
INVARIANTS NoPiOutlivesChat
CHECK_DEADLOCK FALSE
