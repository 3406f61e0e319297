\* Two prompts, two edits and a delete of a chat whose pi is on the host, or in a container
\* which may exit on its own.
CONSTANTS
  Callers = {c1, c2}
  Editors = {e1, e2}
  Deleters = {d1}
  Pis = {p1, p2, p3}
  Places = {TRUE, FALSE}
  NoPi = NoPi
  NoOne = NoOne
  Reload = Reload
SPECIFICATION Spec
SYMMETRY Symmetry
INVARIANTS OnePi LivePiHoldsFile NoPiOutlivesChat
PROPERTIES RewrittenAlone UndoesItsOwn ReaperSparesUse
CHECK_DEADLOCK FALSE
