\* Servers started one after another, on a directory that has sockets.
CONSTANTS
  Servers = {p1, p2, p3}
  Places <- FileFirst
  Broken = {}
  Overlap = FALSE
  Nobody = Nobody
  Left = Left
SPECIFICATION LockSpec
INVARIANTS OneServer
PROPERTIES NothingLeftKeepsOut
