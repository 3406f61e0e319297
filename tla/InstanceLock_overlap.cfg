\* Servers started together, on a directory that has sockets.
CONSTANTS
  Servers = {p1, p2, p3}
  Places <- FileFirst
  Broken = {}
  Overlap = TRUE
  Nobody = Nobody
  Left = Left
SPECIFICATION LockSpec
INVARIANTS OneServer
