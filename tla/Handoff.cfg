\* Three files, stopped half way twice, and gone back from once.
CONSTANTS
  Items = {i1, i2, i3}
  MaxGen = 2
  MaxCrashes = 2
  Absent = Absent
SPECIFICATION Spec
SYMMETRY Symmetry
INVARIANTS NothingLost
PROPERTIES ReadWhole DoneOnce
