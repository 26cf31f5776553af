SPECIFICATION Spec
CONSTANTS
  None = None
  Jobs = {j1, j2}
  Dirs = {"A"}
  Captures = {1, 2}
  Inodes = {1, 2, 3, 4, 5, 6}
  Ops = {"save", "forget", "prune"}
  WriteMayFail = TRUE
  MayCrash = TRUE
SYMMETRY Symmetry
INVARIANTS TypeOK VisibleIsWhole AckedStays
PROPERTIES ImplementsStore
