SPECIFICATION Spec
CONSTANTS
  Users = {u1}
  Villages = {v1, v2}
  Crons = {c1, c2}
  MaxNow = 2
  MaxUploads = 2
  MaxRuns = 2
SYMMETRY Symmetry
INVARIANTS TypeOK NothingMissed
PROPERTIES NothingTwice
