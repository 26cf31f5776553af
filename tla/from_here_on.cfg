SPECIFICATION Spec
CONSTANTS
  Users = {u1}
  Villages = {v1}
  Crons = {c1}
  MaxNow = 3
  MaxUploads = 1
  MaxRuns = 2
PROPERTIES FromHereOn
