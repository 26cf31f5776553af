SPECIFICATION Spec
CONSTANTS
  Requests = {r1, r2}
  Tags = {"A", "B", "C"}
  MaxSnapshots = 1
  MaxVillages = 1
  MaxUploads = 2
  Retention = 1
  DayTicks = 2
  MaxMissed = 1
  SaveMayFail = TRUE
  MaxNow = 2
SYMMETRY Symmetry
INVARIANTS LimitsHold SavedUploadShows
PROPERTIES ImplementsStore
