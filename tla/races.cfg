SPECIFICATION Spec
CONSTANTS
  cannon = cannon
  wall = wall
  ram = ram
  None = None
  Requests = {r1, r2}
  Tags = {"A"}
  Items = {cannon, wall}
  Known = {cannon, wall}
  Arrayed = {cannon, wall}
  MaxLevel = 3
  MaxTimer = 5
  Reach <- MCReach
  Seconds <- MCSeconds
  Exports <- CannonWall
  Ops = {"get", "post", "claim", "cancel"}
  Hosted = TRUE
  SaveMayFail = TRUE
  ReadMayFail = TRUE
  Durable = TRUE
  MayRestart = TRUE
  SnapLimit = 0
  MaxClaims = 2
  MaxNow = 2
SYMMETRY Symmetry
INVARIANTS SettledPlaceable UploadIsAnalysed JudgedByStoredExport
PROPERTIES ConcurrentClaimSurvives DeclaredOnce
