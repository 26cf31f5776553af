SPECIFICATION Spec
CONSTANTS
  cannon = cannon
  wall = wall
  ram = ram
  None = None
  Requests = {r1}
  Tags = {A, B}
  Items = {cannon, wall, ram}
  Known = {cannon, wall, ram}
  Arrayed = {cannon, wall}
  MaxLevel = 3
  MaxTimer = 5
  Reach <- MCReach
  Seconds <- MCSeconds
  Exports <- CannonWallRam
  Ops = {"get", "post", "claim", "cancel", "forget"}
  Hosted = FALSE
  SaveMayFail = TRUE
  ReadMayFail = TRUE
  Durable = FALSE
  MayRestart = TRUE
  SnapLimit = 2
  MaxClaims = 2
  MaxNow = 2
INVARIANTS SettledSerially CoveredActionsGone RefusedForCause
PROPERTIES ClaimTakesFreeCopy ImplementsStore
SYMMETRY Alike
