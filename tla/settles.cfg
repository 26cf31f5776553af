SPECIFICATION FairSpec
CONSTANTS
  cannon = cannon
  wall = wall
  ram = ram
  None = None
  Requests = {r1, r2}
  Tags = {"A"}
  Items = {cannon}
  Known = {cannon}
  Arrayed = {cannon}
  MaxLevel = 3
  MaxTimer = 5
  Reach <- MCReach
  Seconds <- MCSeconds
  Exports <- NeverStarted
  Ops = {"post", "claim"}
  Hosted = TRUE
  SaveMayFail = FALSE
  ReadMayFail = TRUE
  Durable = TRUE
  MayRestart = FALSE
  SnapLimit = 0
  MaxClaims = 1
  MaxNow = 3
PROPERTIES DeclarationsSettle
