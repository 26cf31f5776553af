SPECIFICATION Spec
CONSTANTS
  cannon = cannon
  wall = wall
  None = None
  Items = {cannon, wall}
  Known = {cannon, wall}
  Arrayed = {cannon, wall}
  MaxLevel = 3
  MaxTimer = 5
  Reach <- MCReach
  Seconds <- MCSeconds
  Built <- MCBuilt
  Players = {TRUE}
  MaxNow = 3
  MaxSteps <- MCSteps
  MaxFiles = 2
PROPERTIES TruthNotContradicted
