SPECIFICATION Spec
CONSTANTS
  cannon = cannon
  wall = wall
  None = None
  Items = {cannon, wall}
  Known = {cannon, wall}
  Arrayed = {cannon, wall}
  MaxLevel = 3
  MaxTimer = 5
  Reach <- MCReach
  Seconds <- MCSeconds
  Built <- MCBuilt
  Players = {TRUE, FALSE}
  MaxNow = 3
  MaxSteps <- MCSteps
  MaxFiles = 3
INVARIANTS OverlayIsTruth
PROPERTIES MismatchHasCause ConfirmedHappened
