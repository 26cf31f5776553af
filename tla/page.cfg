SPECIFICATION Spec
CONSTANTS
  A = A  B = B  dirB = dirB
  None = None
  Tags <- MCTags
  Label <- MCLabel
  Stored <- MCStored
  Opened <- MCOpened
  MaxActs = 2
INVARIANTS TypeOK ShownIsNamed
PROPERTIES PollKeepsVillage PageCatchesUp
