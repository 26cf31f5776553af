\* One account, six ways to start, 23 items of which two are unknown.
CONSTANTS
  town = town  hut = hut  lab = lab  smith = smith  tavern = tavern  pen = pen
  cannon = cannon  wall = wall  guard = guard  troop = troop  hero = hero  pet = pet
  gear = gear  helper = helper  tree = tree  odd = odd  tower = tower
  bhall = bhall  bhut = bhut  starlab = starlab  bcannon = bcannon
  btroop = btroop  bhero = bhero
  Files <- MCFiles
  SectionOf <- MCSectionOf
  Id <- MCId
  Block <- MCBlock
  Currencies = {"gold", "elixir", "shiny", "glowy", "starry"}
  Starts <- MCStarts
  MaxLevel = 4
  MaxTimer = 2
  MaxNow = 4
  MaxGrown = 2
SPECIFICATION Spec
INVARIANTS TypeOK ReportKeepsUp SuggestionsHonest PanelsAgree LogIsTrue BillIsPaidOff
PROPERTY PreviewComesTrue
