\* One line that holds most of the stock.
CONSTANTS
  Items <- ItemA
  Order <- OneLocation
  Lines <- L1
  Recipe <- PlainRecipes
  Quantity <- Twos
  DefaultSafetyStock = 1
  ItemOverride <- NoItemOverride
  LocationOverride <- NoLocationOverride
  SplitSettings = {FALSE}
  Opening <- ThreeEach
  Changes <- CountToTwo
  TransferQuantities = {1}
  Callers = {c1}
  Ops = {"reserve", "fulfill", "release"}
  SerializedByLine = TRUE
  MaxPostings = 4
  RaceOps = {}
  RacePostings = 0
SPECIFICATION MCSpec
CHECK_DEADLOCK FALSE
INVARIANT ReservedUnitsCanShip
