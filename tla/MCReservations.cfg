\* A plain line and a kit line at two locations: taken, shipped, cancelled and moved
\* between the two modes while stock is adjusted and transferred.
CONSTANTS
  Items <- ItemsAB
  Order <- TwoLocations
  Lines <- L12
  Recipe <- KitRecipes
  Quantity <- Ones
  DefaultSafetyStock = 1
  ItemOverride <- NoItemOverride
  LocationOverride <- NoneWithheldAtY
  SplitSettings = {TRUE, FALSE}
  Opening <- ThreeAtX
  Changes <- CountOrMove
  TransferQuantities = {1}
  Callers = {c1, c2}
  Ops = {"reserve", "fulfill", "release", "transfer", "switch"}
  SerializedByLine = TRUE
  MaxPostings = 3
  RaceOps = {"reserve", "fulfill", "release", "adjust", "transfer", "reverse"}
  RacePostings = 3
SPECIFICATION MCSpec
INVARIANTS
  ReservedWithinOnHand
  LedgerExplainsOnHand
  CommittedInTurn
  MovedOnceInTurn
PROPERTIES
  OrdersLeaveSafetyStock
  LockedPlanIsAccepted
CHECK_DEADLOCK FALSE
SYMMETRY CallerSymmetry
