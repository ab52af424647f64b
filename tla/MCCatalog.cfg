SPECIFICATION MCSpec
CONSTANTS
  c1 = c1
  c2 = c2
  CanonicalItems = {"tea", "box"}
  Places = {"north", "south"}
  Skus = {"tea", "box"}
  Codes = {"north", "south"}
  ExternalPlaces = {"warehouse"}
  Entities = {"red", "blue"}
  ParentOf <- MCParentOf
  MappingIds = {1, 2}
  RecipeIds = {1, 2}
  KitParts <- MCKitParts
  Staff <- MCStaff
  Clerks = {c1, c2}
  Openings <- MCOpenings
  Doings <- MCDoings
  CatalogScenes = {"mappings", "variations", "kits", "places", "items", "pilot", "report", "allocation"}
  MaxUnits = 1
  MaxVersions = 5
  Enrollable = {"m1", "m2"}
  Operators = {"o1", "o2"}
  CohortLimits = {1}
  OversaleAlerts = {"a1"}
  Evidence <- MCEvidence
  PILOT_DURATION_DAYS = 1
  MIN_SETTLED_SAMPLES = 2
  SLO_TARGET = 2
  SLO_TAIL = 5
  BASELINE_INTERVAL = 1
  LastDay = 2
  MaxDrills = 2
  Items <- ItemsMC
  Recipes <- RecipesMC
  Order <- OrderMC
  MaxStock = 2
  MaxQuantity = 3
INVARIANTS HistoryExplainsMapping KitIsARecipe PassIsEarned PlanIsTheRightOne
PROPERTIES ArchivedMappingIsFinal
SYMMETRY Sym
CHECK_DEADLOCK FALSE
