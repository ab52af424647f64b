SPECIFICATION IntegrationsSpec
CONSTANTS
  k1 = k1
  k2 = k2
  Callers = {k1, k2}
  Managers <- MCManagers
  ConnIds = {1, 2}
  AuthIds = {1, 2}
  Accounts <- MCAccounts
  Grants <- MCGrants
  HookIds = {1, 2, 3}
  MaxClock = 2
  MaxCrashes = 1
  MaxBegun <- MCMaxBegun
  Scenes = {"ebay", "tokens", "store", "import", "import_orders", "webhooks", "erasure", "intake", "destination", "topics", "ready_ebay", "ready_store", "health", "hops"}
  Connected <- MCConnected
  RunIds = {1, 2}
  Catalogues <- MCCatalogues
  PageSize = 1
  maxPages = 2
  Events = {"e1"}
  MaxTampered = 1
  Businesses = {b1, b2}
  Notices = {n1}
  MaxReceived <- MCMaxReceived
  Topics <- MCTopics
  KeyIds = {1, 2}
  maxCached = 1
  CIRCUIT_THRESHOLD = 2
  MaxFailures = 3
  QuotaLimits = {0, 10, 20}
  MaxUsed = 2
  MaxRedirects = 2
INVARIANTS RecordedErasureIsTrue AuthorizationSpentOnce CursorCoversWrittenGround
PROPERTIES OverlapNeverSilences RefreshIsShared
SYMMETRY Sym
CHECK_DEADLOCK FALSE
