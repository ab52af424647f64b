SPECIFICATION OperationsSpec
CONSTANTS
  w1 = w1
  w2 = w2
  c1 = c1
  OpIds = {1,2}
  Executors = {w1,w2}
  Confirmers <- MCConfirmers
  MaxCrashes = 1
  MaxAttempts = 2
  FeatureSets <- MCFeatureSets
  DraftSources <- MCDraftSources
  DraftSubjects <- MCDraftSubjects
  Prices <- MCPrices
  Supplied <- MCSupplied
  MaxOutOfBand = 1
  Parcels = {1, 2}
  Clerks = {c1}
  Ordered = 2
  ProviderLives = {1, 4}
  MaxRefunds = 1
  PushKinds = {"ebay_fulfillment", "woocommerce_order_note", "woocommerce_status"}
  a1 = a1
  a2 = a2
  Askers = {a1, a2}
  Addresses = {"one", "private"}
  RequestCap = 1
  Answers <- MCAnswers
  MaxAsked = 2
  MaxProviders = 1
INVARIANTS BudgetOverrunIsBounded StoredLabelIsPaidFor CompletedWhenShipped
PROPERTY AtMostOnceWhenConfirmed
SYMMETRY Sym
CHECK_DEADLOCK FALSE
