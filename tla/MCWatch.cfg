SPECIFICATION WatchSpec
CONSTANTS
  w1 = w1
  w2 = w2
  w3 = w3
  Workers = {w1, w2, w3}
  Members = {"ana"}
  MayHear <- MCMayHear
  BusinessKinds = {"oversold", "mapping_blocked", "job_dead_lettered", "reconciliation_conflict", "connection_unhealthy"}
  InstallationKinds = {"worker_unavailable", "scheduler_unavailable"}
  Subjects = {"s"}
  Ranks = {2, 3}
  AlertIds = {1, 2}
  MAX_DELIVERY_ATTEMPTS = 2
  REMINDER_GAPS <- MCGaps
  REPEAT_REMINDER_GAP = 2
  DayLength = 4
  Setting <- MCSetting
  RenewEvery = 2
  LeaseFor = 3
  TickEvery = 1
  ContendEvery = 1
  HEARTBEAT_STALE = 2
  HEARTBEAT_MISSING = 3
  MIN_INTERVAL = 1
  MAX_INTERVAL = 3
  DEFAULT_INTERVAL = 1
  Tolerance = 1
  Intervals = {0, 2}
  Backlogs = {0, 3}
  RETENTION_BATCH = 1
  DEFAULT_HISTORY = 2
  DEFAULT_RAW = 1
  MaxRows = 2
  Windows <- MCWindows
  WatchScenes = {"alerts", "mail", "routing", "leader", "health", "cadence", "retention"}
INVARIANTS OutstandingIsHeard SendsAreBounded CountedWasWritten OverlapMeansOverrun MarkedPollWasQueued
SYMMETRY Sym
CHECK_DEADLOCK FALSE
