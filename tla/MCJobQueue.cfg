\* Wake-ups of one order, which coalesce, over two workers, in a steady deployment and in
\* a rolling one.
CONSTANTS
  Keys <- JustOrder
  DedupedKeys <- JustOrder
  Lanes <- TwoLanes
  Workers <- TwoWorkers
  WorkerOf <- OneEach
  Circumstances <- MCCircumstances
  MaxAttempts = 2
  Window = 2
  Lease = 2
  Delays = {0, 1}
  MaxJobs = 2
  MaxClaims = 3
SPECIFICATION FairSpec
INVARIANTS
  HandlersRunAlone
  NoWakeUpLost
  AttemptBudget
PROPERTIES
  JobStops
CHECK_DEADLOCK FALSE
