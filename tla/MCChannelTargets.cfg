SPECIFICATION MCSpec
CONSTANTS
    w1 = w1
    w2 = w2
    Workers <- MCWorkers
    Limit <- MCAnyLimit
    MaxDisturbances = 2
    Quantities = {0, 1}
    Conditional = TRUE
    MaxVersion = 2
    MaxJobs = 1
    Faults = {"unavailable", "unauthorized", "rejected"}
INVARIANTS
    ConvergedIsTrue
PROPERTIES
    OlderNeverOverwritesNewer
    DeliveredAfterOutages
CHECK_DEADLOCK FALSE
