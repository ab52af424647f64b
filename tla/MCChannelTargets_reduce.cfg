SPECIFICATION DriftSpec
CONSTANTS
    w1 = w1
    w2 = w2
    Workers = {w1}
    Limit <- MCDriftLimit
    MaxDisturbances = 2
    Quantities = {0, 1}
    Conditional = FALSE
    MaxVersion = 2
    MaxJobs = 1
    Faults = {"unavailable", "unauthorized", "rejected"}
PROPERTIES
    OverstatementIsReduced
CHECK_DEADLOCK FALSE
