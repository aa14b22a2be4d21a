SPECIFICATION ReconciliationFairSpec
CONSTANTS
    Worker = {w1, w2}
    Account = {a1}
    FirstAccount = a1
    Dates = {week}
    Pages = 2
    MaxRuns = 2
    MaxVersion = 1
    MaxCrashes = 1
    Nobody = Nobody
PROPERTIES
    RunsFinish
CHECK_DEADLOCK FALSE
