SPECIFICATION ReconciliationSpec
CONSTANTS
    Worker = {w1, w2}
    Account = {a1}
    FirstAccount = a1
    Dates = {week}
    Pages = 1
    MaxRuns = 1
    MaxVersion = 1
    MaxCrashes = 0
    Nobody = Nobody
INVARIANTS
    FailedPublishedNothing
CHECK_DEADLOCK FALSE
