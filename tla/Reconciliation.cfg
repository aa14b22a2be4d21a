SPECIFICATION ReconciliationSpec
CONSTANTS
    Worker = {w1, w2}
    Account = {a1, a2}
    FirstAccount = a1
    Dates = {week}
    Pages = 2
    MaxRuns = 2
    MaxVersion = 2
    MaxCrashes = 1
    Nobody = Nobody
INVARIANTS
    ReconciliationTypeOK
    PublishedInDownloadOrder
    PublishedAtMostOnce
    VerifiedWasReached
    PublishesVerified
CHECK_DEADLOCK FALSE
