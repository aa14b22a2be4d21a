SPECIFICATION EligibilitySpec
CONSTANTS
    a1 = a1
    a2 = a2
    o1 = o1
    o2 = o2
    u1 = u1
    u2 = u2
    l1 = l1
    l2 = l2
    s1 = s1
    s2 = s2
    shop = shop
    Nobody = Nobody
    User = {u1, u2}
    Checkout <- TwoProviders
    Snapshot <- ProviderReports
    Affiliate = {shop}
    Link = {l1}
    LinkOwner <- Owner
    Bps = {8000}
    DefaultBps = 8000
    Accepted = {3}
    MaxRevision = 3
    Batch = {s1, s2}
    Deduction = {1}
    SettlementEnabled = TRUE
INVARIANTS
    LedgerTellsCommission
    OneProviderPaid
    ReviewHasIssue
    ShownAsSettled
PROPERTIES
    PaysWhatWasDrafted
SYMMETRY ProviderSymmetry
