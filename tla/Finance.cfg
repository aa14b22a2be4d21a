SPECIFICATION FinanceSpec
CONSTANTS
    a1 = a1
    o1 = o1
    u1 = u1
    u2 = u2
    l1 = l1
    shop = shop
    Nobody = Nobody
    User = {u1, u2}
    Checkout <- OneCheckout
    Snapshot <- Reports
    Affiliate = {shop}
    Link = {l1}
    LinkOwner <- OwnerOfLink
    Bps = {5000}
    DefaultBps = 5000
    Accepted = {2}
    MaxRevision = 3
    Batch = {s1}
    s1 = s1
    Deduction = {0}
    SettlementEnabled = TRUE
    RequestKey = {k1, k2}
    k1 = k1
    k2 = k2
    AdjustmentId = {j1}
    j1 = j1
    Bank = {b1}
    b1 = b1
    LegacyBank = {}
    Amount = {1, 2}
    AdjustmentAmount <- BothAdjustments
    Minimum = {1}
    DefaultMinimum = 1
    WithdrawalsEnabled = TRUE
INVARIANTS
    BooksAgree
    PagesAgree
PROPERTIES
    ProcessingIsEarned
    ImplementsAccount
SYMMETRY RequestSymmetry
