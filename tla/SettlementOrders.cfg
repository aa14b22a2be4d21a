SPECIFICATION SettlementSpec
CONSTANTS
    a1 = a1
    a2 = a2
    o1 = o1
    o2 = o2
    u1 = u1
    u2 = u2
    l1 = l1
    l2 = l2
    s1 = s1
    s2 = s2
    shop = shop
    Nobody = Nobody
    User = {u1, u2}
    Checkout <- TwoOrders
    Snapshot <- AllReports
    Affiliate = {shop}
    Link = {l1, l2}
    LinkOwner <- Owners
    Bps = {5000}
    DefaultBps = 8000
    Accepted = {3}
    MaxRevision = 2
    Batch = {s1, s2}
    Deduction = {1}
    SettlementEnabled = TRUE
INVARIANTS
    SettlementTypeOK
    ValidatedIsProven
    SettledInFull
PROPERTIES
    TermsKept
SYMMETRY OrderSymmetry
