SPECIFICATION PartsSpec
CONSTANTS
    Totals = {0, 1, 2, 5, 7, 10, 11}
    Weights = {0, 1, 2, 3, 7}
    MaxLength = 4
    o1 = o1
    o2 = o2
    o3 = o3
    o4 = o4
    o5 = o5
    Checkout = {o1, o2, o3, o4, o5}
    Day <- MCDay
    Amount <- MCAmount
    FirstDay = 1
    LastDay = 3
    MaxDays = 2
    PageSize = 2
    MaxPages = 3
    Attempts = 2
    Limit = 99
    MaxChanges = 2
    Member = {u1, u2}
    Product = {p1}
    Item = {i1}
    LinkId = {l1, l2}
    Call = {k1, k2}
    None = None
    Gone = Gone
    admin = admin
    shopper = shopper
    paid = paid
    news = news
    report1 = report1
    toAdmin = toAdmin
    sale = sale
    saleAgain = saleAgain
    saleForOne = saleForOne
    Person = {admin, shopper}
    Admin = {admin}
    Event = {paid, news}
    Req = {report1, toAdmin, sale, saleAgain, saleForOne}
    Wants <- MCWants
    Retries = 3
    Token = {phone}
    Everyone = Everyone
    NoOne = NoOne
SYMMETRY CatalogSymmetry
INVARIANTS
    DividesFairly
    OrdersTakenOnce
    AttributionStands
    AnnouncedOnce
PROPERTIES
    ReadStaysRead
CHECK_DEADLOCK FALSE
