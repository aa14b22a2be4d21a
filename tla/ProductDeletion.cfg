SPECIFICATION CatalogSpec
CONSTANTS
    Member = {u1}
    Product = {p1}
    Item = {i1}
    LinkId = {l1}
    Call = {k1, k2}
    None = None
    Gone = Gone
INVARIANTS
    IssuedLinksKept
