SPECIFICATION Spec
CONSTANTS
    None = None
    s1 = s1
    s2 = s2
    p1 = p1
    Clients = {c1, c2}
    Requests <- AllRequests
    Shops = {s1, s2}
    Parties = {p1}
    Given <- Documents
    Stock0 = 2
    HomeShop = s1
    MayCrash = {c1}
INVARIANTS
    BooksReconcile
    LevelsAddUp
    PaidIsAllocated
    OversoldOnlyAcrossCounters
    ConvertedOnce
    ClaimsAreReleased
