SPECIFICATION Spec
CONSTANTS
    None = None
    Wide = Wide
    s1 = s1
    s2 = s2
    i1 = i1
    i2 = i2
    p1 = p1
    p2 = p2
    t1 = t1
    Docs = {1, 2, 3}
    Shops = {s1, s2}
    Items = {i1, i2}
    Home <- AtHome
    Parties = {p1, p2}
    Kinds = {"CASH", "UPI"}
    Inputs <- ShopInputs
    Price <- UnitPrice
    UnitTax <- Nothing
    UnitCost <- UnitPrice
    CreditLimit <- NoLimit
    Stock0 <- ThreeInStock
    Accounts0 <- ShopAccounts
    Slips = {}
    Opening0 <- Floats
    Transfers = {t1}
    Moves <- ShopMoves
    Edits = {0}
INVARIANTS
    ClosedOrdersAreReceived
    ShopsAddUp
PROPERTIES
    StockFollowsDocs
    LevelsFollowDocs
