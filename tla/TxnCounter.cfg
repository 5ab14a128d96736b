SPECIFICATION Spec
CONSTANTS
    None = None
    Wide = Wide
    s1 = s1
    s2 = s2
    i1 = i1
    i2 = i2
    p1 = p1
    p2 = p2
    t1 = t1
    Docs = {1, 2, 3}
    Shops = {s1}
    Items = {i1}
    Home <- AtHome
    Parties = {p1, p2}
    Kinds = {"CASH", "UPI"}
    Inputs <- CounterInputs
    Price <- CounterPrice
    UnitTax <- UnitPrice
    UnitCost <- UnitPrice
    CreditLimit <- LimitThree
    Stock0 <- FewInStock
    Accounts0 <- CashOnly
    Slips = {}
    Opening0 <- Floats
    Transfers = {t1}
    Moves <- CounterMoves
    Edits = {}
INVARIANTS
    IInv
    SurfacesAgree
    FinancialsAddUp
    StatementsAddUp
    PaidIsPayments
    SettledInvoicesStay
    DayBookCountsSettlements
    DuesAreExplained
PROPERTIES
    PartiesFollowDocs
    MoneyFollowsDocs
