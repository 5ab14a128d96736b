SPECIFICATION Spec
SYMMETRY Symmetry
CHECK_DEADLOCK FALSE
CONSTANTS
    None = None
    k1 = k1
    k2 = k2
    l1 = l1
    l2 = l2
    h1 = h1
    h2 = h2
    Keys = {k1, k2}
    Bills = {1, 2}
    Poison = {2}
    Loops = {l1, l2}
    Handlers = {h1, h2}
    Mishaps = {"cart_edited", "page_left"}
INVARIANTS
    BillInv
    OneSalePerKey
    OneSalePerBill
    SavedBillsSold
    OfflineBillsKept
