SPECIFICATION Spec
SYMMETRY Symmetry
CHECK_DEADLOCK FALSE
CONSTANTS
    None = None
    i1 = i1
    i2 = i2
    n1 = n1
    n2 = n2
    c1 = c1
    c2 = c2
    Items = {i1, i2}
    Digits <- IdDigits
    Codes <- ThreeCodes
    Names = {n1}
    Costs = {0, 1, 3}
    Quantities = {1}
    Clients = {c1, c2}
    PrefixDigits = 2
    MaxSuffix = 2
    Attempts = 3
    Legacy = {i1}
    LegacyCode <- OldCode
    MaxRequests = 4
INVARIANTS
    BarcodesUnique
    BarcodeDecodesCost
    VerifiedStockAgrees
