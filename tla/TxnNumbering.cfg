SPECIFICATION Spec
SYMMETRY Symmetry
CONSTANTS
    None = None
    d1 = d1
    d2 = d2
    d3 = d3
    s1 = s1
    s2 = s2
    A = A
    B = B
    Docs = {d1, d2, d3}
    Shops = {s1, s2}
    DefaultShop = s1
    Prefixes = {A, B}
    Imported = {1, 2}
    Settable = {0, 1}
    Tries = 2
INVARIANTS
    IInv
    NumbersUnique
PROPERTIES
    NoGaps
