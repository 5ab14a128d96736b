SPECIFICATION Spec
SYMMETRY Symmetry
CHECK_DEADLOCK FALSE
CONSTANTS
    None = None
    e1 = e1
    e2 = e2
    b1 = b1
    b2 = b2
    m1 = m1
    m2 = m2
    jan = jan
    feb = feb
    c1 = c1
    c2 = c2
    Employees = {e1, e2}
    Branches = {b1, b2}
    Periods = {m1, m2}
    Months = {jan, feb}
    Clients = {c1, c2}
    Salaries = {2}
    Amounts = {0, 1}
    MaxRequests = 5
INVARIANTS
    PaidRunsAreExpensed
    TotalsAreSums
    AdvancesRecoveredOnce
