SPECIFICATION Spec
CONSTANTS
  i1 = i1
  i2 = i2
  Catalog <- MCCatalog
  Percents <- MCPercents
  Rupees <- MCRupees
  Extras <- MCExtras
  MaxQty = 2
  MaxBills = 1
  MaxSteps = 6
INVARIANTS
  TillMatchesBooks
CHECK_DEADLOCK FALSE
