SPECIFICATION Spec
CONSTANTS
  s1 = s1
  s2 = s2
  s3 = s3
  Shops <- MCShops
  Home = s2
  Default = s1
  Staff <- MCStaff
  Types <- MCTypes
  MaxOpens = 2
  MaxEvents = 2
INVARIANTS
  ShownIsActive
  OwnWritesShown
CHECK_DEADLOCK FALSE
