SPECIFICATION Spec
CONSTANTS
  c1 = c1
  c2 = c2
  Clients <- MCClients
  StaffRoles <- MCStaffRoles
  MaxAccounts = 2
  MaxPasswords = 2
  MaxSessions = 2
  MaxCodes = 1
  MaxCommands = 3
SYMMETRY MCSymmetry
INVARIANTS
  SessionsFollowAccounts
CHECK_DEADLOCK FALSE
