SPECIFICATION PermissionsSpec
CONSTANTS
  Request = {q1, q2}
  MaxApplications = 2
  Key = {k1, k2}
  Market = {star}
  Profile <- Profiles
  Disclosure <- Disclosures
  RulesOf <- Rules
  main = main
  Null = Null
  MaxAccounts = 2
SYMMETRY PermissionSymmetry
CHECK_DEADLOCK FALSE
INVARIANT
  RefusalEndsTheApplication
