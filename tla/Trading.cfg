SPECIFICATION TradingSpec
CONSTANTS
  \* the account
  Order = {o1, o2}
  Draft <- Drafts
  Cash <- OneDeposit
  Level <- Levels
  MinimumFee = 1
  GrossPerFee = 2
  MaxGenerations = 2
  MaxLots = 4
  MaxQuotes = 3
  MaxTime = 4
  \* the permissions
  Request = {q1, q2}
  MaxApplications = 2
  Key = {k1, k2}
  Market = {star, main}
  Profile <- Profiles
  Disclosure <- Disclosures
  RulesOf <- Rules
  main = main
  Null = Null
  MaxAccounts = 2
SYMMETRY TradingSymmetry
CHECK_DEADLOCK FALSE
INVARIANTS
  BooksBalance
  TakesDepthOnce
  PermissionFactsAgree
PROPERTIES
  NothingSoldOnItsFirstDay
  ClosedAccountsAreReadOnly
  PermissionsAreEarned
