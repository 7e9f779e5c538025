SPECIFICATION PaperSpec
CONSTANTS
  Order = {o1, o2}
  Draft <- Drafts
  Cash <- OneDeposit
  Level <- Levels
  MinimumFee = 1
  GrossPerFee = 2
  MaxGenerations = 2
  MaxLots = 4
  MaxQuotes = 3
  MaxTime = 4
CHECK_DEADLOCK FALSE
INVARIANT
  FrozenCashIsReserved
