SPECIFICATION Spec
CONSTANTS
  \* the Run and its browser
  MaxReconnect = 1
  MaxFacts = 4
  Watermark <- Marks
  MaxCommands = 1
  MaxTrouble = 1
  \* the batch of tool calls
  c1 = c1
  c2 = c2
  c3 = c3
  Order <- Calls
  GroupOf <- Groups
  NoGroup = NoGroup
  Repeatable = {c1, c2}
  MaxAttempts = 2
  MaxConcurrency = 2
  \* the searches
  Caller = {q1, q2, q3}
  MonthlyLimit = 2
  CostLimit = 3
  FailureThreshold = 2
  Cooldown = 1
  MaxCalls = 2
  Window = 1
  MaxRetries = 2
  \* the turn
  AskUser = ask
  Signature = {ask, read, trade}
  Risky = {trade}
  Unmatched = {trade}
  MaxBatch = 2
  MaxSteps = 3
  MaxBudget = 2
  Margin = 1
  MaxCost = 1
  BurnThreshold = 2
  MaxFailures = 3
INVARIANTS
  StreamIsFaithful
  BatchIsSafe
  SearchesStayInBounds
  TurnIsOrderly
PROPERTIES
  ViewMovesForward
  EndIsSeen
  BatchEnds
CHECK_DEADLOCK FALSE
