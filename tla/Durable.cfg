SPECIFICATION DurableSpec
CONSTANTS
  \* the notifications
  wake = wake
  toWorker = toWorker
  toScheduler = toScheduler
  Item = {i1, wake}
  Stream = {toWorker, toScheduler}
  StreamOf <- StreamOfItem
  Wake = {wake}
  Dispatcher = {d1, d2}
  Nobody = Nobody
  BatchSize = 2
  LockTimeout = 2
  RetryBase = 1
  RetryCap = 2
  MaxBackoff = 2
  MaxLength = 1
  MaxFaults = 2
  \* the tool calls
  w1 = w1
  r1 = r1
  s1 = s1
  Call = {w1, r1, s1}
  Safe <- MCSafe
  Repeatable <- MCRepeatable
  MaxTries <- MCMaxTries
  Cached <- MCCached
  Meaning <- MCMeaning
  MaxAttempts = 4
  Batch <- MCBatch
  FlagSeen = {TRUE, FALSE}
INVARIANTS
  BoundsHold
  AcknowledgedMeansDone
  UnsafeNeedsConsent
  OutcomeDescribesItsEpoch
  DoubtIsDecidedFirst
  QuestionsStayOpen
PROPERTIES
  LateRecordsChangeNothing
  EveryNotificationActs
  SettledCallsStaySettled
