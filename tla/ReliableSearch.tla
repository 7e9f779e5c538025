--------------------------- MODULE ReliableSearch ---------------------------
(***************************************************************************)
(* Concurrent searches through ReliableBochaService: a monthly quota, a    *)
(* cost budget, a circuit breaker, a rate limiter and retries around one   *)
(* remote call.  All callers are coroutines of one event loop, so a step   *)
(* is what one of them does between two suspensions: waiting for the lock  *)
(* of the half-open breaker, for the rate limiter, for the answer, for the *)
(* next try.                                                               *)
(*                                                                         *)
(* Costs are counted in units of per_call_cost_cny.  A month does not end  *)
(* here: the counter of a new month starts at zero.                        *)
(***************************************************************************)
EXTENDS Naturals, FiniteSets

CONSTANTS
  Caller,            \* concurrent searches
  MonthlyLimit,      \* QuotaCounter
  CostLimit,         \* CostBudget, in calls
  FailureThreshold,  \* CircuitBreaker
  Cooldown,          \* ... in ticks
  MaxCalls, Window,  \* RateLimiter, in ticks
  MaxRetries         \* of one search

ASSUME SearchAssumption ==
  /\ IsFiniteSet(Caller) /\ Caller # {}
  /\ {MonthlyLimit, CostLimit} \subseteq Nat
  /\ {FailureThreshold, Cooldown, MaxCalls, Window, MaxRetries} \subseteq Nat \ {0}

VARIABLES
  suspended,   \* where a search is suspended
  path,        \* the branch of CircuitBreaker.call it took
  retries,     \* retries of the search so far
  breaker,     \* _state
  failures,    \* _consecutive_failures
  cooling,     \* ticks until _opened_at + cooldown_s
  taken,       \* for every age, how many entries of _timestamps have it
  used,        \* rows of this month in search_quota_log
  spent        \* CostBudget._spent_cny, in calls

callVars == <<suspended, path, retries>>
breakerVars == <<breaker, failures, cooling>>
meterVars == <<used, spent>>
searchVars == <<callVars, breakerVars, taken, meterVars>>

State == {"closed", "open", "half_open"}
Suspended == {"trial", "limit", "answer", "backoff"}

\* The entries a new acquisition counts: those not older than the window.
Recent ==
  LET sum[age \in 0 .. Window] == taken[age] + (IF age = 0 THEN 0 ELSE sum[age - 1])
  IN  sum[Window]

SearchTypeOK ==
  /\ suspended \in [Caller -> Suspended \union {"idle"}]
  /\ path \in [Caller -> {"closed", "half_open"}]
  /\ retries \in [Caller -> 0 .. MaxRetries - 1]
  /\ breaker \in State
  /\ failures \in 0 .. FailureThreshold
  /\ cooling \in 0 .. Cooldown
  /\ taken \in [0 .. Window -> Nat]
  /\ {used, spent} \subseteq Nat

SearchInit ==
  /\ suspended = [c \in Caller |-> "idle"]
  /\ path = [c \in Caller |-> "closed"]
  /\ retries = [c \in Caller |-> 0]
  /\ breaker = "closed" /\ failures = 0 /\ cooling = 0
  /\ taken = [age \in 0 .. Window |-> 0]
  /\ used = 0 /\ spent = 0

-----------------------------------------------------------------------------
\* Mutant: the quota is refused only after it is exceeded.
WouldExceedLate == used > MonthlyLimit

WouldExceed == used >= MonthlyLimit
OverBudget == spent > CostLimit

\* CircuitBreaker.state: an open breaker is half-open once it has cooled down.
Observed == IF breaker = "open" /\ cooling = 0 THEN "half_open" ELSE breaker

\* The half-open lock is held from the check after it to the end of the trial.
InTrial(c) == path[c] = "half_open" /\ suspended[c] \in {"limit", "answer", "backoff"}
LockFree == \A c \in Caller : ~InTrial(c)

Suspend(c, where) == suspended' = [suspended EXCEPT ![c] = where]

\* Nobody holds the lock or has been waiting for it.
LockAtHand == \A c \in Caller : ~InTrial(c) /\ suspended[c] # "trial"

\* quota and budget are checked, then the breaker; a refused search raises.
Search(c) ==
  /\ suspended[c] = "idle"
  /\ ~WouldExceed
  /\ ~OverBudget
  /\ Observed # "open"
  /\ breaker' = Observed
  /\ path' = [path EXCEPT ![c] = Observed]
  /\ retries' = [retries EXCEPT ![c] = 0]
  /\ Suspend(c, IF Observed = "closed" \/ LockAtHand THEN "limit" ELSE "trial")
  /\ UNCHANGED <<failures, cooling, taken, meterVars>>

\* With the lock: whoever waited tries too, unless the breaker is open again,
\* even when it has closed meanwhile.
BeginTrial(c) ==
  /\ suspended[c] = "trial"
  /\ LockFree
  /\ Suspend(c, IF breaker = "open" THEN "idle" ELSE "limit")
  /\ UNCHANGED <<path, retries, breakerVars, taken, meterVars>>

\* RateLimiter.acquire: at once, or after the oldest entry has left the window.
Acquire(c) ==
  /\ suspended[c] = "limit"
  /\ Recent < MaxCalls
  /\ taken' = [taken EXCEPT ![0] = @ + 1]
  /\ Suspend(c, "answer")
  /\ UNCHANGED <<path, retries, breakerVars, meterVars>>

-----------------------------------------------------------------------------
\* The end of a search that raised, on either branch.  How far the count is
\* beyond the threshold makes no difference.
Trip(c) ==
  /\ failures' = IF failures < FailureThreshold THEN failures + 1 ELSE failures
  /\ IF path[c] = "half_open" \/ failures + 1 >= FailureThreshold
     THEN breaker' = "open" /\ cooling' = Cooldown
     ELSE UNCHANGED <<breaker, cooling>>

\* A success on the closed branch resets the count and nothing else, even if
\* the breaker has opened since.
Reset(c) ==
  /\ failures' = 0
  /\ IF path[c] = "half_open"
     THEN breaker' = "closed" /\ cooling' = 0
     ELSE UNCHANGED <<breaker, cooling>>

Succeed(c) ==
  /\ suspended[c] = "answer"
  /\ Suspend(c, "idle")
  /\ Reset(c)
  /\ used' = used + 1
  /\ spent' = spent + 1
  /\ UNCHANGED <<path, retries, taken>>

\* BochaNetworkError, BochaServerError: again after a pause, without asking
\* the limiter, the quota or the breaker.
RetryLater(c) ==
  /\ suspended[c] = "answer"
  /\ retries[c] < MaxRetries - 1
  /\ retries' = [retries EXCEPT ![c] = @ + 1]
  /\ Suspend(c, "backoff")
  /\ UNCHANGED <<path, breakerVars, taken, meterVars>>

TryAgain(c) ==
  /\ suspended[c] = "backoff"
  /\ Suspend(c, "answer")
  /\ UNCHANGED <<path, retries, breakerVars, taken, meterVars>>

\* Any other error, or the last try.
GiveUp(c) ==
  /\ suspended[c] = "answer"
  /\ Suspend(c, "idle")
  /\ Trip(c)
  /\ UNCHANGED <<path, retries, taken, meterVars>>

\* A timeout of the tool cancels the search: CancelledError is no Exception, so
\* neither the breaker nor the meters hear of it.
Abandon(c) ==
  /\ suspended[c] # "idle"
  /\ Suspend(c, "idle")
  /\ UNCHANGED <<path, retries, breakerVars, taken, meterVars>>

\* Time passes for the cooldown and for the window.
SearchTick ==
  /\ cooling > 0 \/ Recent > 0
  /\ cooling' = IF cooling = 0 THEN 0 ELSE cooling - 1
  /\ taken' = [age \in 0 .. Window |-> IF age = 0 THEN 0 ELSE taken[age - 1]]
  /\ UNCHANGED <<callVars, breaker, failures, meterVars>>

CallStep(c) ==
  \/ Search(c) \/ BeginTrial(c) \/ Acquire(c)
  \/ Succeed(c) \/ RetryLater(c) \/ TryAgain(c) \/ GiveUp(c) \/ Abandon(c)

SearchNext == SearchTick \/ \E c \in Caller : CallStep(c)

SearchSpec == SearchInit /\ [][SearchNext]_searchVars

-----------------------------------------------------------------------------
\* The quota is read before a search and written after it, so searches that
\* overlap can exceed it together; but only those that were under way when its
\* last unit was taken, never more than the other callers.
OvershootIsBounded == used < MonthlyLimit + Cardinality(Caller)

\* A half-open breaker has one trial under way, however many searches found it
\* half-open, and a breaker closes only with less than the threshold of failures.
BreakerHolds ==
  /\ \A c, d \in Caller : InTrial(c) /\ InTrial(d) => c = d
  /\ breaker = "closed" => failures < FailureThreshold

SearchesStayInBounds == SearchTypeOK /\ OvershootIsBounded /\ BreakerHolds

=============================================================================
