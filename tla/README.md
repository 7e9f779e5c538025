# AlphaScout: TLA+ specifications and proofs

AlphaScout is a research assistant for Chinese equities. Chat requests, the
long-running work of the product, are executed by a *run control plane*: an API
that accepts Runs, a Scheduler that assigns them, Workers that execute them, and
a Dispatcher that carries notifications between them, all coordinated by rows in
PostgreSQL. An execution is a *chat turn*: a language model that asks for tools,
whose calls are scheduled, recorded in a ledger and, if they have side effects,
approved by the user; the browser follows it over a stream of events. Beside it
stands a *paper-trading* simulator with its own order book-keeping and the
permissions its orders need. This holds TLA+ models of all of these, their TLC configurations, and TLAPS proofs.

Paths below are relative to `src/backend/app/` unless they start with `src/`.

## 1. Inventory

### 1.1 The control plane

| component | state it keeps | operations |
|---|---|---|
| **Run API** `services/run_service.py`, `router/runs.py` | rows `runs`, `run_sessions`, `run_pauses`, `run_events`, `run_outbox` | create (idempotent by `request_id`, optionally replacing a waiting Run), cancel, resume |
| **Scheduler** `services/scheduling_service.py`, `processes/run_scheduler.py` | `run_attempts`, `run_tenant_scheduling` cursors, `runs.queue_reason` | recover expired Attempts, pick a tenant, a Run and a Worker, create the Attempt |
| **Attempt commands** `services/attempt_service.py` | `run_attempts` (status, lease, claim token), `run_tool_executions` | claim, renew, complete, pause, fail, acknowledge a cancel, reserve / complete / fail a tool execution |
| **Worker registry** `services/worker_registry.py` | `run_workers` (status, capacity, heartbeat) | register, heartbeat, drain, mark offline, list schedulable |
| **Worker process** `processes/run_worker.py`, `services/run_chat_worker.py` | asyncio tasks in flight, the cancel event, the renewal task | receive, claim, execute, renew, finish, drain |
| **Outbox and Dispatcher** `services/run_outbox.py`, `processes/run_dispatcher.py` | delivery columns of `run_outbox` (attempts, next time, lock) | claim a batch, publish, mark delivered / failed, retry |
| **Redis transport** `run_control/redis_transport.py` | streams with consumer groups | publish (with a length limit), consume, acknowledge and delete, recover pending |
| **Durable executor** `services/run_chat_worker.py`, `chatloop/run_executor.py` | continuation of a pause, answers of the user, ids of calls it has used | load, decide doubts, ask for consent, reserve, perform, record, pause, complete |
| **Tool ledger** `services/attempt_service.py`, `models/run_execution.py` | `run_tool_executions` (status, epoch, token, expiry of the reservation) | reserve, complete, fail, reject, find calls in doubt |
| **Event stream** `router/runs.py`, `services/run_stream_bus.py`, `src/frontend/src/hooks/useRunSSE.ts` | rows of `run_events`, a Redis Stream per Run, the cursor of the client, the state of the hook | replay, follow, reconnect, snapshot, cancel, resume |

The API never talks to a Worker. It writes facts and outbox rows in one
transaction; the Dispatcher delivers the rows at least once; a Worker that
receives a notification re-reads the facts and *claims* the Attempt, receiving a
token that fences every later command. All clocks are the database's
(`statement_timestamp()`), so a lease has one meaning for everybody.

### 1.2 Inside a process

| component | state it keeps | operations |
|---|---|---|
| **Chat loop** `chatloop/loop.py`, `gates.py`, `state.py` | messages, ledger of calls, steps, budget | boundary gates, model call, dispatch of a batch, merge of the results, forced conclusion |
| **Tool scheduler** `runtime/scheduler.py`, `dependencies.py`, `tasks.py` | the tasks of a batch: attempts, results, those in flight | validate the graph, fail dependents, launch, retry, collect, cancel |
| **Reliable search** `services/reliable_bocha_service.py`, `circuit_breaker.py`, `rate_limiter.py`, `quota_counter.py`, `cost_budget.py` | failures and opening of the breaker, recent calls, month's quota and cost | search, trial of a half-open breaker, wait for the limiter, retry, give up |

Each of them lives in one asyncio event loop: it is interrupted only where it
awaits, and whatever it has read before an `await` may be stale after it.

### 1.3 Paper trading

`services/paper_trading/*`, `tasks/paper_trading.py`. State: `paper_accounts`
(one active generation per user), `paper_orders`, `paper_match_passes`,
`paper_holding_lots`, `paper_lot_reservations`, `paper_cash_ledger`. Operations:
open, edit and reset an account; prepare, confirm, cancel an order; the periodic
tasks that open queued orders, match resting ones against a fetched quote,
expire them at the end of the day, and audit every account, suspending it on a
mismatch. A user, the chat executor (approved orders) and several task workers
act on the same rows; the quote is fetched before any row is locked.

`services/investor_suitability/*` and its router decide in which markets an
account may trade. State: `entitlement_applications`, `suitability_assessments`,
`risk_disclosure_acceptances`, `market_entitlements`, `market_access_rules`.
Operations: start and cancel an application, submit a profile, confirm; orders ask
for the entitlement, a reset opens an account without any. Each is one
transaction that locks, in order, an idempotency key, the application, the
account and the rules.

### 1.4 What is hard in them

* Interleavings of the API, several Scheduler transactions and several Workers
  on the same Run: a cancel against a claim, a completion against an expiry, a
  resume against a cancel.
* Crashes: a Worker dies holding claimed Attempts; a process dies between
  publishing a notification and recording that it was delivered.
* Delivery: notifications are duplicated, delayed, lost when a stream is
  trimmed or Redis restarts.
* Late answers: a Worker that was cut off for longer than its lease comes back
  with a result after its Attempt was declared lost and retried.
* Counted resources checked and consumed in different places: session
  exclusivity, tenant quotas, Worker slots.
* Side effects (tools) that must not be repeated by the retry of an Attempt.
* Fairness between tenants when several Schedulers move the same cursors, and a
  column (`runs.queue_reason`) with four writers and two readers.
* Money and shares set aside for one order, released, consumed or restored by
  fills, cancellations, expiries and resets in any order; a snapshot matched
  twice, late, or after a newer one.
* Tool calls whose outcome is unknown after a crash, whose reservation is shorter
  than the lease, and whose ids a fresh execution may issue again.
* A client that sees a replay, a live stream, a snapshot and replies to its own
  commands, in any order, each of them possibly lost or late.
* Tasks of one process that wait for each other: executions, cancel monitors,
  a shutdown with a grace period, group locks and slots of a batch of tools.
* Counters of one process (quota, breaker, limiter) that are read before an
  `await` and written after it.
* Conversations that the model refuses if one tool call has no answer, cut short
  by approvals, questions, budgets, burned calls and interruptions.
* Permissions decided on a profile, a rule and an account that each may change, or
  be reset away, between the request that read them and the one that acts.

### 1.5 What should hold

| component | what makes it correct |
|---|---|
| Run API | one active Run per session; a request id creates one Run; a cancelled Run has no other outcome; a resumed pause is resumed once |
| Scheduler | running quotas and Worker capacities are never exceeded; tenants take turns; nobody starves; an expired Attempt is retried once, then failed |
| Attempt commands | only the holder of an unexpired lease decides; every command is fenced by its token; two tables stay in step |
| Outbox, Dispatcher, Redis | a notification is not given up before its effect; a superseded Dispatcher changes nothing; every notification acts |
| Worker process | a dead Worker's Attempts are taken back; a shutdown ends; a cancellation stops the execution; no entry is acknowledged before its Attempt was claimed or refused |
| Tool ledger | a side effect is not repeated by a retry without the user's consent; a late outcome does not describe another epoch; doubts are decided before new work |
| Event stream | the client applies every fact once and in order, never goes back to an older status, and sees the end |
| Tool scheduler | no call before what it depends on, one at a time of a group, no side effect repeated; the batch ends with nothing running |
| Reliable search | the quota is exceeded by fewer calls than run at once; one trial at a time |
| Chat loop | every call has one answer before the model is called again; budgets and limits end the turn |
| Paper trading | money and shares are conserved; a reservation is what its order may still need; an order takes what a snapshot shows once |
| Market permissions | what is enabled was earned, by one application, under the rule of that moment; orders stand in enabled markets; a replay answers the same |

### 1.6 The rest of the repository

Listed in `PROJECT.json` under `components` with the reason each is not
modelled; section 6 sums them up.

## 2. Modules

| module | subject | lines | built on |
|---|---|---|---|
| `RunLifecycle` | abstract: what a client is promised of a Run | 61 | |
| `RunControl` | the tables and every transaction as one step; leases, tokens, processes, time | 672 | refines `RunLifecycle` |
| `RunTransactions` | the same transactions statement by statement, under row locks | 429 | refines `RunControl` |
| `RunDelivery` | outbox rows, Dispatchers, Redis Streams, consumers | 355 | |
| `SchedulerQueue` | turns of tenants, order of Runs, `queue_reason` | 365 | |
| `WorkerProcess` | the tasks of one Worker process, its shutdown, cancellation and recovery | 508 | |
| `ToolLedger` | the tool calls of a Run over its Attempts, consent and doubt | 437 | |
| `RunStream` | the event stream of a Run and the browser that follows it | 517 | |
| `ToolScheduler` | a batch of tool calls | 208 | |
| `ReliableSearch` | searches through quota, breaker, limiter and retries | 200 | |
| `ChatTurn` | one turn of the chat loop | 276 | |
| `PaperTrading` | one user's paper account in one security | 526 | |
| `MarketPermissions` | the applications of a paper account for markets, and what they enable | 390 | |
| `RunControlProofs` | theorems about `RunControl` | 1,868 | `RunControl`, TLAPS |
| `RunTransactionsProofs` | theorems about `RunTransactions` | 1,274 | `RunTransactions`, `RunControlProofs` |
| `DurableProofs` | theorems about `RunDelivery` and `ToolLedger` | 2,979 | those, TLAPS |
| `InProcessProofs` | theorems about `ToolScheduler`, `ReliableSearch` and `ChatTurn` | 2,436 | those, TLAPS |
| `RunStreamProofs` | theorems about `RunStream` | 2,827 | `RunStream`, TLAPS |
| `SchedulerQueueProofs` | theorems about `SchedulerQueue` | 526 | `SchedulerQueue`, TLAPS |
| `WorkerProcessProofs` | theorems about `WorkerProcess` | 2,061 | `WorkerProcess`, TLAPS |
| `TradingProofs` | theorems about `PaperTrading` and `MarketPermissions`, and on sums over finite sets | 4,979 | those, TLAPS |

Each `MC*` module gives the constants of its module their small values;
`MCInProcess` puts the four modules without shared state (`RunStream`,
`ToolScheduler`, `ReliableSearch`, `ChatTurn`) into one run, `MCDurable` puts
`RunDelivery` and `ToolLedger` into one, `MCTrading` `PaperTrading` and
`MarketPermissions`: each behaviour follows one of the components and leaves the
others in an initial state. The operators marked *Mutant* stand beside the operator they distort; they show what a plausible
mistake would do and no specification uses them.

Composition: `RunTransactions` EXTENDS `RunControl`, reuses its guards and
actions inside its own statements, and has `RunControl`'s `Spec` (as
`Serializable`) for a property; so what holds of `RunControl` holds of every
interleaving of the locked statements. `RunLifecycle` is instantiated in
`RunControl` under a refinement mapping (`PhaseOf`, and `retryCount` for
`restarts`). `RunDelivery` justifies the one thing `RunControl` assumes of the
network, that a `Claim` or an `AcknowledgeCancel` may happen at any time after
its row was written, any number of attempts later or never. `ToolLedger` and `WorkerProcess` take the same
view from the other side: they keep of the tables only the authority of an
Attempt (running, newest, lease valid) and let it end at any time, which is what
`RunControl` shows the tables may do.

### 2.1 RunControl

| state | code |
|---|---|
| `runStatus`, `retryCount` | `runs.status`, `runs.retry_count` |
| `attemptNo`, `attStatus`, `attWorker`, `token`, `lease` | `run_attempts`: the highest `attempt_no`, `status`, `worker_id`, `claim_token`, `lease_expires_at` as remaining ticks |
| `issued` | tokens ever generated for an Attempt (a fresh token is `issued + 1`) |
| `pauseNo`, `pause` | `run_pauses.pause_no` and the state of the newest pause |
| `assignedMsg`, `cancelMsg` | `run_outbox` rows `attempt.assigned`, `attempt.cancel`: pending or acknowledged |
| `workerStatus`, `heartbeat` | `run_workers.status`, `last_heartbeat_at` as remaining ticks |
| `process`, `executing` | the Worker processes; the executions they run and the token each holds |

Actions: `CreateRun`, `CancelRun`, `ResumeRun` (API); `Schedule`, `Recover`
(Scheduler); `Claim`, `Renew`, `Complete`, `Pause`, `Fail`,
`AcknowledgeCancel` (Attempt commands); `Abandon` (an execution that ends
without a fact); `Register`, `Heartbeat`, `Drain`, `Stop`, `Crash` (processes);
`Tick`. A process that misses a cancellation or its lease may go on executing
and present its token as late as it likes: a zombie is an element of
`executing` whose Attempt has been finished by somebody else. `Stop` writes
`offline` and leaves executions to die with the process. `MaxPauses` bounds how
often one Run pauses, which bounds Attempts by `MaxPauses + 2`.

### 2.2 RunTransactions

A database session has a statement to run (`pc`), what its earlier statements
found (`run`, `batch`, `worker`) and the rows it has locked (`held`). A
statement reads what is committed when it runs (READ COMMITTED); one that needs
a row waits for its holder, or skips it where the code says SKIP LOCKED. Any
transaction may be rolled back at any statement, which also covers the
cancellation's third failed rediscovery. Transactions that lock one row and
decide on it are one step. The shared key locks of foreign keys are left out (they
conflict with no statement modelled), and the clock stands still between a
Scheduler's recount and its insert, two adjacent statements.

The quota of *queued* Runs is checked at admission and nowhere else: recovery
may requeue a Run between the check and the insert. It is not stated as an
invariant, and the instances leave room for it; section 4.2 says what remains without.

### 2.3 RunDelivery

`ClaimBatch`, `Publish`, `PublishFails` (refused, or performed but reported as
failed), `Mark` (mark_delivered or mark_failed, fenced by owner and claim
generation), `DispatcherCrash`; `Read`, `Handle`, `Discard` and `Reconnect`
(pending entries are read again) at the consumer; `LoseStream` (Redis loses its
data), `Withdraw` (the fact makes the row moot) and `Tick`.
`delivery_attempts` is the claim generation, compared for equality only, and the
exponent of the retry delay: the model keeps the two uses apart, which makes the
first finite by re-using numbers nobody remembers. An entry that is trimmed is
gone; its row is claimed again when its time comes.

### 2.4 SchedulerQueue

A Scheduler's cycle is cut where it depends on others: `See` (the tenants with
queued Runs and their places, of one snapshot), `LockCursor` (SKIP LOCKED),
`Decide` (its Run and a Worker), `Place` or `PersistBlock`; `Abort` ends it anywhere. `turn[t]` is
the place of `t` in the order of `last_dispatched_at`, `age` the time since `queued_at`, and the head start of
resumed Runs is `Boost` ticks. `overtaken[t][u]` is a history variable: slots `u`
got while `t` waited. An `absent` Run stands for all Runs still to come, so the
queue never drains for lack of work.

### 2.5 PaperTrading

Each transaction is one step: it locks the order and then the account until it
commits. A quote is a snapshot with a number; matching may use any snapshot
shown so far, which is what fetching before locking allows. A trading day has
three ticks (before the open, continuous trading, after the close). Fees are a
minimum or a proportion of the cumulative gross. An order stands for its
idempotency keys. A snapshot shows one level of one side. A market order is a
limit order at the daily bound, accepted only in continuous trading. The expiry
batch takes any nonempty subset of the due orders (SKIP LOCKED) and fails as a
whole. `MaxLots` bounds the lots of a generation; the instances have room for all their
orders can buy. Left out: rounding to cents, market permissions, several
securities, and the projection of fills to the portfolio tables.

### 2.6 ToolLedger

`row` is `run_tool_executions` by call: status, the Attempt and the epoch of its
last reservation, and whether that reservation is still valid. A token is as good
as the epoch it was issued with. An execution (`pc`, one per Attempt, zombies
included) first decides the calls in doubt (`FindRecoveries`, `AskAboutDoubt`,
`Refuse`), then asks its model and, if need be, the user (`Think`), reserves its
batch call by call (`Reserve`), performs it (`Perform` is one run of a tool) and
records the outcomes (`Record`), or ends by a crash, a lost authority, a rejected
command or a pause. Around it the Run is claimed, answered, recovered and
cancelled as in `RunControl`. `consents` and `effects` are history variables:
how often the user allowed a call, how often its effect took place under each
epoch.

A reservation may pay for more than one run: `DurableToolHub` hands the batch to
`ToolHub`, whose `TaskScheduler` runs a read-only or idempotent tool again after a
timeout or a transient error, up to `max_attempts`, all under one epoch
(`ShouldRetry`, with `tries` as the counter of the loop; `ToolScheduler` has the
loop itself, with its slots and groups). `Repeatable` and `MaxTries` are what
`tool_runtime_policy.py` says of the tool of a call: `_READ` tools have two runs,
every other tool one, so whatever changes something runs once. Whether a call needs
consent is another question, decided by the catalog in `run_chat_worker.py`:
`web_search`, `kb_search` and most reading tools are not in it, so one consent may
pay for two runs of them. `Cached` are the calls of the plain registry tools,
which `ChatloopToolAdapter` may answer from the turn's ledger or the result cache
without running anything.

Calls with the same tool and arguments share a `Meaning` (the `semantic_key`). It
decides nothing where the tools of the safe catalog are the same for both calls;
`reserve_tool_execution` asks for it all the same. `FlagSeen` says whether the continuation of a pause may be loaded at all (finding 1); the
run allows both.

### 2.7 WorkerProcess

`phase` is where `run_forever` and `stop` are: polling, reconnecting, executing a
recovered entry inline, stopping within the grace period, cancelling what is
left, writing `offline`, gone. Each assignment has its entry in the stream, the
position of its handler (`pc`), its execution (`exec`), its cancel `monitor` and
the cancel asked for. Redis or the database may fail at any call (`trouble`). Left
out: the restart of the heartbeat task, the health file, entries with an invalid
envelope.

### 2.8 RunStream

The server's generator `_event_stream` is the record `reader`: it lists the
facts after the cursor, reads the status, lists the tail, follows the Redis
stream, and goes round. `wire` is what it has sent. The hook of the browser is a
position (`pc`) and its refs: the `generation` of the newest command, the
in-flight flag, the attempts of the reconnection. `calls` are the HTTP requests
and replies under way. A status is known by the number of facts it reflects, which
makes *older* and *newer* precise; a live entry carries a watermark
(`durable_seq`), and both kinds are checked. Left out: malformed entries, the
content of messages, another active Run of the session, the change of the session,
the paging of the history.

### 2.9 ToolScheduler

`needs` (hard) and `awaits` (soft) are the dependencies of a batch, chosen among all graphs;
`Validate` refuses what `DependencyResolver` refuses. `Plan` is one round of the
loop of `run`: fail dependents, end, or launch what is ready; `Collect` takes
what has returned. A task enters its group (`EnterGroup`), takes a slot, returns,
and is retried (`FinishAttempt`). `Cancel` may come at any time. Left out: how
references to results are substituted into arguments, missing tools, events.

### 2.10 ReliableSearch

A search is suspended where the code awaits: at the half-open lock, in the
limiter, in the request, before a retry. Between two awaits it is one step.
Quota and cost are read in the first and counted in the last. `Abandon` is the
cancellation of a search by the timeout of its tool.

### 2.11 ChatTurn

The conversation is a sequence of roles and calls; a ledger holds the calls with
their outcome by signature. `Boundary` are the gates before a step, `CallModel`
any batch of the model, `RunTools` the dispatch with approvals, burned calls,
budget and interruption, `Decide` what the turn does when it is continued by
another process from its snapshot. `Unmatched` are signatures whose arguments
the ledger records in another form than the model gave them (see 5).
Consecutive messages of the user count as one, and the order of successful
results is left out.

### 2.12 MarketPermissions

`applications` are the rows of `entitlement_applications`, each with its last
assessment and the disclosure it accepted; `enabled` are the entitlements and
`bought` the markets of the orders, by generation of the account. A request is a
transaction: `step` is the statement it runs next, `call` what it asks for,
`locked` its advisory and row locks, all of which end with it. The last lock, the
decision and the commit are one step, for nobody can interfere any more. `told` is
a history variable: what a confirmation has answered. A refused confirmation
(`ConfirmRefused`) is the service and its route together: write, raise, roll
back. An order (`BuyInMarket`) is seen only in that it asks for the entitlement
under the lock of the account, a reset in that it opens the next generation.
`AmendRule` is external: no code changes a rule, but `confirm` is written to
find it changed. The rules are one lock here (`RuleRows`), several rows in the
code: `_locked_current_rules` locks the rows of all markets in one statement,
behind the lock of the account, so the requests of this model, which are of one
account, never hold a part of them. Left out: the risk level, which decides
nothing, the lists, suspended accounts, and entitlements that are restricted or
revoked, which nothing writes.

## 3. Runs

| run | asks | instance | distinct states |
|---|---|---|---|
| `control` | do the tables stay in step, are claims fenced, are outcomes final, and does everything that hangs get unstuck, under crashes, zombies and lost notifications; is it what `RunLifecycle` promises | 1 Run, 2 Workers of 1 slot, 1 pause, lease 2, heartbeat 1 | 272 K |
| `cancel` | creation, cancellation, scheduling, recovery and two commands on one Run: serializable? deadlocks? | 1 Run, 6 sessions, 1 pause | 427 K |
| `quota` | two Schedulers and a creation against quota 1 and a shared session: serializable? | 3 Runs (2 in one session), 2 slots, 1 pause | 329 K |
| `worker` | two Schedulers, two recoverers and a command against one slot | 2 Runs of 2 tenants | 252 K |
| `durable` (delivery) | does every assignment and cancellation act; what may a late record do | 1 assignment and 1 wake-up, 2 Dispatchers, streams of length 1, 2 faults | 1.28 M |
| `durable` (tools) | is a side effect performed without consent or oftener than a reservation pays for, a call recorded under the wrong epoch, a question forgotten | a write, an unsafe read with 2 tries and kept answers, a safe call; 4 Attempts | (above) |
| `queue` | how often may a tenant be overtaken; does every queued Run get its turn | 3 Runs, 2 tenants, 1 Scheduler that may die, 1 slot, head start 1 | 439 K |
| `continuation` | does a resumed Run go on from its pause | 3 Runs, 1 slot | **violated**, finding 1 |
| `process` | does a shutdown end, a cancellation stop the execution; is an entry lost or an execution left alone | 2 assignments, 2 failures | 549 K |
| `inprocess` | stream, batch, searches and turn, each on its own | see below | 1.07 M |
| `trading` (account) | are money, shares, reservations and market depth conserved | 2 orders of 3 kinds, 2 generations, 3 snapshots, 4 ticks | 2.06 M |
| `trading` (permissions) | is every entitlement earned, under the rule of its moment, and every order permitted | 2 requests, 2 applications, 2 keys, 2 markets, 2 generations | (above) |
| `paper_frozen` | is frozen cash what the orders reserve | the account of `trading` | **violated**, finding 2 |
| `refused` | has an application ended that was refused | the permissions of `trading`, 1 market | **violated**, finding 3 |

What the properties say is in the comment above each; in short:

* `TablesAgree`: types, and Runs, Attempts, claims, outbox and pauses tell one
  story. `ImplementsLifecycle`: the refinement of `RunLifecycle`.
  `CancelTakesEffect`, `StrandedAttemptsResolve`: liveness. `CancelIsFinal`,
  `OnlyLeaseHolderDecides`: what a step may not do.
* `LocksHold`: row locks are exclusive and nobody waits in a circle.
  `Serializable`: the locked statements implement `RunControl`.
  `OneActiveRunPerSession`, `WorkerNotOversold`.
* `AcknowledgedMeansDone`, `LateRecordsChangeNothing`, `EveryNotificationActs`,
  `BoundsHold` (the retry delay included).
* `RoundRobin`: a waiting tenant is overtaken at most once per Scheduler.
  `NobodyStarves`: under one Scheduler, every Run that stays queued is served.
* `UnsafeNeedsConsent`, `OutcomeDescribesItsEpoch`, `DoubtIsDecidedFirst`,
  `QuestionsStayOpen`, `SettledCallsStaySettled`.
* `NothingDroppedUnclaimed`, `OrphansExplained` (an execution is left alone only
  in the two ways section 5 names), `StopsUnlessInline`, `CancelStopsExecution`.
* `StreamIsFaithful` (reconnections are spent on trouble only, included),
  `ViewMovesForward`, `EndIsSeen`; `BatchIsSafe`, `BatchEnds`;
  `SearchesStayInBounds`; `TurnIsOrderly`.
* `BooksBalance` (cash, shares and reservations), `TakesDepthOnce`,
  `NothingSoldOnItsFirstDay`, `ClosedAccountsAreReadOnly`; `PermissionFactsAgree`
  (what every state of the permission tables satisfies), `PermissionsAreEarned`
  (what a step may do to them).

Why these bounds are enough to be interesting:

* `control`: two Workers let a zombie of the first race the retry on the second;
  a lease longer than a heartbeat separates *expired* from *presumed dead*; one
  pause gives three Attempts: first, resumed, retried. The properties that
  relate several Runs (session, quota, capacity) need several Runs and are
  checked in `quota` and `worker`, and proved for every number.
* `quota`: with quota 1 and two free slots, the quota alone stands between
  two Schedulers and an excess; `worker`: with two tenants, one slot alone does.
* `durable`, delivery: a stream of length 1 is trimmed by the next publication; two faults
  make a crash and a loss of Redis, or a refusal and a take-over.
* `queue`: two tenants, one of them with two Runs, a head start that lasts as long
  as one Run may wait. With a second Scheduler `NobodyStarves` does not hold: a
  tenant whose cursor one of them holds is skipped by the other, which may take the
  slot, and again.
* `durable`, tools: four Attempts are the first, one resumed after consent, one after a
  doubt, and the retry. The calls are one of each kind the policy and the catalog
  tell apart: a write with one run (as `place_paper_order`), a read outside the
  catalog with two runs (as `web_search`), a call of the catalog (as `memory_search`).
* `process`: two assignments fill the process, so one waits while one executes;
  two failures separate a Redis that hangs from an acknowledgement that fails.
* `inprocess`: a stream of four facts (so a pause, its resumption and the end),
  two live entries with watermarks 0 and 3, one command, one loss, one
  reconnection; three tool calls with every dependency graph, two of them in one
  group, one not repeatable, two slots, two attempts; three searches against a
  quota of 2, a threshold of 2 and a window of 2 calls; a turn of three steps
  of up to two calls, budget 2 with margin 1, burn threshold 2, three failures.
* `trading`, account: an order of two shares fills in two parts, from two snapshots; a
  deposit of 9 pays for two orders but not with any fees; four ticks reach the
  second day, when yesterday's lots may be sold.
* `trading`, permissions: two requests race for a key, an application, or a market
  that two applications ask for; two markets, one whose rule may be tightened,
  keep a wrong market apart from the right one; a reset between submission and
  confirmation leaves an application of a generation that is gone.

Deadlock is checked everywhere but in `inprocess` (a turn, a batch and a stream
end) and in the trading runs, where the calendar ends at `MaxTime` and the
applications run out; in `durable` it is checked for the delivery, while a Run
may end. Symmetry is used in the trading runs only, which have no liveness
property.

### Fairness

* `RunControl`: time passes and the Scheduler's periodic recovery runs
  (`processes/run_scheduler.py` loops for ever). Nothing is assumed of users,
  Workers, delivery, or even of assignment. From that alone a recorded
  cancellation takes effect, an unclaimed assignment is resolved, a dead Worker's
  Attempts are released.
* `RunDelivery`: time passes, Dispatchers poll, consumers read and handle what
  they hold; faults are bounded, since a fault at every attempt delivers nothing.
  No Dispatcher is assumed to be faster than its lock timeout.
* `SchedulerQueue`: Schedulers poll, assigned executions end (`control` shows that
  the lease ends them if nothing else does). `MaxDisturbances` bounds Schedulers
  that die and Runs cancelled between the lock of the cursor and the lock of the
  Run. Without that bound a tenant whose Runs are created and cancelled just so,
  for ever, does keep the others from being served.
* `WorkerProcess`: the event loop runs every task that can run, Dispatchers
  publish a cancellation again until it is acknowledged (`durable`). Nothing says
  that an execution ends by itself, that a shutdown or a cancellation comes.
* `RunStream`: the server and the event loop of the browser go on; nothing says
  that the Run ends, that entries are published or that the user does anything.
* `ToolScheduler`: the event loop goes on, and every tool has a timeout, so every
  attempt ends.
* Expiry of paper orders is a periodic task whose batch fails as a whole, and
  an order that cannot be released fails it; no liveness is claimed.

## 4. Proofs

TLC checks the instances of section 3; the theorems hold for every value of the
constants that satisfies the named assumption of the module they are about.

### 4.1 RunControl

`RunControlProofs` proves, for every set of Runs, Sessions, Tenants and Workers
(finitely many Runs, quotas and capacities natural numbers: the assumption
`ConstantsAssumption` of `RunControl`):

| theorem | statement |
|---|---|
| `TypeCorrect` | type invariant |
| `AttemptAndRunAgree` | the newest Attempt of a Run has the status the Run's calls for, older ones are lost or paused |
| `ExecutionsAreBounded` | Attempts = 1 + resumed pauses + at most one retry |
| `ClaimsAreFenced` | a live token belongs to a running Attempt; an old one is never valid again |
| `OutboxIsExact` | a notification is pending exactly while it is called for |
| `PausesMatch` | an unresolved pause exactly while the Run waits |
| `TablesStayInStep` | the five above together: `TablesAgree`, the property of run `control` |
| `SessionsAreSequential`, `QuotaHolds`, `CapacityHolds` | one active Run per session, quotas and capacities never exceeded |
| `TerminalRunsStay`, `CancellationIsFinal`, `LeaseHolderDecides` | action properties: outcomes are final; a cancelled Run only stops; only the holder of an unexpired lease decides |
| `RefinesLifecycle` | every behaviour is one of `RunLifecycle`, fairness apart |
| `AttemptsOnlyMoveOn` | an Attempt never goes back in its life, has one Worker for good, is claimed only when assigned, and gets no token and no longer lease once it is over |
| `LastLeasesRunOut`, `RecoveryIsAlwaysDue` | what nobody may renew runs out with the ticks, and recovery takes what has run out |

The argument is one inductive invariant,

    Facts == TypeOK /\ AttemptsPaidFor /\ AttemptMatchesRun /\ ClaimFence
             /\ OutboxMatchesFacts /\ PauseMatchesStatus
             /\ OneActiveRunPerSession /\ ExecutorsAlive
             /\ TenantWithinQuota /\ WorkerNotOversold

`TypeOK` alone is not inductive: that a new Attempt has a number within
`MaxAttempts` needs `AttemptsPaidFor`. The action properties need
`AttemptMatchesRun` (a live Attempt is the newest one of its Run, so a command
never touches a Run that has moved on), and the refinement needs it to know that
the Run of an expired Attempt is executing or stopping. Each conjunct has one
lemma, `...Step`, with one step per action (`StepCases` splits `Next`);
`BackgroundFrame` disposes of the steps that touch no Run. Counting arguments
are in `QuotaKept` and `CapacityKept`: a set that gains one element after a
check with `<` stays within the bound, one that shrinks stays there.

The last two theorems are what `CancelTakesEffect` and `StrandedAttemptsResolve` rest on,
fairness apart. An Attempt that is not claimed yet, whose Run is being cancelled, or
whose process is gone is `OnItsLastLease`: it stays so until it ends, no heartbeat
extends the lease, every tick shortens it, at 0 it is `Recoverable` whatever the status
of its Run, and a recovery ends it, and a Run that was to be cancelled with it. A Run
that is being cancelled has such an Attempt. Ticks and recoveries are all that the
fairness of the model assumes.

### 4.2 RunTransactions

`RunTransactionsProofs`, for any database sessions, each of one kind
(`TransactionsAssumption`: a name stands for a session while it serves one kind of
transaction), and the constants of `RunControl`:

| theorem | statement |
|---|---|
| `LocksAlwaysHold` | a row has one holder, who gives it back with its transaction; nobody waits in a circle |
| `TransactionsAreAtomic` | every statement is one whole transaction of `RunControl` or changes nothing; only the queued quota is not looked at again |
| `TransactionsSerialize` | if a tenant may queue all its Runs (`RoomForRequeued`), `Serializable`: every interleaving is an execution of `RunControl` |
| `SessionsStaySequential`, `WorkersStayWithinCapacity`, `CommitsKeepTheTables` | the invariants of 4.1, and the running quota, statement by statement |
| `CommitsKeepThePromises` | the action properties of 4.1, statement by statement |

`TxInvariant` says for each kind of session which rows it holds at each of its
statements and what it has read there that still holds (`ClientOrderly`): a creator
that nobody else has inserted its Run, a Scheduler that its Run is queued, its tenant
has a slot and its Worker one too, a recoverer that its Attempts are live. That the
reads stay true is an argument in two halves. `Respects(c)` is what the locks of `c`
keep others from: the Runs and Attempts it holds, new Runs of a tenant it
holds, new active Runs under a cursor it holds, new Attempts on a Worker it holds.
Every commit respects every other session (`AssignRespects`,
`RecoverRespects`, ...), since it writes only what it has locked itself; and a session
that is respected and does nothing stays orderly (`Undisturbed`). Then each
write finds the guard of its `RunControl` action true, and the commit is that action.

There is no circle of waiting sessions: in any set of sessions somebody waits for no
row that another one of the set holds (`NobodyWaitsInACircle`). That is one that
does not wait, if there is one: a Scheduler takes only Workers nobody holds (SKIP
LOCKED). If all wait, it is one that waits for a tenant, since whoever holds a tenant
waits for nothing; else a recoverer, since of those who wait only recoverers hold
Runs, and a Run that one wants and another holds would have two live Attempts; else one
that waits for a Run, now that nobody holds one; else all wait for Attempts and
hold none.

`RoomForRequeued` is needed and not assumed elsewhere: recovery may requeue a Run
between the check of the queued quota and the insert, and the tenant has one Run more
in its queue than it may. That is an interleaving the code allows, so
`TransactionsAreAtomic` lets an admission go through without that guard (`Admit`);
all invariants and action properties of 4.1 hold with it.

### 4.3 RunDelivery

`DurableProofs`, for finitely many items and Dispatchers and any bounds
(`DeliveryAssumption`):

| theorem | statement |
|---|---|
| `NothingGivenUp` | an assignment or cancellation that was acknowledged had its effect |
| `ClaimsAreFencedOff` | no two Dispatchers in the middle of a batch hold a row in one generation |
| `LateRecordsAreVoid` | a claim is ended by its owner's record or its timeout only |
| `DeliveryStaysInBounds` | rows, batches and streams keep within their bounds, retry delays double up to the cap; types |
| `DelayDoubles` | what `_retry_delay` computes is `min(base * 2^(n-1), cap)`, for all numbers |

The fence is the invariant (`ClaimsTyped`, `IdleIsEmpty`, `OncePerBatch`,
`Fence`). `_lock_owned_item` compares `claimed_by` and `claimed_at`, which the
model renders by a generation out of finitely many; `FreshGenerationExists` shows
by a pigeonhole that a generation nobody holds is always at hand, so the
finiteness hides no reuse of a claim.

`_retry_delay` compares the exponent with the bit length of `cap // base`, so that it
never forms a power it would cut off. That this is exact is a fact about powers of 2,
which no prover here knows: it takes an induction over the natural numbers, and that
the library states with an operator for a parameter. `NatInductionOnSet` states it with
a set of numbers in its place and derives it from the well-foundedness of `<`. That
powers grow and double (`PowersGrow`, `PowersDouble`) comes from counting: 2^n is
the number of subsets of `1 .. n`, of which those without n are half.

### 4.4 ToolLedger

`DurableProofs`, for any finite set of calls, any catalog of safe tools, any policy
of retries and kept answers, any meanings, batches and number of Attempts, and whether or not the continuation of
a pause can be loaded (`ToolLedgerAssumption`):

| theorem | statement |
|---|---|
| `ConsentIsNeverOverdrawn` | a call outside the catalog acts under no more epochs than there were consents, and one of a tool with a single run at most once for each |
| `OutcomesAreTrue` | a reservation pays for at most `max_attempts` runs of a repeatable tool and one of any other; a completed row describes a run under its own epoch, or a kept answer; types |
| `DoubtComesFirst` | an Attempt with authority works only after every call in doubt was decided |
| `QuestionsAreStable` | a late execution gives no outcome to a call the user is being asked about |
| `SettledIsFinal` | no step writes the row of a completed call, nor of an unsafe one that failed |

None of them is inductive. `LedgerInvariant` adds that a batch holds a call once
and never one of an earlier batch (`Batches`), so that an Attempt reserves a call
at most once and the epoch of a row stays within the number of Attempts and, while
the call is still to be reserved, below it (`EpochsCount`); that what an execution
was told is what the user answered (`Answers`); that the consents of a call
suffice for its reservations and, if an answer about a doubt is still to be acted
on, for one more (`Allowed`); that reservations have one holder, that as long as
there is no answer their effects are no more than the tries it has made, and these
fewer than it may make (`Effects`); and that doubts are found before
anything else (`Doubts`). Each step has a lemma; `EndKeeps` covers the seven ways
in which an execution ends, `AuthorityLost` the three in which the tables take its
authority, `DecisionFrame` what the decisions about doubts leave alone.

### 4.5 MarketPermissions

`TradingProofs`, for any requests, keys, markets, profiles and rules and
any number of applications and generations (`PermissionsAssumption`):

| theorem | statement |
|---|---|
| `PermissionFactsHold` | an application is completed iff it enabled its market, once per account; a key names one application; orders stand in enabled markets; types |
| `PermissionsEarned` | a step enables a market only for the active account and by the rule of that moment, and takes nothing back |
| `PermissionsNeverDeadlock` | of any requests, one waits for no lock that another one of them holds |

`PermissionFactsAgree` is not inductive: a request in the middle of its transaction
relies on what it has read. `PermissionsInvariant` adds what each lock protects
from the moment it is taken (`Underway`): nobody else has used the key
(`Starting`, `Keyed`), the application stays open (`Opened`), the account stays
the one of the application (`Settled`), and no two requests hold one lock
(`LocksExclude`). `WriteEnds` is the heart of it: a request that writes an
application writes what it has locked, so that the others rely on nothing of it.
Taking the lock of the account out of the reset, or of the key out of `confirm`,
leaves exactly the step unproved that needs it.

That no requests wait for each other is the order of the locks: keys, application,
account, rules. What a request holds tells how far it has come (`LocksFollowSteps`), so
in any set of requests one that has come furthest waits for none of the others.

### 4.6 SchedulerQueue

`SchedulerQueueProofs`, for any tenants, Runs and Schedulers, finitely many each
(`QueueAssumption`):

| theorem | statement |
|---|---|
| `TurnsAreFair` | a tenant that waits is overtaken by any other at most once per Scheduler |
| `QueueInvariantHolds` | types; places are distinct; a Scheduler holds the cursor it locked, of a tenant it has seen |

The count of `RoundRobin` says nothing of what is under way. `OvertakingIsSpent`
adds to what `u` has overtaken of `t` the Schedulers that may still do it
(`Overtakers`: they have locked `u`, or saw it before `t`), as long as `u` comes
after `t`; the sum stays within the number of Schedulers, because a Scheduler that
looks again sees `t` first, and a tenant that was served goes behind everybody.

### 4.7 PaperTrading

`TradingProofs`, for any orders (finitely many), drafts, prices, depths and
fees, and any number of generations, lots, snapshots and ticks (`PaperAssumption`):

| theorem | statement |
|---|---|
| `BooksAlwaysBalance` | cash, shares, reservations and open orders of every generation balance; types, so that nothing is negative |
| `DepthIsTakenOnce` | an order takes from a snapshot at most its depth, and has filled what it took |
| `SharesSettleOvernight` | no step sells a share on the day it was bought on |
| `ClosedAccountsStayClosed` | no step does business in an archived or suspended account |

`BooksInvariant` is `BooksBalance` with four more parts. `OrdersFit`: an order
belongs to an account and trades only once it is on the books. `AccountsInOrder`: only
after an archived generation comes another, so a reset never overwrites one.
`LotsReserved`: what a sell order holds lies in lots of its generation bought on an
earlier day, which is why the fill need not look at days. `PassesFit`: an order
passes a snapshot once. Each action has a lemma (`...Keeps`).

All of it is about sums over orders, lots and passes. The library's induction over
finite sets takes an operator; `SetInduction` states it with a set of sets in its
place and derives it from the well-foundedness of the strict subsets
(`FS_StrictSubsetOrderingWellFounded`, `WFMin`). From it follow, for
`SumFunctionOnSet` of the community modules, the lemmas that the proofs use:
a sum is taken apart at any element (`SumElement`), changes with one term
(`SumChange`), splits (`SumSplit`), shrinks term by term (`SumDifference`), and so on.
`Taken` says what `TakeInTurn` takes: all that is asked for, and of no lot more
than it has free. `FeeGrows` and `WorstCostIsNat` say that fees are cumulative.

The audit of the code demands one thing more, which does not hold (finding 2).

### 4.8 Inside a process

| theorem | statement |
|---|---|
| `BatchesAreSafe` | for any batch, graph, groups and limits: no call before what it needs, one at a time of a group, no more than the slots, side effects once, nothing left running |
| `BatchesNeverHang` | a batch with open tasks has one that runs or can go on; no lock and no slot is waited for in vain |
| `BatchesAreBounded` | every step of a batch is one of at most `StepLimit` steps |
| `TurnsAreOrderly` | for any tools, batches, limits and costs: every call of the model has its one answer before the model is asked again, nothing risky runs without consent to this very call, what is burned stays burned, the budget is exceeded by less than two model calls |
| `SearchesBounded` | for any number of callers and limits: one trial at a time, a breaker closed below its threshold only, the quota exceeded by fewer calls than there are callers |

`BatchIsSafe` is a statement about executed tasks; what makes it inductive is that
it holds from the launch on (`LaunchedAreReady`) and that no task with a result is
running (`RunningAreOpen`). `BatchEnds` is a property of liveness; without fairness it
comes down to two facts. A batch goes on: the graph, once accepted, is acyclic, so among
the open tasks some need none of the others (a set without such a task would be a
circle), and a coroutine that waits for its group or a slot waits for one that can
go on itself. And every step counts: `Progress` adds up the stages and attempts the
tasks have passed, none of which is ever undone. So a batch that takes every
step it can ends after finitely many.

`SearchesStayInBounds` rests on `EveryoneCounted`:
once the quota is used up nobody new enters, so what is used plus what is
under way stays below the limit plus the number of callers.

`TurnIsOrderly` speaks of the moments when the model is asked. In between, the
conversation is in form up to the messages that the calls under way are owed
(`Conversation`, by the operator `ResultMessages` that later writes them), so each
way of cutting a batch short has to show that it writes exactly those.
`BurnedAreKnown` says that a call with enough failures is in the set of burned ones
by whatever step one counts; with no entry of a step still to come (`EntriesFit`)
that makes `BurnedStaysBurned` last. `TurnFits` is the arithmetic of steps and budget
at each position of the loop.

### 4.9 RunStream

`RunStreamProofs`, for any number of facts, live entries, commands, reconnections
and faults (`StreamAssumption`):

| theorem | statement |
|---|---|
| `StreamsAreFaithful` | the browser applies every fact once, in order and without a gap; live entries in order, once, after the facts of their watermark; a stream the server ends has carried every fact; a stream is abandoned only after more interruptions than the hook may answer |
| `ViewsMoveForward` | the status that is shown never goes back to an older one |
| `StreamsStayInvariant` | the invariant they rest on |
| `BrowsersAreAnswered` | the hook waits for no request that is not under way or cannot be answered, follows no stream that nobody serves, and takes commands at rest |
| `EndsComeNearer`, `RestsAreEarned` | once the Run has ended every step of server and hook leads towards the rest of the hook, and it rests on the end or a pause only |

The heart of `StreamInvariant` is a chain: the frames under way lead, one by one,
from the cursor of the hook to that of the reader, each the next fact or a later
entry whose facts have been sent (`WireFits`). The next frame is then always new to
the hook and its successor, whichever reader sent it, and `GotFits` follows frame by
frame: what was applied ends at the cursor and holds all facts up to it. The end
of a stream needs that nothing follows the last fact (`HistoryFits`) and what the
reader knows at each of its positions (`ReaderFits`), the tail above all: it is read
after the status, so it is complete. That the view moves forward rests on
`CallsFit`: at most one request is of the present generation, the one the hook
waits for, and its reply is not older than what is shown; all others are
dropped. `PatienceFits` counts reconnections against interruptions.

The last three are what `EndIsSeen` consists of besides fairness. `RequestsFit` says that
every wait of the hook began with a request that is still under way, and that it
follows only what has a generator; by `StreamInvariant` the endpoint can then answer
or refuse. That steps lead somewhere is said in orders of the positions of generator and
hook: within a stream frames are consumed, from stream to stream the
reconnections are spent. Only a command of the user or a fault sets them back.

### 4.10 WorkerProcess

`WorkerProcessProofs`, for any Attempts, any entries about them, any capacity and
any number of faults (`WorkerAssumption`):

| theorem | statement |
|---|---|
| `NothingIsDropped` | no assignment leaves the stream while its Attempt may still be claimed |
| `OrphansAreExplained` | an execution without a handler has a failed monitor, or Redis held up the stop |
| `AttemptsHaveOneHandler` | one handler at a time works for an Attempt, and its execution was started after the claim, by it |
| `StopsNeverStandStill` | after a shutdown, until the process is gone, something can go on, unless the loop attends to an execution itself |
| `StopsOnlyAdvance` | after a shutdown nothing starts, or starts over, and every step brings the process nearer to its end |

The first needs only that whoever acknowledges has seen the Attempt claimed or over
(`ClaimsFit`). The second asks who may take a handler away from an execution. A
claim succeeds once, so of all handlers of an Attempt's entries one gets beyond it
(`OneHandler`); it alone starts the execution and waits for it (`ExecutionsFit`); and
it is not started over, since a task is created only for a new entry and the loop
is at one recovered entry at a time (`HandlersFit`). An execution is then alone only
when this handler leaves it: after the monitor raised, or cancelled by a stop.
`stop()` cancels what it has gathered, so a handler that attends to a running
execution then has a fault of Redis behind it (`HeldUp`).

The last two are `StopsUnlessInline` without its fairness. Of everything that
waits after a shutdown, `StopFits` says for what: a handler for an execution that was
cancelled, the loop for handlers that are at work or for one of the entries it
has left. So something can go on (`SomethingCanGoOn` lists the guards of the steps that
the fairness is about), or the loop waits for an execution it attends to, the
exception in the name of the property. That it cannot go on for ever is
`StopsAdvance`, in orders of the positions of the loop, the handlers, the
executions and the monitors; a monitor may listen again, once for every fault.

### 4.11 Only model-checked

Liveness: temporal reasoning under fairness, and ENABLED, are out of the prover's
reach. So `CancelTakesEffect`, `StrandedAttemptsResolve`, the fairness in
`ImplementsLifecycle`, `EveryNotificationActs`, `NobodyStarves`, `StopsUnlessInline`,
`CancelStopsExecution`, `EndIsSeen` and `BatchEnds` hold of the instances of section 3,
which TLC checks. For five of them the theorems above show, for every instance, what they
rest on besides fairness: something can always be done about it, and every step
is one in the right direction. What is missing in each is the step from there to
*eventually*.

The three properties that do not hold (section 5) are violated on their instances.

## 5. Findings

1. **A resumed Run starts over** (`continuation`). `schedule_once` clears
   `queue_reason` at every assignment, and `load_chat_execution` looks for the
   continuation only while it is `"resume"`; the design promises that a resumed
   Run continues from its pause. Its integration test sets the column by hand.
   Consequences: an approval of a call in doubt is never effective, since the
   execution that starts over knows nothing of it (`durable` with `FlagSeen =
   {FALSE}`); a blocked Run loses its head start in the queue in the same way,
   because the reason it is blocked overwrites the column
   (`scheduling_service.py:403`).
2. **A fill releases other orders' cash** (`paper_frozen`). `_settle_buy` subtracts
   what one order needs from the frozen cash of the account. The next audit
   suspends the account, and the other order can then neither be filled,
   cancelled nor expired. `BooksBalance` still holds: no money is lost, it is
   only on the wrong side.
3. **A refusal is forgotten** (`refused`). `confirm` ends an application that is not
   eligible as `rejected` and raises; the route answers the exception with
   `rollback`, and the test of the service, which asserts the status, never sees the
   route. The application stays open: the user may submit another profile and
   confirm again, with the same key. `PermissionsAreEarned` still holds.

Also seen while modelling; the models do what is described here, and no run is
devoted to it.

*Scheduler and Workers*
* A tenant at its quota whose turn it is idles the Scheduler for that cycle, though
  another tenant could be served (`scheduling_service.py:444`); the design document
  (`2026-07-16-run-control-plane-design.md:206`) speaks of eligible tenants.
* `renew` at the start of `execute_assignment`, `pause_chat` for doubts, and `fail`
  for an invalid key are outside its `try`: a rejected command escapes, and
  `task.result()` (`run_worker.py:259`) ends the Worker with all its executions. So
  does an error of Redis when a handler acknowledges.
* At the end of the grace period an execution stays alone only if its monitor
  hangs in Redis; an inline recovery, which blocks reading and shutdown, leaves an
  execution uncounted if Redis fails under it.
* A lost reply to a cancellation is recovered only after `RUN_PENDING_IDLE_MS`,
  which is longer than the poll of the monitor; otherwise the Dispatcher's
  repetition brings it.

*Tools*
* Reservations of a batch are taken before its first tool runs and recorded after its
  slowest; the reservation lasts as long as one tool may (30 s). A slow batch
  has its outcomes rejected and the Run fails.
* A doubt pause drops the continuation of a consent pause before it.
* Calls waiting for the half-open lock run as trials after the breaker closed, and
  one failure opens it again, where its docstring speaks of N consecutive ones;
  callers past the breaker may wait in the limiter and call while it is open;
  retries are not counted by the limiter; a cancelled search is counted by
  neither breaker nor quota.
* Burned signatures are compared with the arguments of the model, but the ledger
  records the effective ones (without `__task_id` and `__depends_on`, references
  resolved, edits applied): such a call is never burned. Burned calls themselves do not
  enter the ledger.
* A forced conclusion does not check the last answer for tool calls, which the
  comments at `chatloop/loop.py:312` and `chatloop/state.py:241` take for granted.

*Event stream*
* Production publishes `durable_seq = 0` with every live entry
  (`run_worker.py:36`); the watermark has no effect.
* `reconnectAttempt` is not given back by progress, and every replayed old pause
  ends a stream: after a reload of the page a Run with more pauses than
  reconnections cannot be followed.
* A failed cancel or resume aborts the stream, asks for one snapshot and never
  follows again; a browser resting at a pause that was resolved elsewhere is not told.

*Paper trading*
* An empty match of an older snapshot is recorded after a newer one
  (`tasks/paper_trading.py:257`), and settlement then refuses later fills.
* A suspended account can be neither reset nor recreated, and its orders are skipped
  by expiry, opening and cancellation. Nothing promises otherwise, so no property
  is about it.

## 6. Not modelled, and why

The map covers the code that keeps shared or durable state under concurrency,
failure or retry. What remains is by far the larger part of the repository, and is
of another kind:

| part | why not |
|---|---|
| Deep research, agents, orchestration, skills | pipelines of prompts around a language model; their state is one document handed from step to step |
| Clients and mocks of market data, MCP servers, tools | adapters of remote services and tables of fields |
| Evaluation | offline scoring and simulated environments |
| Memory and knowledge base | retrieval and ranking over vector and graph stores; quality, not consistency |
| Portfolio and trades | arithmetic over decimals, folds of rows |
| Monitoring and scheduled tasks | each is one transaction that recomputes rows and upserts them |
| Web layer, schemas, configuration, dashboards, the other hooks of the frontend | routing, validation, display |

What a TLA+ model of these could say would restate their data transformations.
Within the modelled parts, each module's comment and section 2 name what it leaves
out. The next steps inside them: several levels of a book in one match and several
securities in `PaperTrading`, the projection of fills to positions, and the
checkpoints of messages beside `ToolLedger`.
