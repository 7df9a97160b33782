# BitRun in TLA+

BitRun runs trading agents. An agent binds a strategy (an AI prompt, or a quant
engine: grid, DCA, RSI) to an exchange account and trades on a schedule. This
directory models the backend (`src/backend/app`, all paths below are relative to
it) where several agents, cycles, processes or requests touch the same state, or
where one cycle goes wrong half-way; checks the models with TLC on small
instances; and proves the main results with TLAPS.

| Module | What it is |
|---|---|
| `PositionLedger`, `PositionLedgerProofs` | cycles, position rows, exchange and reconciliation job of one account; theorems |
| `Wallet`, `WalletProofs` | user wallets and recharge orders under overlapping requests; theorems |
| `WorkerOwnership`, `WorkerProofs` | which process runs an agent; theorems |
| `TaskQueue` | the distributed mode: cycles as jobs of a queue |
| `QuantEngine` | grid, DCA and RSI with their saved state |
| `QuantWorkers` | the quant agents' workers: locks, time limits, counters |
| `Consensus`, `DecisionCycle` | a debate's verdict; the cycle that executes it |
| `Simulator`, `PaperTrading`, `Backtest` | the simulated account; agents that trade on it; replays of history |
| `ExchangeOrders` | one trader's calls, request by request |
| `Tables`, `StrategyCatalog`, `Administration`, `AdministrationProofs` | the rows a user administers and the routes that change them; theorems |
| `Credentials` | keys of accounts and AI providers, connection tests |
| `PriceFeed` | how prices reach paper traders |
| `LiveUpdates` | WebSocket connections and their three tables |
| `OrderTracking` | the order manager's polling tasks |
| `ExchangePool`, `Channels`, `Reports`, `CircuitBreaker` | the services their names say |
| `Platform`, `PlatformProofs` | nine of these components side by side, for every instance; theorems about them |
| `Trading`, `TradingProofs` | the six components behind a trading decision side by side, for every instance; theorems about them |
| `Lists`, `Sums`, `RecursionProofs` | the elements of a list that pass a test, and sums, as recursive functions; what they return |
| `MC*` | constants and symmetry for TLC; each `.cfg` is one run |

Contents: 1 the system, 2 position ledger, 3 wallet, 4 worker ownership, 5 the
task queue and the quant workers, 6 decisions and orders, 7 simulated trading,
8 administration, 9 services, 10 the runs, 11 the proofs, 12 disagreements found,
13 what is not modelled, 14 plan.

## 1. The system

### Components, their state and operations

| Component | State | Operations | Hard behaviour | What makes it correct |
|---|---|---|---|---|
| Position ledger (`services/agent_position_service.py`, `trade_execution_service.py`) | `agent_positions` rows: pending, open, closed; Redis locks | claim with capital check, confirm, release, accumulate, close, reconcile, clean up | overlapping transactions, lost answers, crashes between order and commit | one live row per agent and symbol, rows agree with the exchange, capital respected |
| Trading cycle, debate (`services/strategy_engine.py`, `debate_engine.py`, `decision_parser.py`) | the decisions of a cycle, its rows, its record | ask the models, find a consensus, validate, execute one by one, save | failing models, exceptions after a fill, a commit in mid-cycle | orders are backed, limited and explained by the record |
| Quant engines (`services/quant_engine.py`) | levels bought and sold, DCA totals, RSI `has_position` | one evaluation per cycle | state drifts from ledger and exchange | what the state says is held is held |
| Traders (`traders/base.py`, `ccxt_trader.py`) | the exchange account | open, close, stop orders | errors after execution, retries | an order is executed once |
| Workers (`workers/ai_backend.py`, `quant_backend.py`, `lifecycle.py`, `unified_manager.py`) | ownership key, execution lock, `_workers`, loop task, `agents.status` | start, stop, trigger, periodic sync, run loop | several processes, expiring keys, late tasks | one worker, one cycle at a time, an active agent runs, a paused one rests |
| Task queue, heartbeats (`workers/tasks.py`, `queue.py`, `services/worker_heartbeat.py`) | jobs, execution lock, heartbeat columns | enqueue, run, submit the successor, synchronise at start-up | refused job ids, a dying worker, stale marks | cycles exclude each other, an active agent is executed again |
| Retry helpers (`core/retry_utils.py`) | error window | classify, record, back off | window boundaries | stops only after repeated errors |
| Mock trader, backtest (`traders/mock_trader.py`, `backtest/`) | simulated account; rows and counters; a clock | order, stop, restore; replay | restarts, aborted cycles, missing data | the account survives a restart; no hindsight |
| Agents, accounts, strategies (`api/routes/{agents,accounts,strategies}.py` and repositories) | rows, versions, statuses | create, update, restore, fork, pause, delete | requests between cycles | no config lost, active agents keep theirs |
| Account and provider keys (`api/routes/{accounts,providers}.py`) | encrypted keys, model lists, `is_connected`, cached balance | update, test, edit lists | rollback after an answer, lost updates | columns are kept, what is shown was answered |
| Wallet and recharge (`services/wallet_service.py`, repositories, routes) | balance, version, transactions, orders | gift, adjust, consume, refund; pay, confirm, cancel | lost updates, repeated confirmations | balance = sum of transactions, an order is credited once |
| Channels and invites (`services/{channel,invite}_service.py`, `api/routes/{auth,channels}.py`) | members, roles, counters | register, appoint, move | overlapping registrations | counters and roles fit the members |
| P&L service, dashboard (`services/pnl_service.py`, `api/routes/{analytics,dashboard}.py`) | daily snapshots, day baseline | job, manual sync, figures of a day, a week | missing days, colliding writers | the days' changes add up |
| Price cache, prefetch (`services/shared_price_cache.py`, `price_prefetch.py`) | two cache levels, subscriptions, leader key | get, set, elect, refresh | a service that raises | prices arrive |
| Exchange pool (`traders/exchange_pool.py`) | clients by key | acquire, release, evict, sweep | eviction while others wait | no client is left open |
| WebSocket (`api/websocket.py`, `api/routes/ws.py`) | three tables of connections | connect, subscribe, broadcast, disconnect | publishers without the lock | the tables agree, owners only |
| Order manager (`services/order_manager.py`), circuit breaker (`core/circuit_breaker.py`) | tracked orders; breaker state | place, poll, cancel; call, reset | late answers | an end is final; an outage opens the breaker |
| AI clients, prompts, notifications, authentication, frontend | requests | request and response | - | - |

### How they interact

A cycle is one database transaction. It claims a slot, calls the exchange, and
confirms or releases the claim; nothing of it is visible to others before a
commit. The exchange keeps **one net position per symbol for the account**,
while the ledger keeps one row per agent and symbol. Two processes may run
cycles of one agent at once: the per-cycle execution lock has a fixed time to
live, is deleted without looking at its holder, and is not taken by a manual
trigger. The reconciliation job compares ledger and exchange in a transaction of its
own; a task worker runs it when it starts up, and the schedule that would repeat it
is in settings nobody reads (section 12). Workers decide when cycles run; they share the
`agents` table and two Redis keys per agent, and the API process that serves a
status request need not be the one that runs the agent. Administrative requests
change the rows the workers read. Wallets and channels share with all this only
the database's transaction rules, which the modules spell out where they matter:
READ COMMITTED, UPDATEs of the changed columns that lock their row to the end of
the transaction, and an ORM session that does not reload an object it holds.

The models follow these seams. Each cut is made where one side can be replaced
by a nondeterministic outcome: `QuantEngine` and `DecisionCycle` take an order's
outcome as any of filled, refused, raised with or without a fill, and the engines also as
a success without a fill; `PositionLedger` takes
decisions as arbitrary; `WorkerOwnership` takes a cycle as a begin and an end;
`Administration` takes a worker as something that opens and closes rows.

`PROJECT.json` lists every component with its status, and every behaviour of
the code that is hard to test with the line where it bites.

## 2. The position ledger

`PositionLedger` models one exchange account and the agents that trade on it.

**State.** `rows` is the committed version of each `agent_positions` row,
`draft` the uncommitted one and `holder` the transaction that wrote it; `exch`
is the account's net position per symbol; `cyc` is the local state of each
cycle, `recon` that of the job. A cycle's `pc` names the place in
`open_position` or `close_position` it has reached: claim, check and insert
(`claim_position`), order (`place_market_order`), verify (the position query
after an exception), record (`confirm_position`/`accumulate_position`), release,
close, closerec (`close_position_record` and its P&L record). Between two
decisions it is "ready", and commits from there. `seen` and `existing` are what
the session's object said when it was loaded; the object stays referenced, so
later reads do not refresh it, and accumulation adds to `seen`.

**Actions.** One per statement or external call: whatever another transaction
may do between two of them is an interleaving of the model. An insert waits for
another uncommitted entry in its slot and fails on a committed one (the partial
unique index); an UPDATE waits for the row's holder. `DeadlockVictim` is
PostgreSQL's choice of a transaction to abort. `Faults` names what the
environment may do: reject an order, raise before sending it, lose the answer,
accept it and not say what it filled ("silent"), close a position on its own (stop loss,
liquidation), crash a cycle. A silent order is a success (`ccxt_trader.py:719-726`), so its
row is confirmed or accumulated with an estimate (`ToRecord`, `Estimates`), whatever has been
executed; `unsure` remembers the symbols in which that has happened.

**Abstractions.** Sizes are counted in orders of one unit, leverage is 1, prices
are absent. The Redis position lock is subsumed by the unique index behind it.
The heartbeat commits before the cycle's transaction begins, so overlapping
cycles do not meet on the agents row; the performance counters are left out
(`PaperTrading` and `QuantWorkers` have them). Limit orders and the AI's reasons
for its decisions are left out: any agent may decide to open or close any symbol.

| Where | Instance | Question |
|---|---|---|
| run `ledger_shared` | 3 agents, one accumulating, one whose capital covers no order, 1 symbol, 2 rows, 2 cycles that may overlap, job, all faults | do the rows stay well formed, unique, free of committed claims, and do they only advance? |
| `trading`, part "ledger" | 1 accumulating agent, 2 symbols, 3 rows, no overlap, rejected, raised and silent orders | `LedgerIsSound`: does the ledger equal the exchange after every cycle, and is the capital respected, in the symbols without a silent order? |
| run `find_isolation` | 2 agents, 1 symbol, no overlap, no faults | `CloseSparesOtherAgents`, which the code breaks |

Two trading agents and two cycles show every pairwise interleaving, and the third
reaches the refusal for lack of capital; with one symbol the
agents meet on the exchange, which is where they can disturb each other. Two
decisions to open suffice for a conflict in one slot, an accumulation, and an
open after a close. Rows and cycle slots are interchangeable, so `ledger_shared`
uses their permutations as symmetry (it checks no liveness). `MaxOpens` bounds
the decisions, so a behaviour uses at most that many rows; nothing else is
bounded.

Only safety is checked. `LedgerIsSound` leaves out three faults that make ledger and
exchange differ in the code: a lost answer, a stop that fired on the exchange, and a
crash between an order and the commit. They are among the faults of `ledger_shared`. That
a row whose position is gone is closed some day is not stated: nothing schedules the job.

## 3. Wallets and recharge orders

A request is one session (`ses`): it loads rows, changes objects, flushes
UPDATEs with absolute values, commits. `balance`, `posted` (the signed sum of
the user's transactions), `order` and `credits` are committed state;
`walletOf` and `orderOf` are row locks. Reads take no lock. The version check of
`update_balance` compares the version of an object with the version its caller
read from the same object, so it never fails and has no failing step.
`update_status` has no condition on the current status. The seven `Kinds` of
request are marking paid, confirming and cancelling an order, gift, refund, downward
adjustment and consumption, and a view that creates the wallet (as registration
does). `consume` and `refund` are the service's interface, exercised by its tests;
today only the admin adjustment calls `refund` and no route calls `consume`.
Left out: bonus split, the frozen, recharged and consumed totals, commission
(disabled in the code).

| Where | Instance | Question |
|---|---|---|
| run `wallet_shared` | 1 user, 2 orders, 2 sessions, 3 requests of any kind, crashes, fair | is any balance ever negative, does the status tell the credit, is every request answered? |
| run `find_lost_update` | 1 user, 2 sessions, 3 gifts that may overlap | is the balance the sum of the transactions? The code loses an update |

Two sessions suffice for every race between a read and a write; two orders of
one user let two confirmations meet in one wallet while each holds its order.
Three requests allow one to prepare a state in which the other two meet.

**Fairness**: a request that has begun goes on, and row locks are granted in
turn (strong fairness per session). Being cut short is not part of the fair action.

## 4. Worker ownership

One agent, several backend instances. `owner` is the ownership key, `execLock`
the execution lock, `status` the column of the `agents` row; each instance has a
process state, the status request it serves, the progress of `start_agent` and
`stop_agent`, and the worker's registration, `_running` flag and loop. Actions
are the steps between awaits at which another task or process can intervene:
claim, status check, launch; cancel, release, unregister; cycle begin, status
read, cycle end; the periodic refresh; validation and commit of a status
request, which are separate. `Incidents` lists what may go wrong: crash, orderly
shutdown, a refresh after the key expired (stall), a cycle that outlives its
lock (slow), an error that ends the loop, a trader that cannot be created (init), a
manual trigger, and a worker started or stopped through `/workers/{id}/start` and
`/stop`, which do not look at or change the status (byhand). `happened` remembers which of
them void an exclusion.

**Abstractions.** Giving up a lost agent (refresh, then stop) is one step;
refreshing one's own key, and a refresh while Redis is unreachable, change
nothing. Each instance has one start and one stop in progress at a time, a
second one waits. A shutdown begins when no start, stop or request is in
progress on the instance; a start cut off by a shutdown leaves its claim to
expire. The heartbeat columns are left out here; `TaskQueue` has the part that
acts on them. The status "warning" is accepted by the route but nothing writes it.

| Run | Instance | Question |
|---|---|---|
| `workers` | 2 instances, 3 status requests, 2 incidents of any kind, fair | until a cycle outlives its lock or is triggered by hand, do cycles exclude each other even while two instances believe they own the agent; until a refresh is late, is there one worker; does a worker that lost its agent stop, does a paused agent rest, is an active agent run again? |
| `find_reactivation` | 2 instances, 3 status requests, no incident, fair | `OrphansArePickedUp`: is an active agent run again, even one whose loop ended by itself? The code leaves it registered, and it is not |

Two incidents suffice to lose the ownership and then something else (a lock, a
process, the trader); three status requests take an agent through start, pause
and start, each served by either instance. `CyclesExclusive`, `WorkersExclusive` and
`ActiveAgentRuns` name their exceptions in the formula, so that the behaviours in which
they happen stay in the run. The theorems hold for any number of instances.

**Fairness**: runnable tasks run, keys of dead owners expire, a process that is
down is restarted (the compose files restart every service). Stalls, slow
cycles and the other incidents are never forced.

## 5. The task queue and the quant workers

**`TaskQueue`** is the distributed mode (off by default): cycles of one agent as
jobs of an ARQ queue. `job` is the queue's entry of each job id (free, queued,
running, done and kept), `pc` where a running job stands in
`execute_agent_cycle`, `start_agent_execution` or `stop_agent_execution`,
`lock` the execution lock, `agent` the row with status, heartbeat age and next
run, `sync` the synchronisation with its phases (find and mark stale agents, clear
heartbeats, schedule), which a worker goes through when it starts up and never
again: the class `WorkerSettings` it is run with (`run_worker.py:100`) has no cron jobs,
and `get_worker_settings`, which lists some, is called nowhere. `WorkerDies` ends every
running job, which the queue runs again. Ages are "fresh" or "stale" instead of seconds; the only
number the code compares, 300 s, is job limit, lock time to live and heartbeat
time-out at once, so a lock expires only when its job is over: that is the guard
of `LockExpires`. The ARQ library is external and modelled from what the code
relies on: a taken id is refused, a dead worker's job is run again, a job is cut
off at its limit. Bounds: 2 tries, 2 requests, 1 crash.

`platform` checks `QueueConsistent` (types; at most one job inside a cycle, and
it holds the lock). `find_unscheduled` refutes `AgentRunsAgain`, that an agent which was
executed and stays active is executed again: every job is refused its own
successor, since its id is taken while it runs, and no synchronisation comes to submit it.
Its **fairness** is generous: queue and start-up work, results and locks expire, time
passes; only requests, errors, time-outs and crashes are not fair.

**`QuantWorkers`** is the quant backend of several processes for one agent:
registration, run loop, the lock with its time to live, the 300 s limit on a
cycle, the error window of `retry_utils.py`, the manual trigger, pausing, loss of
ownership, crash. A cycle loads the row (`Load`), places orders (`Trade`), and
writes runtime state and counters when it ends (`Commit`). An order's answer may be lost
(`Unanswered`), a close may find nothing and count all the same (`CloseFlat`), and an order
that raises makes the engine answer with its old state (`EngineFails`). `RowKnowsOrders`:
though two processes may believe they own the agent, every order is counted once in the
row or belongs to what is lost for good (`lost`: cycles cut short, raised or run by hand,
lost answers), and nothing else is counted but flat closes (`phantom`). Ownership
itself is abstracted from `WorkerOwnership`. Instance: 2 processes, lock and time
limit 2 ticks, window 4 with 3 errors (as in the code the window holds fewer
time-outs than the limit asks for), 2 accidents, 2 orders, 3 changes of status
and ownership.

## 6. Decisions and orders

**`Consensus`** has the four consensus rules of the debate as operators. What a debate
said is a set of places, participant and number of the decision; a ballot is a place, so
that votes are counted as cardinalities, the first ballot stands for what its voters
elected and ties go to what was said first. **`DecisionCycle`** is one cycle from the
question to the record: answers arrive or fail, `Decide` validates and orders the
decisions (closes before opens), then each is skipped, refused, executed, or
raises after its order was filled; `SaveRecord` writes the record and commits;
`DatabaseFails` loses the transaction while the exchange keeps the orders. An AI
answer is any of a small set of lists of decisions, or a failure; prices and
sizes are abstracted to "priced" and "below the minimum". Instance: watchlist of 2
symbols, answers of 5 forms (agreement, a flip, a
repeated proposal, a symbol outside the watchlist, a hold), 3 debaters of whom 2 suffice, every consensus rule, at most 1
position, 2 cycles. Properties: `OrdersFollowRules` (never more positions than
allowed, however many opens one answer lists; every open sent with the contexts
at hand carries its stops; every executed order is backed by as many ballots as
its rule asks for) and `RecordExplainsRows` (a row that the cycle opened or
closed has an executed result in the saved record, unless its order's call raised
after the fill).

**`QuantEngine`** has the three engines evaluated against a row and an account
position: `saved` is the runtime state, `cyc` the evaluation under way with its
copy of the state, `happened` the accidents so far. A grid walks its levels one
order at a time, DCA takes profit before it buys, RSI adjusts its flag to the
account's position first. Others may open, close and reconfigure in between.
An order may succeed and execute nothing, or not say what it executed ("unfilled"): DCA
then counts what it asked for, the ledger an estimate of its own.
`StateTellsPosition` states per engine what its state says about the position,
each under the accidents that the code does not survive (named in the formula, by engine):
DCA's quantity is the ledger's, or at least neither is without the other after an unfilled
order; a grid that holds something has a level to sell, and as many levels as units if every
order reported its fill; RSI holds at most one order.
Instance: one grid step (two levels), budget 3, 4 orders, 3 cycles, 1 interference: three cycles
allow to buy, sell and find out.

**`ExchangeOrders`** is one `CCXTTrader` on a real exchange, one action per
request: position, price (three attempts), margin mode and leverage, market order
(second attempt after a rate limit), stop, target. A market order may be refused, filled,
accepted and not executed, or lose its answer; a leverage that is refused raises out of
the call. Between requests resting orders
fire and others trade. `OneFillPerCall`: the market order of a call is executed at
most once, whatever fails. Instance: sizes to 2, net position to 3, 3 calls, 2
foreign orders.

## 7. Simulated trading

**`Simulator`** is the simulated account as operators on a value: margin, average
entry, stops and targets, without fees in the balance (as in the code).
**`PaperTrading`** joins it to what the database knows of a mock agent: the rows,
the counters and the account page, across cycles that are aborted, stops, restarts
that rebuild the account from the rows, and cycles triggered by hand on an
account of their own. `AccountsAgree`: a restart gives back the account the
worker has, except after the drifts it lists (a stop that fired, an addition to a
held symbol, a cycle rolled back, a run by hand), and the page shows that
account. `OrdersKeepMarginCovered` (action property): no order leaves less equity
than margin. Instance: prices {2, 4}, sizes {1, 2}, slippage 1, leverage 2, balance
6, so that a position can be unaffordable, stopped out and worth nothing.

**`Backtest`** replays candles bar by bar. Whoever decides, the rule or the AI, gives
a list of instructions that are carried out in order (`Executed`); stops, targets and
the liquidation at the end close a set of positions (`Closed`). It runs every replay in
two worlds at once whose prices are the same up to an hour and differ after: `ReportIsHonest`
says that orders, equity and trades are the same up to that hour (no hindsight
through indicators or fills) and that the report's figures add up from its trades
and its curve. Instance: 2 symbols, 5 hours, 3 histories, pages of 2, a window of
2, so that a download has a missing page and an average a short history.

## 8. Administration

**`Tables`** declares the rows (strategies and versions, agents, accounts, open
positions), **`StrategyCatalog`** has the strategy routes, **`Administration`** the
agent and account routes and what a worker does to the same rows. Requests are
transactions that do not overlap (what overlapping ones do is in section 12), but
between any two the agents trade and fail. Run `administration`, all orders of 6
requests with 2 strategies, 2 agents, 2 accounts: `ConfigsRecoverable` (every
config a strategy ever had is its current one or a version, however updates and
restores are mixed), `ActiveAgentsRunWhatTheyStarted` (no request changes the
config under an active agent), both unless an explicit `"config": null` overwrites it, which
`update_strategy` writes with neither a snapshot nor a look at active agents
(`strategies.py:208-227`), `ReferencesHold` (an open row is on the account of
its agent, unless the account was set to null). The history variables `used` and
`started` exist for these properties only.

**`Credentials`** has the overlapping requests on keys and model lists; a key is
the number of its entry, and rolling back a route that raises is part of its
action. `SettingsKept`: a request's columns survive the requests that do not name
them, an account is shown as connected only with a key the exchange accepted, and
a provider lists a model once.

## 9. Services

| Module | State and steps | Property | Instance |
|---|---|---|---|
| `PriceFeed` | `market`, the shared cache, each trader's own cache and what it told its simulator; requests on their way; the prefetch with its registration, subscriber counts and leader | `PricesArrive`: a price that stands still reaches every agent that keeps running; the code breaks it | `find_frozen_price`: 2 agents, 1 symbol, 1 move |
| `ExchangePool` | entries, usage order, clients open; coroutines between awaits, which may be cancelled there, per-exchange locks, eviction, sweep, `close_all` | `ClientsAccounted`: no client is left open that neither the pool nor a coroutine can reach, but what a cancellation has `dropped`; the pool exceeds its size by less than one per exchange | 2 coroutines, 3 keys of 2 exchanges, size 1, 3 clients |
| `LiveUpdates` | three tables under a lock, publishers that read them without | `TablesAgree`, `OwnersOnly` | 2 connections, 2 users, an owned and a public channel, 1 event |
| `Channels` | rows of channels and users, transactions with their loaded objects, a row lock | `ChannelsConsistent`: the member counter never exceeds the registrations and is positive after one; a channel's administrator has the role | 3 users, codes of which one is a prefix of another, 2 registrations, 2 changes |
| `Reports` | days, snapshots of accounts and agents, job and manual sync, day baseline and cached balance | `PeriodsAddUp`: over days without a gap the changes sum to the level | 1 account, 1 agent, days 0..2, 2 moves |
| `OrderTracking` | the exchange's book, objects, Redis copies, a polling task per order | `EndIsFinal`: an end is called back at most once and is the end at the exchange | 1 order of size 3, 2 callers, 2 restarts |
| `CircuitBreaker` | state, counter, callers in a call, the service's health, ticks | `OutagesOpen`: as many failures in a row as the threshold leave the breaker open | 3 callers, one with the context manager, threshold 2, 2 ticks, 3 turns of the service, 1 reset |

`OrderTracking` and `CircuitBreaker` are not used by the program beyond a health
report; they are modelled as the libraries they are. `OrderTracking` supposes that
a trader answers `get_order`; with `Answers` false, as in this repository, every
task ends with its first poll. **Fairness**: in `PriceFeed` agents refresh, caches
expire, election and prefetch loops run, and a request that is repeated is answered again
and again (strong fairness). The other modules are checked for safety only.

## 10. The runs

| Run | Shows |
|---|---|
| `ledger_shared`, `wallet_shared`, `workers` | sections 2-4 |
| `administration` | section 8 |
| `trading` | six parts: ledger without overlap, quant engines, paper account, decision cycle, backtest, trader |
| `platform` | nine parts: pool, live updates, channels, reports, order tracking, quant workers, credentials, job queue, circuit breaker |
| `find_isolation`, `find_lost_update`, `find_reactivation`, `find_unscheduled`, `find_frozen_price`, `find_offline` | disagreements, section 12 |

`Trading` and `Platform` are suites: they put components that do not
interact side by side. `part`, chosen in `Init`, names the one a behaviour follows;
every component has variables and constants of its own and rests where it is not
chosen. They fix no constant, so that theorems can be stated
about them; `MCTrading` and `MCPlatform` give the constants their values. A suite's property is the conjunction of the part's type invariant and its
property, guarded by `part`; every module's named parameters are assumed where it
is instantiated.

`CHECK_DEADLOCK FALSE` stands where a system really may stop: requests,
incidents, orders or days are bounded, and after the last one nothing is left to do.

## 11. The proofs

For every value of the constants, with overlap and all faults:

- `PositionLedgerProofs`: `TypeCorrect`, `OneLiveRow`, `ClaimsNeverCommitted`,
  `OneFreshOrder`, `RowsAdvance`: the invariants and the action property of
  `ledger_shared`. None of these is
  inductive. `IInv` adds `LedgerInv`, which relates a draft to its committed row
  (a draft has a holder, is newer, keeps agent and symbol, and the *latest*
  versions are unique per slot, which is what the insert's wait protects), and
  `CycleInv`, which relates a cycle to the row it works on (its claim is its own
  uncommitted pending row; a cycle that has left the claim behind holds no pending
  row, so a commit from "ready" commits none). Lemmas on `Write`, `Commit` and
  `Rollback` carry the row part once; then there is one lemma per group of
  actions.
- `WalletProofs`: `WalletTypeCorrect`, which includes that no balance is negative
  even though two consumptions can both pass the test on the same balance;
  `CompletedIsCredited`; `SequentialBalance`; `WaitsAreShort`, the safety behind
  `RequestsEnd`: who has written a wallet waits for nobody and who has written an order
  waits for such a session at most, so that no circle of waits closes. The invariant relates each session's
  progress to what it has read and written, each lock to its session, and,
  without overlap, what a session read to what is committed (`FreshInv`), which is
  exactly what an overlapping request destroys.
- `WorkerProofs`: `WorkerTypeCorrect`, which includes that no loop outlives its
  registered worker; `CyclesAreExclusive`, as long as no cycle has outlived its lock or was
  triggered by hand; `WorkersAreExclusive`, as long as no refresh has been late. The invariant
  has one conditional part per exception: a cycle inside
  its critical part holds the lock; nothing runs outside the loop; whoever starts
  or runs a worker owns the key.
- `AdministrationProofs`: `ConfigsAreRecoverable`, `AgentsRunWhatTheyStarted`,
  `ReferencesAlwaysHold`: everything run `administration` checks. `IInv` is the rows'
  types and the three properties together: a config that leaves a strategy row must
  be in a version first, which holds only while the number of the newest version is
  that of the list's end; and an account that goes takes its agents' references
  along, so that an open row is compared with an agent that may have lost its account. It
  is about requests one after the other, as the module is.
- `RecursionProofs`: what the recursive functions compute, for every input. `KeptIs`: a
  filtered list has the members of the list that pass the test, each as often. `SumIsInt`,
  `SumSplits`, `SumAgrees`: `Total` is an integer, may be taken apart at any member, and
  depends on the summed values only; `SumTelescopes`: differences of successive members
  add up to the difference of the ends; `SumOfSupport`, `SumChanges`: members whose value
  is 0 do not count, and changing one value changes the sum by the difference;
  `SumJoins`, `SumRenames`: sums over disjoint sets are added, and renaming the members
  keeps the sum. All by induction on a length or a cardinality.
- `PlatformProofs`, about the suite `Platform`:
  - `TablesAlwaysAgree`, from `LiveInv`: the three dictionaries agree, a connection
    that is being entered is in none of them, and only owners are subscribed. What
    carries it: whoever asks for a channel's owner does so under the lock, so the
    connection cannot be removed meanwhile; an answer that is remembered as granted
    belongs to its user; and the publishers, which read without the lock, only remove.
  - `EndsAreFinal`, from a condition per order (`Sound`) that ties the manager's
    object, the Redis copy, the polling task and the number of callbacks to the
    exchange's order. A task's last answer may be older than the order, but never
    says that an open order has ended; a cancellation ends the tracking before it
    writes.
  - `ChannelsStayConsistent`, from `ChannelInv`: what a request has loaded is still
    there when it writes (nothing is ever deleted: `NobodyGoes`), two registrations
    that are under way create different users, and an UPDATE writes only the columns
    the request has changed, so a counter read long ago is written over a smaller
    one but never above the registrations.
  - `ClientsAreAccounted`, from `PoolInv`: the usage list holds the pool's keys once
    each; of the coroutines of one exchange at most one is between its look-up and
    its store (`CreatorsAreAlone`, the per-exchange lock); and a coroutine past its
    eviction has a place in the pool or one of the other exchanges' coroutines has
    taken it (`PlacesAreTaken`). The bound on the pool's size is then a count of
    exchanges, by the library's theorems on finite sets.
  - `SettingsAreKept`, from `CredentialInv`: what a request will write fits the row
    as others may have changed it meanwhile (`RequestFits`), because it names only
    its own columns, and a status is written only with the answer to the key that
    the same request has read or written.
  - `PeriodsAlwaysAddUp`, from `ReportInv`: a row of the current day, be it in the table,
    in the job's transaction or in a request's, has as its change the distance from
    yesterday's row (`Fits`), which nobody writes any more; rows of later days do not
    exist. The sums over a week and along an equity curve then telescope.
  - `RowsKnowTheirOrders`, from `RunnerInv`: a cycle holds the execution lock and the
    lock's remaining time is at least what the cycle may still take
    (`LockOutlivesCycle`, from `CycleTimeout <= LockTTL`), so no other cycle is under way
    (`OneCycle`), so what it loaded is still the row (`NothingIsForgotten`). That counters,
    error windows and locks keep their types rests on it and on `KeptIs`.
  - `JobsExcludeEachOther`, inductive as it stands: a job enters with the lock
    in hand, a lock changes its holder only when that holder is outside the cycle,
    and the deletion without a look at the holder is made only by a job that entered
    (one that was refused the lock returns before the clean-up). What makes it so is
    the guard of `LockExpires`: the lock lives as long as a job may.
  - `OutagesAlwaysOpen`, from `BreakerInv`: while the breaker is closed its counter has
    seen every failure of the row, and the row is shorter than the threshold.

- `TradingProofs`, about the suite `Trading`:
  - `LedgerIsAlwaysSound`, from `LedgerInv`. Soundness holds between cycles only, so the
    invariant says how far the rows may lag inside one: the newest versions of the rows
    (drafts, where there are any) equal the exchange, in every symbol that is not `unsure`,
    but for the order that is about to be recorded or the position that has just been
    closed (`Balanced`); a pending row is
    the claim of the cycle under way (`ClaimsAreHeld`), whose local state (its row, the
    size it has read, the margin it was granted) is what the rows say (`Remembers`). That
    one cycle runs at a time carries it. It follows that the query after a raised order
    never finds a position nobody claimed (but in an `unsure` symbol, where it may be adopted
    beyond the capital) and that no transaction waits for another.
  - `StatesTellPositions`, from `EngineInv`: at every place of an evaluation the cycle's
    copy of the state, the row and the position differ by what the step under way is
    about to write. Of DCA the invariant needs that its quantity and the ledger's change
    in the same steps, of the grid that sold levels were bought and the row holds at
    most one unit for each level bought and not sold (if every order reported its fill), of RSI that a cycle which has seen
    no position finds none when it buys.
  - `AccountsAlwaysAgree` and `MarginsAreCovered`, from `PaperInv`: the account in memory
    is what the rows give (`Stands`) unless a drift has come between, the counters
    equal the realized profit of the committed rows but for a cycle that has committed
    and not counted (`Counted`), and the account's numbers stay where the simulator's
    tests on them are sound.
  - `RecordsExplainRows` and `PositionsKeepTheirLimit`, from `CycleInv`: every filled
    order is an executed result or one that raised (`Accounted`), and every row that
    differs from its committed version has such an order behind it (`Explained`).
  - `OrdersAlwaysFollowRules` adds `RulesInv`: each decision still in the plan of an
    executing cycle, and each order sent from it, carries its stops (`Equipped`) and has
    the votes it needs (`Backed`). The work is in `FinalIs`, that `Decide` makes such a
    plan: ballots on one symbol and action are as many as the participants behind it when
    nobody says the same twice (`BackersAre`), a majority of the ballots on a symbol is
    more than any other action has (`MostBallots`), as many ballots as participants means
    all of them, and both ways of validating keep what was voted for.
  - `OneFillPerEveryCall`, from `TraderInv`: a call has one execution behind it in the
    steps after its order and none before (`FillsFit`), so a second attempt after a rate
    limit, the only one, follows a refusal.
  - `ReportsAreHonest`, from `BacktestInv`, for any histories, windows and lists of
    instructions. Its first half is about one replay (`Sound`): the closed trades and the
    balance differ by the stake and nothing else (`Explaining`, which `SumJoins` and
    `SumRenames` carry through a set of positions closed in any order), and peak and
    deepest fall are those of the curve so far (`CurveFits`, where a fall is compared by
    multiplying across). Its second half relates two worlds whose downloaded candles agree up
    to the hour replayed: the average of earlier candles (`SignalAgrees`), the list the
    rule makes of it (`RuleAgrees`) and with it the whole replayed hour (`ReplayAgrees`)
    are the same, because none of them reads a later candle.

Every theorem whose name ends in `Invariance` states the inductive invariant itself.

Assumptions: those named in the modules (the job is not a cycle, `None` is no
identifier and no worker's record, rows, keys, presets and accounts are finite, bounds
are numbers); where a module is only instantiated they are the theorem's hypothesis,
and `Trading` and `Platform` assume them of their instances.

**Only model-checked**: liveness under fairness, which the prover cannot treat
(`RequestsEnd`, `LostOwnerStops`, `StoppedAgentRests`, `ActiveAgentRuns`). Every invariant and
every action property of the passing runs is also a theorem. Induction on numbers is done through least elements and the defining
equation of a recursive function (`Induction` in `RecursionProofs`), since the induction
theorems of the library take an operator as parameter; the community modules' folds are
defined through an operator parameter as well, which is why the modules proved about
filter with `Kept` and add with `Total`. No module uses a recursive operator.

## 12. Disagreements found

In six runs TLC finds the quoted promise violated:

| Run | Promise | What the code does |
|---|---|---|
| `find_isolation` | `CloseSparesOtherAgents` | closing a symbol closes the account's net position, other agents' shares included (`trade_execution_service.py:186`) |
| `find_lost_update` | `BalanceMatchesTransactions` | two overlapping requests read one balance and each writes its own result; the version compared is that of the caller's own object (`db/repositories/wallet.py:91`, against `db/models.py:1271`) |
| `find_reactivation` | `OrphansArePickedUp` | a loop that ended by itself stays registered and keeps its ownership; the agent that is activated again runs nowhere (`ai_backend.py:401`, against line 787) |
| `find_unscheduled` | `AgentRunsAgain` | a job's successor is refused while its id is taken (`tasks.py:698`), and the settings the worker is run with schedule no synchronisation (`tasks.py:1287`, against line 1264) |
| `find_frozen_price` | `PricesArrive` | the leader election always raises, no process prefetches, and an expired price is answered for ever (`price_prefetch.py:271`, `shared_price_cache.py:184`) |
| `find_offline` | `FailureShows` | a failed connection test writes the failure and raises, so the write is rolled back and the account stays connected (`api/routes/accounts.py:472`) |

Where the code restricts a passing property or a theorem, the exception is part of the
formula or of the instance, and is named in the comment of the property:

| Property | What it leaves out |
|---|---|
| `LedgerIsSound` | agents that do not accumulate, overlapping cycles, several agents of one account; symbols with an order that did not report its fill; lost answers, stops fired on the exchange, crashes between order and commit |
| `StateTellsPosition` | the amount, after an order that did not report its fill; adoption after a raised order (DCA, grid), a reconciliation (DCA), a changed configuration (grid), a failed query or a foreign open (RSI) |
| `RowKnowsOrders` | cycles cut short, raised or run by hand and orders whose answer was lost are lost for good; closes that find nothing are counted |
| `CyclesExclusive` (workers) | after a cycle outlived its lock; manual cycles, once one was triggered (`lifecycle.py:253` promises more) |
| `WorkersExclusive` | after a late refresh of a live owner |
| `ActiveAgentRuns` | agents whose loop ended by itself and was left registered |
| `ConfigsRecoverable`, `ActiveAgentsRunWhatTheyStarted` | a config overwritten by an explicit null |
| `ReferencesHold` | an account set to null; requests that overlap |
| `ClientsAccounted` | clients dropped by a cancellation |
| `AccountsAgree`, `RecordExplainsRows`, `PeriodsAddUp` | the drifts of section 7; orders that raised after their fill; days around a missing snapshot |

Divergences seen while modelling and described here only:

*Ledger and cycles*

- the "crash-safe" claim is only flushed: a crash after the order leaves no record
  (`agent_position_service.py:254`, `db/models.py:617`);
- the agent's close and the reconciliation job can both book a position
  (`agent_position_service.py:446`, `pnl_service.py:53`);
- an agent that does not accumulate can order again while it holds the symbol;
  the second order is in no record (`trade_execution_service.py:147`), which is why
  soundness is checked for accumulating agents;
- the capital check sums committed rows and its Redis lock is released before
  the commit, so overlapping cycles can exceed the capital
  (`agent_position_service.py:596`);
- after an exception an agent adopts the account's position, whoever owns it
  (`trade_execution_service.py:124`);
- two agents' positions that net to zero look like zombies to the
  reconciliation (`agent_position_service.py:647`), which runs when a task worker
  starts up and is scheduled at no other time (`tasks.py:1212`, against 1270); the same
  holds of the daily snapshots, which only users' requests take;
- an order that succeeds without reporting its fill (`ccxt_trader.py:719`) is recorded
  with an estimate (`trade_execution_service.py:141`), and a close that reports none closes
  the row, whatever has been executed;
- the reconciliation job and a cycle can deadlock over rows of several symbols;
  an aborted cycle loses the records of what it did on the exchange;
- an exception after a filled open confirms the row and is raised again: the
  record says "not executed" (`strategy_engine.py:803`,
  `trade_execution_service.py:104`); closing a symbol that is flat is "executed";
- unanimity and majority count ballots, not models: one answer that lists a symbol
  twice votes twice (`debate_engine.py:48`);
- without a market price an open is sent without stops;
- the decision record commits the transaction in mid-cycle
  (`strategy_engine.py:834`).

*Engines and traders*

- closing without a position succeeds (`ccxt_trader.py:935`): after the first sale
  the later grid levels sell nothing and book a profit; levels are never armed
  again; a price at or below the lower bound buys one level more than `grid_count`;
- DCA at its last order waits for a profit with nothing left to sell;
- a cycle cut off at 300 s loses state and row while its orders stay; RSI takes
  over positions of others, and a failed query falls back to memory;
- stop and target orders are never cancelled on a close; an order that reports no
  fill yet gets no stops and counts as success, and a stop that is refused is not
  reported.

*Workers and queue*

- a worker stopped through `/workers/{id}/stop` is started again by the periodic
  task within a minute;
- an AI cycle has no time limit: one that outlives the execution lock overlaps
  the next one and deletes its lock (`ai_backend.py:238`, `lifecycle.py:291`);
  a manual trigger does not take the lock (`ai_backend.py:670`);
- endless time-outs never end a quant worker: five errors within 600 s cannot be
  time-outs of 300 s (`quant_backend.py:215`, `core/config.py:131`); a cycle skipped for the lock
  counts as a success; a manual quant trigger writes the state but no counters;
- the job a start request asks for is refused while the agent's id is taken; `job_try`
  grows with crashes only;
- a grid's close that finds no position is counted as a trade (`ccxt_trader.py:934`,
  `quant_engine.py:342`); an order that raises makes the engine return its old state,
  and the orders before it are forgotten (`quant_engine.py:320`, `403-413`);
- the synchronisation clears the heartbeats of running cycles, and marks idle
  agents whose interval exceeds 300 s as failed, which `tasks.py:862` calls crash
  recovery (`worker_heartbeat.py:233`);
- `accounts.py:371` calls `TaskQueueService()` without its argument, so deleting an
  account never stops its agents' jobs.

*Accounts, strategies, credentials*

- restoring a version puts back a name that may be taken (`strategy.py:435`,
  against `name_check_service.py:20`);
- overlapping requests break every check-then-act: two agents above 100 % of an
  account, a pause that overtakes a stop, version numbers used twice, fork counts
  lost; an update may also exceed 100 % alone, or null the account of an agent
  with open positions;
- deleting an account closes rows at price 0 without touching the exchange;
  deleting an agent by force goes on after a partial failure;
- new credentials leave the account's status and its cached balance as they were;
  overlapping edits of a model list lose one another's; with two providers of one
  type the newest key is used for the models of both (`services/ai/credentials.py:41`).

*Paper trading, backtest, prices*

- a restart forgets a stop (`workers/tasks.py:50` promises continuity);
  a manual trigger has an account of its own; stopping with close books price 0;
  a cycle that ends between commit and counting leaves `total_pnl` short; the
  counters are written as absolute values (`db/repositories/agent.py:236`);
- in a backtest `symbols` changes only what is loaded, a failing page truncates
  silently, curve and drawdown omit the final close, fees never leave the balance;
- `RedisService.set` takes neither `ex` nor `nx`: the second level of the price
  cache, the candle cache and the election always raise, and the exception is
  swallowed (`shared_price_cache.py:339`, `market_data_cache.py:78`).

*Money, members, reports*

- a confirmation repeated while the first runs credits
  twice (`api/routes/recharge.py:302`); a cancellation that overlaps a
  confirmation undoes the completed status (`api/routes/recharge.py:360`); a
  downward adjustment calls `refund`, which raises the balance
  (`api/routes/wallets.py:265`);
- a user can use two invitation codes through overlap or a move
  (`invite_service.py:86`); the member counter loses updates; the administrator of
  two channels gets an error, and so does an unknown one;
- the snapshot job loses its day if a manual sync inserts first; the day's baseline
  is the first dashboard request's total; a snapshot after a missing day shows the
  whole result as that day's (`pnl_service.py:481`); the week's start is the
  minimum, not the first value (`dashboard.py:457`).

*Services*

- a coroutine that is cancelled in `acquire` leaves the client it evicts or the one it
  creates open and in no table (`exchange_pool.py:129`, `:139`, and `:242`, which catches
  `Exception` only), against its docstring at line 207; the pool closes clients in use,
  exceeds its size by the number of exchanges less one, and `close_all` forgets clients
  stored meanwhile;
- WebSocket limits are tested before a connection is entered; an owner who has
  subscribed gets a decision twice; failed look-ups are remembered as refusals;
- the order manager never retries (`order_manager.py:142`), loses the callback when
  Redis fails, and a failed cancellation leaves the order untracked;
- an open breaker raises without asking pybreaker, so it never becomes half open
  (`core/circuit_breaker.py:259`, against line 6); time-outs that are excluded
  reset its counter.

## 13. What is not modelled

- **Authentication, encryption, throttling**: request checks without shared state
  that other parts read. Registration is in `Channels`.
- **AI clients, prompts, indicators, notifications**: external services, text and
  floating-point formulas; an answer is a choice of the models.
- **Accounting and read-only routes**: sums and listings over tables.
- **The older worker managers, the quant router, the second half of `agents.py`**
  (lines 1106-1265): the unified manager replaced the first, the second is not
  mounted, the third is unreachable.
- **Configuration, metrics, start-up, frontend, migrations, deployment**; of the
  last only the restart policy is used, as fairness.

Components marked "partly" leave out what their note says, mostly read-only
operations, and detail whose outcome is taken as a choice. Overlapping
administrative requests are not modelled step by step: the divergences above show
that no property of those routes survives them. Wallets are modelled with their overlaps;
the module says nothing of the statistics columns.

## 14. Plan

The models cover the core, and every safety property of a passing run is proved. What remains
would extend the model: overlapping administrative requests step by step, once their
divergences of section 12 are settled, and the parts marked "partly" in section 13.
