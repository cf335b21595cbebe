# Verification of namu-auto-trader in TLA+

The program (`src/`) trades Korean stocks on one or two accounts of a broker
(a real one and a paper one). One Python process per mode runs a loop every
three seconds: it reads balances and quotes, decides, sends orders, follows
them, and manages the positions they make. Around this loop stand a token and
request gateway, a cash ledger, a position manager, an exit watchdog, databases,
a Telegram channel, a learning pipeline, telemetry, a backtester and process
supervision.

The modules here model what these parts do to each other: what an order is from
the moment it is decided until broker, router, ledger and position manager agree
about it again; who may trade and who may buy; what is written, read back,
answered, learned and published, whatever the broker, the network, a second
process and the operating system do in between.

## 1. Inventory

### Components, their state and operations

| Component | Source | State | Operations | Hard behaviour |
|---|---|---|---|---|
| Central cash ledger | `risk/portfolio_cash.py` | `cash_available`, `reserved_cash`, `reservations` | reserve (with SWING reduction), settle, release, sync | running total kept by additions and clamped subtractions; partial fills |
| Order router | `execution/order_router.py` | `order_registry`, `pending_orders`, `pending_entries`, `executed_intent_ids`, `recent_orders`, critical-exit flag | `submit_order`, `on_fill`, `cancel_order`, `reconcile_orders` | leaves its lock for the broker call; lost answers; fills reported twice; unreadable executions |
| Broker client | `namu_client.py` | none (broker's orders, executions, cash, holdings) | buy, sell, cancel, day's executions, balance, sellable quantity | the broker goes on alone; answers are lost or stale |
| API gateway, balance service, daily candles | `core/api_gateway.py`, `core/balance_service.py`, `core/daily_data_service.py` | endpoint circuits, flights, caches | `call_api`, `get_balance`, `get_daily` | repeats requests, orders included; followers of a merged request time out |
| Token manager | `core/token_manager.py` | token file, memory cache, lock file | `get_token`, `mark_invalid`, lock with stale reclaim | several processes, one file |
| Position manager, exit policy | `execution/position_manager.py`, `execution/exit_order_policy.py` | `open_positions`, `closed_positions`, exit targets, failure counts | open, partial exit, close, listeners, exit timeouts, adoption, stops tick by tick | deducts by listener and by caller; override releases a quantity twice |
| Exit watchdog | `execution/exit_watchdog.py` | lifecycle stamps, failures, protective mode | cycle, invariants, escalation, fail-safe | stamps outlive positions |
| Periodic reconciliation | `execution/persistence_manager.py` | (positions, orders) | `perform_reconciliation` every 180 s | overwrites quantities while fills are unreported |
| Trading loop | `execution/live_quant_trader.py` | account contexts, cycle state | premarket adoption, cash sync, scans, entry, exits, reconcile | order of its steps; what each leaves to the next |
| Execution ledger | `execution/deadlock_transaction.py` | SQLite rows of fills, orders, positions | deduplicated, retried updates | a commit that may or may not have happened |
| Circuit breaker, loss limits | `risk/circuit_breaker.py`, `risk/loss_limits.py` | error counts, stale-data and recovery times | trip, recover, gate entries | two heartbeats, recovery on the spot |
| Account lock, supervisor | `core/account_lock.py`, `execution/auto_restart_supervisor.py` | lock files; restart times, backoff | acquire, acquire_all, release; run, restart, terminate | locks taken one by one; traders that outlive their supervisor |
| Telegram channel | `core/telegram_*.py` | receiver offset, polling lock, feedback rows | poll, dispatch, persist offset, feedback | redelivery |
| After-hours manager | `core/after_hours_manager.py` | candidates, memory copies | detect, evaluate, expire, summary | copies of two processes over one table |
| Learning pipeline | `ml/*.py` | registry, datasets, labels | train, promote, roll back, label | two writers of one file |
| Symbol store and radar | `core/symbol_store.py`, `core/candidate_promotion.py`, ... | states of the stocks | promote, demote, rolling scan | hysteresis, batches that wrap |
| Market data | `core/aggregator.py`, `core/market_radar.py`, `core/data_quality_gate.py` | bars, running totals | update, prefill | two sources of one cumulative volume |
| Trade database and accounting | `ml/trade_db.py`, `database/persistence.py`, `core/trade_accounting.py` | rows of trades, fills, positions | record, report | two databases that tell the same trade |
| Backtester | `backtester/` | tracker, simulated book | replay | agreement with the live exits |
| Telemetry | `execution/live_telemetry_exporter.py`, `execution/telemetry_git_syncer.py` | queue, live status, git lock | export, snapshot, flush, commit and push | two feeds of one status and two consumers of one queue; two processes in one repository |
| Detectors, strategies, universe, regime, dashboard, scripts, legacy trader | `strategies/`, `core/edge_engine.py`, `universe/`, `market_regime/`, `web_dashboard.py`, `scripts/`, `main_trader.py` | none of their own | scores, tables, pages | not modelled (section 8) |

### How they interact

The trading loop is the only caller of the router, the ledger and the position
manager: their calls are synchronous and one at a time. The router calls the
ledger under its lock, leaves the lock to call the broker, and calls back the
position manager through its fill and cancel listeners. The position manager
calls the router for every exit; the watchdog drives it first in every cycle and
closes the gate for BUYs. `perform_reconciliation` changes positions from the
broker's balance without asking the router. The broker acts at any moment.
Processes share the token file, the account lock files, the databases, the
model registry's file and the telemetry directory; threads share the gateway,
the balance cache and the exporter's queue.

### What makes the system correct

* Ledger and router: the ledger's total is the sum of its promises, an unfilled
  BUY keeps its whole promise; the router's records agree with each other and
  with the broker; one intent makes one order; a SELL sells only shares that are
  there; a finished order is found.
* Positions claim only what the account holds; shares nobody manages are found
  again; a stop is acted on, and before a profit target.
* Every execution is counted once; what a caller is told about it is true.
* A token is refreshed rarely; a request that was answered is not repeated; a
  balance is whole; every call ends.
* An account is traded by one process; no BUY goes out while an exit fails, an
  account is at its limit, a stock rests, or too many orders failed in a row.
* No message is answered twice; no share's profit is reported twice; a decision
  is labelled by its own outcome; one model is the champion.
* The replay accounts for every won and exits as the trader does; the published
  status tells what is open; two processes are not in git at once.


## 2. Modules

| Module | Models | State and actions against the code |
|---|---|---|
| `PortfolioCash` | the ledger | its three variables, one operator per method; no Next of its own, because every method runs under the manager's lock inside a step of the router |
| `OrderRouter` | EXTENDS `PortfolioCash`: the router, the broker as its calls see it, the gateway's repeated requests, cash synchronisation, restart | see below |
| `ExitFlow` | EXTENDS `OrderRouter`: positions, entry, tranches, exits with override, exit timeouts, adoption and the 180 s reconciliation; each step conjoins a router action or leaves the router alone | see below |
| `ExitWatchdog` | the watchdog's cycle over all positions, with the position manager's exits reduced to their outcome | `stamps`, `failures`, `blocked` are the watchdog's stage stamps, failure table and protective mode; `phase`, `todo` are its place in the cycle; `Check*` is `_check_position` with each outcome (the stop is stamped before the exit is tried, so a check that raises may leave its stamp: `StopStamps`), `Evaluate` the invariants, `Retry*` the fail-safe sale, `EndCycle` the router's flag; the rest of the loop follows between two cycles |
| `ExactlyOnceLedger` | what the execution ledger promises: an execution counts at most once and moves one position of its account | `counted`, `book`, `owner`; one action |
| `ExecutionLedger` | `apply_execution_update` of several threads over SQLite, implements `ExactlyOnceLedger` | `db` committed rows, `tx` rows of the open transaction, `writer` who holds `BEGIN IMMEDIATE`, `call` each caller's event, attempt and answer; a commit that raises may have taken effect (`LockError`); the three tables' keys are each the program's own, so a row of the other account stands in the way of an insert (`KeyTaken`) |
| `TokenManager` | threads of several processes share one token | `memory`, `disk`, lock file, thread locks, `pc` of each thread; `stale`, `GiveUpWaiting`, `UnlinkStaleFile`, `CrashProcess` are the ways round the lock |
| `ApiGateway` | circuits, flights, retries, with the balance service and the daily candles as clients | `gpc`, `attempt`, `joined` (whose flight), `circuit`, `balance`, `daily`; `Attempt(c, o)` is one round of `_execute_with_retry` with the broker's outcome o |
| `CircuitBreaker` | the breaker with all its callers | one operator per method on a record of its fields; `Cycle`, `OnTick`, `Buy`, `Sell` are the callers; time in steps |
| `ProcessControl` | supervisors, traders, lock files | `sup`, `trader`, `supLock`, `acctLock`; locks are taken one per step, dropped by the operating system at any end |
| `TelegramChannel` | receivers, one polling lock, one message table, feedback numbers | `rx` of each receiver: its batch and the place in `_handle_update`; every read and write of the database is a step that may fail alone; `CrashReceiver` between any two |
| `AfterHours` | the watchlist: copies of each process over one table | `candidates`, `copy`; `DetectAfterHoursSpike`, `EvaluateSignal`, `ExpireStaleWatchlist`, `Restart` |
| `ModelRegistry` | the trader's registry and the dashboard's rollout in one file | `file`, `registry`, `rollout`; each save writes its own layout, a load takes the keys it knows; `StopTrader` may tear the file |
| `TradeBooks` | what the dashboard reports of finished trades, from two databases | rows are sets of records that name the shares they stand for, so that counting twice shows; `Completed` is `get_completed_trades`, with the rows that made nothing and take later sales for theirs (`SoldSince`) |
| `LearningData` | snapshots, trackings, outcomes and the labels of the day | `EvaluateDecision`, `Resolve`, `ForgetTracking`, `CollectAndLabel` |
| `PriceMeasures` | how far a price has moved, shared by both position trackers | operators in whole numbers |
| `ExecutionSimulator` | what an order of the replay fills, at which price and cost | operators on a bar |
| `BacktestTracker` | the replay's positions as a value | `Updated` is `update_and_manage`, one operator per section of it |
| `Replay` | the replay engine: manage, evaluate, mark, bar by bar | `cash`, `equity`, `cooldowns`, `tracker`; the loss ladder and the sizes as the engine applies them |
| `LiveExits` | `update_price_and_manage` as a value: `LiveManaged(p, x)` | precedence of the exits, the kind of order each gets, how much of it the broker has to give (`ToSell`), what is read after a refusal (`Synced`), and the fills, withdrawals and timeouts that follow; positions opened and adopted ones |
| `ExitParity` | the same position in `LiveExits` and `BacktestTracker` over the same prices | EXTENDS both; `live` and `replayed` take every tick together, `parted` and `slow` mark the named differences |
| `EntryStage` | `run_cycle` as the one thread that sells and buys | `stage`, `books` per account and stock (position, waiting orders, rest, counts), `mayBuy`; the outcome of every exit and order is open, and any stage that asks for candles may raise (`SignalRaises`) |
| `TelemetryExporter` | live status fed by snapshots and by a bounded queue of events | `events`, `shown`, `unfinished`, the `hand` of the writer and of the git thread that drains beside it (`GitFlushes`, `DrainEnds`), which of them took first (`ahead`); `Export`, `SyncOrders`, `SyncPositions`, `Shutdown` |
| `TelemetryGitSync` | two processes commit one directory | `worker` of each thread in flush, add, diff, reset, commit, push; the lock file found, judged, removed and made in steps of its own (`Lock`, `RemoveStale`), its age in steps of 30 s |
| `MarketStore` | which stocks the trader looks at | `stocks`, rolling batch, the four scanning stages of a cycle |
| `MarketCandles` | bars, volume and VWAP from the quote and from the radar's page | `candles`, `sums`, `gate` |
| `MCExitFlow`, `MCExecutionLedger`, `MCBrokerAccess`, `MCControl`, `MCServices`, `MCDecisions` | instances for TLC | the last four compose components that share no state: `part` says which of them a behaviour is about |
| `OrderRouter_proofs`, `ExitFlow_proofs`, `ExecutionLedger_proofs` | theorems about these modules | |
| `Control_proofs`, `BrokerAccess_proofs`, `Services_proofs` | theorems about the components that `MCControl`, `MCBrokerAccess` and `MCServices` compose | one part per component, one step lemma per action |
| `Decisions_proofs` | theorems about the replay, `LiveExits`, `ExitParity`, `EntryStage`, `TelemetryExporter`, `TelemetryGitSync`, `MarketStore` and `MarketCandles`, as `MCDecisions` composes them | one inductive invariant per part, one step lemma per action |
| `Sums_proofs` | lemmas about sums of a function over a finite set | what `SumFunctionOnSet` of the community modules does when a term changes, is added, dropped or compared |

`OrderRouter` and `ExitFlow` are checked directly: each declares its parameters
as CONSTANTS with named assumptions, and a `.cfg` gives the values.

### OrderRouter: state and actions against the code

* `ord`, `status`, `filled`: `Order` objects of `order_registry` (`"NONE"`: not
  created, `"FORGOTTEN"`: created by an earlier process).
* `pending_orders`, `pending_entries`, `executed_intent_ids`, `cooling`
  (`recent_orders`), `critical_exit_failure_active`: the router's fields.
* `calling`: the order whose broker call has left `execution_lock`. As one
  thread drives the router, no other router step is possible until the answer.
* `bstate`, `exec`, `broker_cash`: the broker's side of the attempt whose answer
  counts; `lost`: the orders of earlier attempts of the same request.
* `SubmitBuy`, `SubmitBuyNoCash`, `SubmitSell`: `submit_order` up to the point
  where the lock is left, with idempotency guards, pre-order checks, registration
  and reservation in one step. `AckReceived`, `SendFailed`, `PaperFill`: the
  answer, with the immediate look at the day's executions.
* `Retry`: `_execute_with_retry` after a timeout, server error or unknown error
  although the broker had taken the order.
* `ReconcileFill`, `ReconcileCanceled`, `ReconcileByHoldings`: the loop body of
  `reconcile_orders`, one branch each; `OnFill` is `on_fill`; `CancelOrder` is
  `cancel_order` whether or not the broker obeys.
* `SyncCash`: step 4 of `run_cycle`; `Restart`: a new process.
* `BrokerAccept`, `BrokerFill`, `BrokerCancel`, `LostFill`, `LostCancel`: the
  broker (external), share by share.

### ExitFlow

* `pos`: the open `Position` of a symbol with the fields exits depend on
  (quantity, `pending_exit_qty`, `active_exit_order_id`, `broker_psbl_qty`,
  failed exits, targets taken). `call`: the position manager's call under way,
  between its first router step and the answer. `lingering`: exit orders carried
  by `closed_positions`.
* `Enter` / `ExitAnswered`: `run_cycle`'s entry and `open_position`.
  `PartialExit*`: `_partial_exit`. `OverrideExit`, `Close*`: `_close_position`.
  `ExitTimeout`, `LingeringTimeout`, `Resubmit*`: `check_exit_order_timeouts`.
  `AfterFill`, `AfterCancel`: the listeners. `Adopt`, `CloseMissing`,
  `CorrectQty`: `perform_reconciliation` with `sync_from_broker`.

### Assumptions of the models

* Orders: one share costs `UnitFill` when filled and `UnitReserve` when reserved
  (fee and slippage buffer): one price, because the ledger compares amounts only.
  The broker executes share by share; it refuses a BUY its settled cash does not
  cover and a SELL of shares already for sale or not held. An attempt reaches the
  broker before it is given up, or never. Order numbers match one to one per
  answered request. An entry of ExitFlow is sized so that the ledger need not cut
  it and carries no intent id (`run_cycle` sets none).
* Numbers: `LiveExits`, `Replay` and `ExecutionSimulator` compute in whole won
  (or in 1/100000 won where a rate must be exact) below 2000 won, where a tick is
  one won; comparisons of ratios are multiplied out, so nothing is rounded that
  the code does not cut off with `int()`.
* Scores, similarity, strategies and market conditions are open choices: any
  signal, any verdict on a stock, any exit condition may hold at any time.
* Time is what the properties need of it: steps of the breaker's clock, minutes
  of the day, 30 s in git, five periods of a day after hours, levels of a token's
  remaining life.
* Components put into one run by `part` share no variable in the code; where they
  do share one (router and positions, both trackers, both databases of a trade),
  one module has both.

## 3. Runs

| Run | Instance | Question |
|---|---|---|
| `router` | 3 orders of 1-2 shares, cash for two, each request sent up to twice | Do promises (`UnfilledBuyIsReserved`), sells (`SellIsCovered`), the entry slot (`SecondBuyOnlyAfterSell`), bookings (`NoPhantomFill`) and cancellations (`CanceledMeansDead`) survive every order of answers, lost answers, fills, withdrawals and cancels? |
| `router_faults` | 2 orders, 2 symbols, 1 intent, cash for three shares, real and paper account, 1 restart, unreadable executions | Do the router's records agree (`TypeOK`, `ReservedIsSum`, `PendingIffOpen`, `StatusMatchesFilled`), is one intent one order, and does a finished order leave `pending_orders`? |
| `exit_flow` | 3 orders, entries of 1-2 shares, exits up to 4, unreadable queries, one target; or 2 orders whose requests may be sent twice | Does a position ever claim more than the holdings and the unreported fills explain (`PositionIsCovered`)? |
| `exit_faults` | 2 orders, 1 restart, unreadable queries, fairness | Is every step of the composition a router step (`ImplementsRouter`), and are shares without a position adopted (`UnmanagedIsAdopted`)? |
| `ledger` | 2 workers, 2 attempts, 3 calls, 1 crash; a BUY of each account whose new rows would have the same key, a SELL reported by two sources, with the order key of the other account's BUY | Is every execution counted once (`ImplementsLedger`), are answers true (`AnswerIsTrue`), do the tables move together (`TablesAgree`), do calls return (`CallsReturn`)? |
| `broker_access` | token: 2 threads of the trader, 1 of the dashboard, 2 issues, 3 calls, 1 crash, 1 revocation; gateway: 2 threads, 2 pages, 2 retries, threshold 2, 2 tasks each | Is a token refreshed at most once in five seconds per process and the lock file shared only after a timeout or reclaim (`TokenSound`); is a request repeated only unanswered, a circuit open exactly at its threshold, a balance partial only after a follower gave up (`GatewaySound`); does every call end (`CallsEnd`)? |
| `control` | watchdog: 2 symbols of which one may fail for ever; 2 supervisors, 3 traders, 3 ends; breaker: stall 1, window 3, confirmation 2, 3 errors | Is an account traded once (`AccountsSound`), do failed orders keep BUYs back (`GatesSound`), does no BUY go out while an exit fails (`BuysWaitForExits`), is a stop acted on whatever fails elsewhere (`StopIsActedOn`), is an account traded again (`TradingResumes`)? |
| `services` | 2 receivers, 3 messages, one edited, 1 failure; 2 traders, 3 days; 2 models, 2 days, 2 crashes, 1 torn file; 3 sales in 3 minutes of 2 days, 1 lost row; 2 decisions, 2 days | Is no message answered twice and a confirmed feedback kept (`MessagesHandled`); is there one champion (`OneChampion`); is profit reported once (`ProfitReportedOnce`); does an evening's rise wait for a later day (`EntryWaitsForNextDay`); is a decision labelled by its own outcome (`LabelledByOwnOutcome`)? |
| `decisions` | two replayed symbols, four markets, three times of day; six positions, three of them adopted with a sale of their own, of someone else's or of the router's, eight ticks, one of them with another ATR, six minutes of which a position may pass any without a tick; 2 accounts, 1 stock, 13 minutes; 3 orders and positions over a queue of one and two consumers; 2 processes in git; 3 stocks in batches of two; 3 prices, two bar lengths | Does the replay account for every won, its `reconciliation_diff` for nothing but what it leaves out and counts twice, do round trips sell what they bought and is nothing held over night (`ReplaySound`); is a stop served before a target with all the broker has to give, and no share held back (`ExitsSound`); do purchases follow the last balance and the rests (`EntriesSound`); does the status settle whichever thread takes an event and git stay exclusive (`TelemetrySound`); do stocks move down after their time only, does the batch reach all, is the day's volume counted once (`MarketSound`); do the longer bars tell what the shortest ones tell, and does the replay exit as the trader does but for the differences named (`TwinsAgree`)? |
| `phantom_fill`, `promotion_survives`, `vwap_within_prices` | one component each | Statements of the source that do not hold (section 6). |

### Bounds and why they are enough

* Three orders: one BUY, one SELL that ends while the BUY is live and one more
  order that profits from it is the longest interplay the router's maps allow.
  Two orders suffice where a restart, a second symbol or a repeated request
  multiplies the states.
* Two shares: a partial fill needs two; `MaxQty` 4 in `exit_flow` lets a doubled
  quantity (`pending_exit_qty` counted twice, re-ordered whole) exceed it.
* `MaxAttempts` and `MaxRetries` 2 for the code's 3: a third attempt repeats what
  the second does.
* One restart, crash, torn file, lost row or failing database call: it empties
  the memory or interrupts one call; a second finds the same. The model registry
  has two crashes, because the trader and the dashboard can each be away.
* Two threads, processes, receivers, supervisors: the races are between two; the
  token has three threads so that two share a process and one does not.
* The clocks run just over the longest period a property speaks of: 13 minutes
  in `EntryStage` (rests of ten), one step past Window + Confirm + Stall in the
  breaker, the ages of a stale lock in git, three days for an evening, the next
  day and its expiry.
* `EntryStage` follows the second account for its first three minutes only, long
  enough for a signal of one account to reach the other.
* `Replay` uses a flat bar, one that touches both targets and falls back, and a
  gap below the stop with little volume: each branch of the tracker, and two in
  one bar.
* Every bound is a guard or a constant of the instance; the proofs have none.

### Fairness

* `router_faults` (`FairSpec`): the router's answers and the reconciliation of
  each order are weakly fair. `run_cycle` calls `reconcile_orders` every three
  seconds and every broker call ends within its timeouts and attempts. Nothing is
  assumed of the broker, of new signals, of cash synchronisation or of restarts.
* `exit_faults` (`AdoptFairSpec`): a call of the position manager is answered and
  followed up, positions with an exit condition are closed, and holdings are
  compared (180 s). Fairness of closing says only that an enabled close is tried,
  as the loop does each cycle for an end-of-day exit.
* `ledger`: each worker goes on with its call; every wait in it ends by
  `busy_timeout`. Which way a step ends is not assumed.
* `broker_access`: each thread of the gateway goes on; a follower's time-out
  (`StopWaiting`) is not needed and not assumed.
* `control`: the watchdog's cycle goes on, because the loop calls it every three
  seconds and each of its parts ends or is caught; `phase = "idle" /\ Adopt(s)`
  is the reconciliation between two cycles, which runs every 180 s and stays
  enabled from one idle moment to the next; strong fairness of `Priced(s)` says
  that a quote for s, asked for in every cycle, comes again and again and its
  sale is then not refused for ever, for the symbols in `Quoted` only. A
  supervisor and a trader take their own next step; nothing is assumed of who
  ends or is killed.
* `services` and `decisions` check safety only and assume no fairness.

### Constraints

Five runs or parts of runs leave some of their state space out; each part is named here.

* `broker_access` (`OneTrouble`): a process dies or the broker revokes a token,
  not both in one behaviour.
* `services` (`Unexcused`): once a failed database call has made the Telegram
  property's excuse true for good (`shaky`), the behaviour is not followed.
* `exit_flow` (`RepeatedAlone`): a request that reaches the broker twice is looked
  at with two orders instead of three, and one at a time. (`WhileOrdersLast`):
  when all orders of the instance are used, cash and cooldowns, which only decide
  whether a further order is sent, stay as they are.
* `decisions` (`BothEnter`): of the second account nothing is followed after the
  third minute; the theorems about `EntryStage` do not use this. (`TwoBegin`): of the
  three orders and positions two at most come to be, any two: an item overtaken in
  the queue and another that shares its owner or its kind.
* `control` (`BuyOfNew`): the one purchase of a behaviour is of the stock whose quote
  comes, when it was not adopted and watched before.

## 4. Mutants

Each property of a passing run has a mutant: a definition with the change a
plausible bug would make (a slot freed by a rejected order, a position row
written outside the transaction, a token refresh without the second look, a
lock taken for two accounts and kept when the second fails, a queue's counter
compared by state, ...). The mutated forms stand before the definitions they
replace and are named in PROJECT.json; the property of the run is violated under
each. Where a run composes several components by `part`, its property is a
conjunction of the named properties of one component, and each name in it is
stated, with its comment, in the component's module.

## 5. Theorems

Proved with TLAPS for any orders, symbols, intents, quantities, cash, attempts
and restarts, threads, processes, callers, pages, receivers, messages, models,
days, sales, positions, prices, stocks, items and bars, from the named
assumptions of the modules alone. Beyond types these assume

* finitely many orders; that the values for "nobody" and "none" name no thread,
  receiver, order or intent; at least one day of model training, one token, and
  as many minutes as a day of trades has;
* that a fresh position id was not named before (`LedgerAssumption`);
* that a position of `LiveExits` starts active, and holds back no more than waits
  in its order or in sales the program does not know, as `open_position` and
  `sync_from_broker` make it (`LiveAssumption`);
* that a watched stock times out no sooner than its promotion ends
  (`StoreAssumption`: 300 s against 120 s), and that the list of stocks is at least
  as long as a batch, as that of the whole market is;
* that at least as many bars are kept as the volume baseline reads, and that no
  price is zero (`CandlesAssumption`: 1000 against 20);
* that the replay has a symbol and a time of day, its bars pass the data quality
  gate, and prices, volumes and ATRs are whole and not negative
  (`ReplayAssumption`);
* that a position followed in both trackers is as `open_position` makes it of a stop
  below the entry, and 15 % of a bar's volume, all that the replay's simulator sells
  in one, are enough for it (`ParityAssumption`). A thinner bar parts the two at
  once: the simulator fills part of an order, the paper account all of it.

The proofs do not use the constraints of the runs (section 3), so `MessagesAreHandled`,
`TokenIsSound` and `PositionsCovered` also cover what those leave out.

### The router and the exits

The inductive invariant `RouterInv` of `OrderRouter_proofs` is the conjunction of

* `TypeOK`;
* `OrderInv`: a created order has its data, an uncreated one has no trace at the
  broker, a live one has something left, nothing is executed beyond its quantity;
* `LostInv`: the same of what repeated attempts left behind;
* `CallingInv`: the order under way has status `ORDER_SENT`;
* `PendingIffOpen` and `StatusMatchesFilled`.

`TypeOK` alone is not inductive: that `filled` stays in range needs the
quantity known to the broker to be within the order's (`OrderInv`), which needs
the order to exist when the broker executes it, which needs `CallingInv`.
`StatusMatchesFilled` needs `PendingIffOpen` to know that a fill only reaches an
open order. There is one lemma per action (`BrokerAcceptInv` ... `RestartInv`),
`RouterStep` collects them, `RouterInvariant` concludes.

| Theorem | Establishes | Argument |
|---|---|---|
| `RouterInvariant` | `[]RouterInv` | above |
| `TypeCorrect`, `PendingCorrect`, `FilledCorrect` | `TypeOK`, `PendingIffOpen`, `StatusMatchesFilled` | conjuncts |
| `TerminalFinal` | `TerminalIsFinal` | an order in a terminal status is neither pending nor under way, and nothing else is written |
| `CanceledDead` | `CanceledMeansDead` | only `ReconcileCanceled` sets it; what the broker withdrew stays withdrawn unless the request is under way |
| `ReservedInFull` | `UnfilledBuyIsReserved` | ledger methods touch one order's promise (`LedgerFrame`) |
| `FillsAreReal` | `NoPhantomFill` when executions can always be read | `exec` of an order never falls, except when an attempt is repeated, and then nothing is booked |
| `IntentOnce` | `IntentMakesOneOrder` | the order an intent was spent on is the only one of this process that reached or may reach the broker (`IntentInv`, `ReachedStep`) |
| `SlotsExclude` | `SecondBuyOnlyAfterSell` while executions can be read and until a restart | a BUY that waits for its end holds the entry slot of its symbol, or a SELL of the symbol has ended since (`SlotInv`): `EndedStays` shows that an ended SELL stays ended, `SlotsKept`, `SlotFreed`, `SlotFilled` and `SlotTaken` what each action does to the slot |
| `ReservedTotal` | `ReservedIsSum` | one step changes the promise of one order and the total by as much; no subtraction is clamped, because a promise is one of the terms |
| `SalesCovered` | `SellIsCovered` | from `NeverShort` (`SalesBacked`: no symbol is sold short at the broker), below |
| `ExitImplementsRouter` | `ExitFlow` implements `OrderRouter!Spec` | every step is a router step or leaves the router alone (`ExitStep`) |
| `ExitKeepsGuarantees` | the router's guarantees hold of the composition | from the refinement |
| `FlowInvariant`, `ExitTypeCorrect`, `PositionsCovered` | `[](RouterInv /\ FlowInv /\ SalesBacked)`, `ExitTypeOK`, `PositionIsCovered` | below |

Holdings and shares for sale are sums over orders and over lost attempts.
`Sums_proofs` proves of such sums what the steps need (`SumChange`, `SumAdd`,
`SumMonotone`, `SumSubset`, ...). A statement about all finite sets is shown there
by `SubsetInduction`: a set of subsets that has the empty one, and one element
more with each of its members, has the whole set. `Totals` and `BackedMeans` turn
`SalesBacked` into one number per symbol. Every step leaves or raises it except
the broker's acceptance of a SELL, which lowers it by the order's quantity and
comes about only when as many shares are free. `SalesBacked` therefore rests on
that refusal, an assumption about the broker (section 2), and is a lemma here
more than a promise of the code: it is what `SalesCovered` and the claim below
start from. `SellIsCovered` is about the code.

`PositionIsCovered` is not inductive. The argument is a claim per symbol: the
shares bought at the broker less those whose sale the router has booked
(`Claim`). A position claims within it (`PosInv`); it falls only when a SELL is
booked, and then the listener takes as many shares off the position; what an
entry has bought so far is unclaimed until its answer opens the position
(`CallInv`); no SELL is booked beyond its executions (`SellReported`), because
a full booking without the broker's word happens to BUYs only; adoption takes
what the account holds, which by `SalesBacked` is within the claim
(`ClaimCoversHoldings`). `ClaimMeans` says the claim in the words of the property.

### The execution ledger

`ExecutionLedger_proofs` shows that a report counts once whatever its threads, the
write lock, commits in doubt and crashes do, for any reports, accounts, positions,
retries and calls. `LedgerAssumption` says what reports are; its one condition
beyond types is that a fresh position id, which carries the millisecond, was not
named before by a purchase of the same account.

The inductive invariant `LedgerInv` is the conjunction of

* `TypeOK` and `AnswerIsTrue`;
* `DataInv`: the committed rows have their type, fills and orders agree
  (`Agree`), and a row nobody owns is empty while an owned one was opened by a
  counted purchase of its account (`RowsOwned`);
* `LockInv`: exactly the thread in a transaction holds the lock; without one
  `tx = db`; what is ready to commit is either nothing, because the report is
  counted, or that one report on top of the rows it will replace (`Fresh`).

`AnswerIsTrue` alone is not inductive: that a purchase whose key is taken meets
another account's row needs `RowsOwned`, and that a committed report is in the
table needs `LockInv`. The proof goes through the data: `MovedByReport` says what a
report does to the positions (the oldest open row exists by well-foundedness of
the naturals, `OldestExists`), `StepOfDb` that a step writes nothing, one fresh
report, or a mark; `AppliedKeeps` and `MarkedKeeps` give `DataStep`.

| Theorem | Establishes | Argument |
|---|---|---|
| `LedgerInvariant` | `[]LedgerInv` | `TypeStep`, `DataStep`, `LockStep`, `AnswerStep` |
| `LedgerTypeCorrect`, `AnswersAreTrue`, `TablesMoveTogether` | `TypeOK`, `AnswerIsTrue`, `TablesAgree` | conjuncts |
| `CountedOnce` | `ExecutionLedger` implements `ExactlyOnceLedger` | a fresh report is `Count` (`AppliedCounts`); every other step leaves fills and positions alone |

### The gates before a trade

`Control_proofs` is about `MCControl`: a step of one component leaves the state of
the others alone (`StepOfOne`), so its invariant `GatesInv` is a conjunction of
three, each inductive over its own component.

* `ControlInv`: `ControlTypeOK` and `TradersHoldLocks`. `AccountTradedOnce` counts
  traders and says nothing of locks, so it is not inductive: the second trader is
  kept out by the first one's lock, which it keeps when its supervisor is killed.
* `BreakerInv`: `BreakerTypeOK` and `FewErrorsWhenClosed`, carried through a breaker
  value by value (`GoodBreaker`): `AttemptIsGood`, `BeatIsGood`, `AnswersAreGood`.
* `WatchInv`: `WatchdogTypeOK` and `FlagStands`: between two cycles the router's flag
  stands while there is a failure. Inside a cycle it may be down with a failure
  just recorded, but then no BUY is sent.

| Theorem | Establishes | Argument |
|---|---|---|
| `GatesInvariant` | `[]GatesInv` | `ControlStep`, `BreakerStep`, `WatchStep` |
| `OneProcessPerAccount` | `AccountsSound` | the traders of an account are within the one holder of its lock (`OneTrader`) |
| `ClosedBreakerHasFewErrors` | `GatesSound` | conjuncts |
| `NoBuyDuringFailure` | `BuysWaitForExits` | only `BuyAtOnce` buys, between two cycles and with the flag down (`BuyStep`) |

### The access to the broker

`BrokerAccess_proofs` is about `MCBrokerAccess`; `BrokerInv` has one conjunct for the
token and one for the gateway.

* `TokenInv`: who is past the thread lock holds it (`ThreadLockHeld`); a thread
  about to refresh is the first of its process in five seconds (`FirstToRefresh`),
  so a process has issued at most one token more than windows have elapsed
  (`IssuesInWindows`); until a wait timed out or a file was taken for stale, who
  is inside made the lock file that exists (`LockFileHeld`).
* `GatewayInv`: an attempt is counted before it may be repeated, so an order
  accepted more often than once was accepted by an attempt whose answer was lost
  (`AttemptsCounted`); a circuit is open exactly at its threshold; a call without
  a result is a follower that gave up (`NoneMeansGivenUp`), which is how a balance
  comes to lack pages.

| Theorem | Establishes | Argument |
|---|---|---|
| `AccessInvariant` | `[]BrokerInv` | `TokenStep`, `GatewayStep` |
| `TokenIsSound` | `TokenSound` | conjuncts of `TokenInv` |
| `GatewayIsSound` | `GatewaySound` | conjuncts of `GatewayInv` |

### The components around the loop

`Services_proofs` is about `MCServices`; a step of one component leaves the others
alone (`PartsStep`), so `ServicesInv` is a conjunction of one invariant each.

* `RegistryInv`: whichever of the two layouts the file has, its registry names a
  champion that was registered and is the only one with that role (`Chosen`); a
  promotion, a roll back, a load of a torn or foreign file keep that.
* `AfterHoursInv`: a candidate of today, in the table or in a copy of it, was seen
  after the close (`SeenAfterClose`), so it cannot be entered before tomorrow.
* `LearningInv`: an event is known by its symbol and its second, so that the
  batch's search by symbol and time finds the decision's own snapshot.
* `BooksInv` (types) and `BooksSafe`. While no record was given up or doubled,
  `SalesOnce`: a sale is in one row of the positions table at most, once, and in
  one row of the trades, and if it is in both, the former was closed the same
  day, which is what hides the trade. `FillsMatch`: a sale has one fill, which came
  after the entry of the row that has it, so a row that made nothing, for which the
  report adds up the fills since its entry, counts its own sales once; the others
  it counts are the exception (`TakenForOwn`). On a real account also `RowsMatch`: a
  recorded position has one open row of as many shares, and an open row has sales
  of the current round trip only. The report is a sum over entries of which all
  but one are zero (`ReportedIs`).
* `TelegramInv`: types, and while no database call failed `TelegramSafe`: one
  receiver polls (`OneReceiver`); the message in hand is unanswered until it is
  posted and known as processed from its second step on (`InHand`); the feedback
  rows are numbered without a gap, so the next number is free.

| Theorem | Establishes | Argument |
|---|---|---|
| `ServicesInvariant` | `[]ServicesInv` | `RegistryStep`, `AfterHoursStep`, `LearningStep`, `BooksStep`, `BooksSafeStep`, `TelegramStep` |
| `ServicesTypeCorrect` | `TypeOK` | conjuncts |
| `ChampionIsUnique` | `OneChampion` | `Chosen` |
| `MessagesAreHandled` | `MessagesHandled` | `TelegramPromises` |
| `EntriesWait` | `EntryWaitsForNextDay` | only an entry consumes, in the regular session, a candidate that was not seen today |
| `LabelsAreOwn` | `LabelledByOwnOutcome` | the outcome a label was made of does not change in the step that makes it |
| `ProfitIsReportedOnce` | `ProfitReportedOnce` | `BooksPromise` |

### The parts that decide and report

`Decisions_proofs` is about `MCDecisions`; its parts share no state, so
`DecisionsInv` is a conjunction of one invariant each (`LiveInv` and `ParityInv` hold
of the behaviours about live positions and about the same position twice, the
others of all).

* `ReplayInv`: every won is accounted for (`CashIs`; `MarkedIs` adds what marking does
  to it), every position held has
  sold what it no longer has, has a number of its own and no round trip yet
  (`TrackerInv`), and from 15:20 on what has been managed is a swing position
  (`LateAreSwing`). None of the promises is inductive alone. On its way through a
  bar a position may be sold by a target, by the trailing or time stop, and once
  more after its last share is gone; `Carried` says what every stage of that way
  keeps: what the position brought in since the bar began is in the records of
  its exits, which is the cash they bring, and once nothing is left its round trip
  is among the trips, its repetitions counted apart (`Repeated`). There is one lemma per
  operator of the tracker (`SoldCarries`, `TrancheCarries`, `FullExitCarries`,
  `TargetsCarry`, `TrailingCarries`, `TimeStopCarries`, `ManagedCarries`); `HandledIs`
  and `JoinedIs` say what a managed and a bought position do to the sums over
  positions and trips. The sums are the folds of `Sums_proofs`, so a record more
  is one term more (`OneExitMore`), for ledgers of any length.
* `LiveInv`: what an open position holds back from sale waits in its exit order or in
  foreign sales, a quarantined position has no order, and beside a sale of the
  router's there is no exit order (`Sane`). `StopBeatsTarget` alone is not inductive:
  that the market order which replaces a waiting one is for all the broker has to
  give needs `Sane` of what was withdrawn (`SaneWithdrawn`, `SaneClose`). The tick is followed
  section by section (`SaneTargets`, `SaneTimeStop`, `SaneManaged`), then the fills
  (`SaneFill`).
* `ParityInv`: until a named difference shows, the trader's position and the replay's
  are at the same place (`Level`), or both have nothing left; the trail of the
  replay may be behind (`w.p.trail <= p.trail`), never ahead, since it begins a bar
  later. The two programs are followed section by section over one tick: `PaperTake1`
  to `PaperManaged` say what the trader's sections do to a position of a paper
  account, `LevelTake1`, `LevelTake2`, `LevelTrailed` and `LevelManaged` that the
  replay's section does the same. That the tracker's fill is whole is
  `LevelTranche`, from the simulator's volume rule; that its time stop
  stays silent as long as the trader's does is `LevelInTime`. The proof attempt
  found a difference no run had reached: after 15:30 the trader leaves an intraday
  position alone, which the replay still closes. It is named now
  (`AfterTheSession`), and the run meets it with a position that has no tick between
  15:20 and 15:30.
* `EntryInv`: a stock the loop saw go rests, or its ten minutes are over
  (`ZombieRests`), and until the purchases of a cycle nothing was bought in its
  minute (`BoughtBefore`), so a rest set in a cycle begins before any purchase
  could contradict it; an account whose last reading was at the limit may not buy
  (`LimitForbids`). `MetWatchdog`, `MetScan` and `MetElse` say what each exit path
  leaves in the books.
* `GitInv`: unless a lock file was taken away, one thread synchronises and the
  file is there (`OneHolder`); while no flush lingered and no process ended, the
  file is no older than the time limits of the steps its owner has taken
  (`LockIsYoung`), which is below the age at which a file is taken for stale.
* `ExporterInv`: of every item, the last event in the queue that tells of it is
  true; if none does, the event in the hand that took later is, then the one in the
  hand that took earlier (`LaterHand`, `EarlierHand`: writer and git thread take in
  order and may count in any); if none of these tells of it, what is shown is right
  (`AllSettle`). Excepted are the items whose event the full queue dropped or the
  writer lost, or of which the later hand counted before the earlier (`Overtakes`),
  until a snapshot (`unsure`).
* `StoreInv`: a stock in view was promoted when it last deserved it and has been in
  its place since, or has had its time (`InPlace`); a stock has waited for no more
  batches than fit into the part of the list the batch has passed since
  (`Passed`), also where the list wraps.
* `CandlesInv`: a bar begins at a multiple of its length and no more bars are kept
  than may be (`BarsOf`); the day's volume is what was traded up to the newest
  reading while both sources agree in order (`SummedOnce`).
* `BarsTogether`: `CandlesAgree` speaks of finished bars and is not inductive, so the
  open ones are included: all lengths have one or none, each begins at its own
  multiple (`BarsBegin`), and an open longer bar tells what the shortest bars of its
  span tell, the open one among them (`LongOf`, `TellsBars`). A tick then either
  goes into the open bars of both lengths (`LongTick`, by `TellsTick`), or begins a
  shortest bar, and the longer one takes it (`TellsMore`) or closes with what it
  told and begins with it (`LongBar`, `TellsOne`). No finished shortest bar drops
  out of view as long as fewer are kept than may be, because their number never
  falls (`KeptClosed`). The volume is a sum over the indices of the span, by the
  lemmas of `Sums_proofs`.

| Theorem | Establishes | Argument |
|---|---|---|
| `DecisionsInvariant` | `[]DecisionsInv` | `ReplayStep`, `LiveStep`, `EntryStep`, `GitStep`, `ExporterStep`, `StoreStep`, `CandlesStep`, `BarsTogetherStep`, `ParityStep` |
| `ReplayIsSound` | `ReplaySound` | `ReplayPromise` |
| `ExitsAreSound` | `ExitsSound` | `LivePromise` |
| `EntriesAreSound` | `EntriesSound` | `EntryPromise` |
| `TelemetryIsSound` | `TelemetrySound` | `GitPromise`, `ExporterPromise` |
| `MarketIsSound` | `MarketSound` | `StorePromise`, `CandlesPromise`; that a stock moves down only after its time is shown of each step (`StoreStep`) |
| `TwinsAreAlike` | `TwinsAgree` | `BarsPromise`, `ParityPromise` |

### Only model-checked

* The liveness properties `FinishedOrderLeavesPending`, `UnmanagedIsAdopted`,
  `CallsReturn`, `CallsEnd`, `StopIsActedOn` and `TradingResumes` need fairness.
* `SecondBuyOnlyAfterSell` after a restart or with unreadable executions (the run
  `router_faults` does not claim it there).

## 6. Disagreements between the code and what is said of it

Three are runs with expectation `violation` and an entry in PROJECT.json.

* `phantom_fill`: with unreadable executions `reconcile_orders` books a BUY as
  filled in full because the symbol is held.
* `promotion_survives`: the dashboard's rollout manager writes its own layout over
  the registry's file; after a restart the promoted model is gone.
* `vwap_within_prices`: prefilling a stock sets the day's volume but not its
  turnover, so its VWAP is close to zero for the rest of the day.

Further statements stand beside the components as definitions that TLC refutes
when they are added to the run of their component. They are in no run, because
each shows one line of code rather than an open question:

| Definition | Module | What the code does instead |
|---|---|---|
| `OneLiveBuyPerSymbol` | OrderRouter | the entry slot is freed by any order of the symbol that ends, also a SELL, while a BUY whose answer was lost is live at the broker |
| `NoStrayReservation` | OrderRouter | a BUY that reconciliation finds withdrawn keeps its reservation |
| `IntentReachesBrokerOnce` | OrderRouter | the gateway's retries send one order request to the broker twice |
| `ExitOrderEnds` | ExitFlow | an exit order executed in part and then withdrawn stays pending for ever when its position has gone |
| `NoEntryWhileHolding` | ExitFlow | a symbol whose BUY filled late is bought again before the 180 s reconciliation |
| `CandidateReachesNextSession` | AfterHours | the first cycle of a day expires every candidate of an earlier date |
| `RoundTripCountedOnce` | Replay | a tranche that sells the last share closes the position, and a trailing or time stop of the same bar closes it again; the engine adds its result up twice, which `ReplayReconciles` says to the won |
| `TimeStopsAgree` | ExitParity | the replay's time stops are not the trader's |
| `RestAfterLoss` | EntryStage | the rest set by the exit watchdog after a loss is ten minutes, not fifteen |
| `EveryAccountShown` | TelemetryExporter | one exporter serves all accounts, and each synchronisation keeps only the positions and orders of its own account |
| `OneCommitter` | TelemetryGitSync | a lock file older than 180 s is taken over, and `stop()` removes the file, while its owner is still in git |

What modelling showed besides: `DUPLICATE` is also answered for a purchase whose
row key another account holds (`KeyHeldElsewhere`, excepted in `AnswerIsTrue`);
`flush()` of the exporter never returns after an exception in `_process_item`, and
the git thread's flush takes events from the queue beside the writer, so that an
older event may be counted after a younger one: without the exception for such
items (`Overtakes`) TLC refutes `StatusSettles`, and an ended order stays on the
published status until the next snapshot;
a row of the positions table that made nothing is reported with all sales of its
symbol since its entry (`src/core/trade_accounting.py:160`), those of later round
trips among them, although the comment at line 103 says the opposite (without the
exception `TakenForOwn` TLC refutes `ProfitReportedOnce`);
the engine's `reconciliation_diff` leaves out what open positions have realised;
a stop on an adopted position sells only what the broker had to give when it was
adopted, nothing while the router has another sale of the symbol;
the row of an order is known by its own key, so a report of the other account with
that key is answered `DUPLICATE` and not counted (`OrderOfOther`);
the aggregator has no `get_candles`: a scan with a position and a purchase at the
entry gate raise an AttributeError (`src/execution/live_quant_trader.py:801`, caught
at 860, and 1476, which ends the cycle: `SignalRaises`). `EntryStage` has both what
follows the call and what follows the exception, so its theorem also covers an
aggregator that has the method;
the breaker's recovery on a business rejection (`src/risk/circuit_breaker.py:107`) is
never reached, because the only caller classifies these errors first and no other
trips the breaker;
an older cumulative volume makes the aggregator count the difference again when
the newer one follows; the swing exit below the 20-day average never fires live,
because the average is not passed. The trader's trail begins in the tick of the
first target and stays where that tick's ATR put it, the replay's begins a bar
later with another ATR (`TrailsAtOnce`, `KeepsTrail`). After 15:30 the trader no
longer closes an intraday position for the day's end, the replay does
(`AfterTheSession`).

## 7. Plan

Order: what can lose money first, what can lose control of the process next,
what is reporting last. Done: `PortfolioCash`, `OrderRouter`, `ExitFlow`,
`ExitWatchdog`, `ExecutionLedger` with its abstract ledger, `TokenManager`,
`ApiGateway`, `CircuitBreaker`, `ProcessControl`, `TelegramChannel`, `AfterHours`,
`ModelRegistry`, `TradeBooks`, `LearningData`, the replay modules, `LiveExits`
with `ExitParity`, `EntryStage`, telemetry, stocks and bars; proofs of router,
exits and positions, execution ledger, the gates of `MCControl`, the access to the
broker, the components of `MCServices`, and the parts of `MCDecisions`. Every
invariant and action property of a passing run has its theorem.

Left, in this order:

1. `ExitWatchdog` composed with `ExitFlow` instead of with the outcomes of its
   exits.
2. Premarket adoption and the shutdown of the loop, the state file's snapshots.

## 8. Not modelled, and why

* Detectors, strategies, edge engine, profit-opportunity gate, universe and
  market regime: floating-point scores of market data without state of their own.
  Which signal comes, and how a stock is judged, is an open choice in `EntryStage`,
  `MarketStore` and `Replay`.
* Similarity, calibration, drift, training: statistics, out of TLC's reach as
  numbers. The rows they read and write are in `LearningData` and `ModelRegistry`.
* Funnel telemetry and diagnostics: counters that nothing reads back.
* The dashboard: read-only pages, apart from its writes of the model registry
  (`ModelRegistry`) and what it reports of trades (`TradeBooks`).
* The legacy trader is not started by the live launchers; its use of the circuit
  breaker is part of `CircuitBreaker`.
* Launch scripts, message texts, layouts and logging.
* Operations of modelled components that nothing calls (shortfall history,
  `record_loss`, `can_reenter_stock`, the ledger's recovery command, the priority
  queue). PROJECT.json lists every component with its status, and every hazard
  with the properties that cover it or the reason none does.
