# SuperPolymarket: a verification project

TLA+ models of `src/src/polymarket_quant`, checked by TLC on small instances,
with theorems proved by TLAPS for all values of the constants. Paths below are
relative to `src/src/polymarket_quant` unless they begin with `src/`.

The program is a research platform for Polymarket. It mirrors the market
universe, collects prices, runs strategies against a simulated exchange, and
lets an operator supervise the runs. No order ever leaves the machine.

Contents: [the system](#the-system), [the modules](#the-modules),
[the runs](#the-runs), [the proofs](#the-proofs),
[what is left out](#what-is-left-out), [what may come next](#what-may-come-next).

## The system

### Components and how they interact

```
 background daemon ──runs──> automation runner ──> market sync ──> market store
   │  state file, lock,        │                    (Gamma, CLOB)
   │  stop flag                ├─> health check (status band)
   └──> dashboard snapshot     └─> strategy batch ──> strategy command line
                                                        │  registry, artifacts
        realtime collector ──> market data store        v
        (WS, REST backfill)            realtime runner / replay / research
                                        │        ^
                              strategy runtime   │ fills, positions, cash
                                        │        │
                               signal sizing ──> paper exchange ──> simulation store
                                                  │ risk checks, fill engine,
                                                  │ lifecycle, ledger
        operator console <── operator safety <── runtime registry
```

Everything is synchronous Python. Concurrency exists at two places only:
processes share the files of the daemon, and the collector is one asyncio task
that reads a socket. Elsewhere the hard behaviour comes from sequences of
commits that are never rolled back, callbacks in the middle of a loop, and
state that is read again after something else has changed it.

| component | state it keeps | operations | what is hard | what makes it correct |
|---|---|---|---|---|
| Order lifecycle `services/order_lifecycle.py` | none (a table) | transition, mark_open, mark_filled, mark_partially_filled, cancel, replace, reject, expire | sequences that reach an illegal state | every observable status change is an edge of the table |
| Fill engine `services/fill_engine.py` | none | simulate_fills | level order, remainder zero, levels without size | fills what the book allows, at the best price, within the limit |
| Portfolio ledger `services/portfolio_ledger.py` | rows through the store | apply_fill, value_position, apply_position_change | three commits per fill | cash, fee, position and fill rows of one fill agree |
| Paper exchange `services/paper_exchange.py` | `_orders`, six tables | submit, cancel, replace | a dozen commits per call, errors and crashes between them | stored rows follow the lifecycle and account for the fills |
| Simulation store `storage/simulation_store.py` | tables | one commit per method | partial writes | — (as used by the exchange) |
| Order risk checks `services/order_risk.py` | none | validate_order_intent, apply_risk_checks | which side and which limit counts | hard limits hold of the portfolio, not just of one order |
| Signal sizing `services/signal_execution.py` | none | translate_signal | missing quotes, rounding | positions move to the target and never past it |
| Strategy runtime, realtime runner `services/strategy_runtime.py`, `services/realtime_strategy_runner.py` | market data, portfolio, positions, cash, open orders | on_init, on_event, on_clock, on_finish, dispatch, feedback | signals of one call compete; the strategy is called back between fills | solvency, limits, a context that matches the runner |
| Strategy command line `services/strategy_cli.py` | registry entry, artifact bundle | run_from_config | an exception between run, metrics, registry, bundle | what is reported as run has a bundle |
| Runtime registry `services/operator_runtime_registry.py` | the global mode, the runs (in memory) | set_global_mode, start_run, heartbeat, finish_run, fail_run | runs and operator both set the mode | every run shows the mode of the registry |
| Operator safety `services/operator_safety.py` | none | evaluate, gate_action, preflight | thresholds, unknown values, priorities | growth only where nothing critical is known, and always a way out |
| Automation runner `services/automation_runner.py` | task results, automation bundle, report index, snapshot | run | one task of several fails; kills; bundles of other processes | results, reports and snapshot point at what is there |
| Background daemon `services/background_daemon.py`, `services/runtime_state_store.py` | state file, its temporary, stop flag, lock file | run_forever, --once, --stop | processes that share files, failures and kills | one instance, no repeated run, a stop request is honoured |
| Market universe sync `services/market_sync.py`, `storage/market_store.py` | markets table | sync_once | two sources read one after the other, retries, rows that go stale | a row shows a market of that sync |
| Realtime collector, backfill `services/realtime_collector.py`, `services/backfill.py`, `storage/market_data_store.py` | latest quotes, history, raw events, gaps | collect_once, fill_gap, backfill_top_tokens | two processes on one store, lost connections, failing chunks | rows trace to raw events, gaps cover the session, repairs are complete |
| Replay runtime `services/replay_runtime.py` | none | run | ticks and events of one instant | the order of time is kept |
| Sample strategies `strategy/*.py` | stage and last data of each token, tokens emitted | on_event, on_clock | a staged cycle driven by event times that jump back | raises only when open, completes its cycles, stays within its limits |
| Run artifacts `services/run_artifacts.py` | a directory per run | write_bundle | a kill between two files, a run id used again | a manifest lists only files that are there |
| Metrics, reports, queries, screens | files written once | — | — | presentation |

`PROJECT.json` lists every component with its sources and status, and under
`hazards` the places, with their lines, where the code is hard to test.

### Facts about the code that shape the models

* The exchange is written to be used with a store, but both command lines
  construct it without one (`services/strategy_cli.py:291`,
  `services/automation_cli.py:137`); the store-backed exchange is what the
  tests and the documents describe. `PaperExchange` models the exchange with a
  store, `RealtimeRunner` the exchange without one, inside a run.
* `cancel_order` and `replace_order` are called by tests only. `EXPIRED` is in
  the table but no code moves an order there. `post_only`, `expires_at`,
  `cancel_latency_ms` and `is_cancel_effective` are never consulted.
* In a run, `now` and `created_at` of an order are both the time of the signal.
  So with the default submit latency of 250 ms the strategy command line never
  fills an order; the automation configures 0. `SubmitLatency` is a constant.
* `on_clock` of the runner is never called by the command line; replay calls
  the runtime's.
* `--once` leaves the status `running` in the state file. A daemon that is
  killed leaves its lock file, and no later daemon starts until it is deleted.
  A task that raises ends `run_forever`.

## The modules

### The paper exchange

| module | models |
|---|---|
| `OrderLifecycle` | the transition table, the order record, and the operations the exchange calls on it |
| `OrderContract` | abstract: what the exchange promises about an order's status and nothing else |
| `MatchingContract` | what a matching engine owes an order, said without its loop |
| `Sorting` | Python's stable `sorted` with a key |
| `FillEngine` | `simulate_fills` as pure operators |
| `OrderMatching` | one call of it, with any order and any book |
| `PortfolioLedger` | the fee and the signed amounts of a fill |
| `PaperExchange` | the service and its store |
| `MCFillEngine`, `MCPaperExchange` | instances |
| `CollectionTheorems`, `PaperExchangeProofs` | proofs |

`PaperExchange` has one step per store write, in the order of the code:
`call.pc` names the next write and the other fields of `call` are the local
variables of `submit_order_intent`, `cancel_order` or `replace_order`.
Computation between two writes belongs to the step before it. `mem` is
`self._orders`; the other variables are the tables. The steps
`SubmitOrderIntent`, `CancelOrder` and `ReplaceOrder` are calls by a client;
`InsertRiskDecision`, `PersistOrder`, `InsertTransition` and the five ledger
writes are the commits they make. `StoreError` ends a call where it is, with the
write either made or lost; `Crash` empties `mem` as well. Neither undoes
anything, because nothing in the code does. One strategy trades one token.
A client order id ends in a fresh uuid, so a submission uses an unknown one
(`Fresh`); only the resubmission run lets a client use one twice. The loop of
the engine over the sorted levels is a sum over the levels before each
(`RemainingBefore`), and sorting is `SortedPlaces`, which puts each place at its
rank: neither is recursive.

The risk decision is any of the three, because the exchange must be right
whatever its injected engine says. The fill engine and fee policy are constant
operators: `EngineAssumption` names the part of `MatchingContract` the exchange
relies on, the MC module passes `FillEngine` and `CalculateFee`, and TLC
evaluates the assumption for them. Order identifiers, timestamps and texts are
left out. Prices are ticks, sizes shares, and money their product.

### One realtime run

| module | models |
|---|---|
| `OrderRisk` | `order_risk.py` as pure operators: a decision from intent, constraints and limits |
| `SignalSizing` | `translate_signal` as pure operators: target, delta, side, price, size |
| `RealtimeRunner` | `RealtimeStrategyRunner` with its `StrategyRuntime` and the providers of `strategy_cli.py` |
| `MCRealtimeRunner` | an instance with `FillEngine`'s matching, six quotes and eleven lists of signals |
| `RunnerProofs` | proofs, also of the fill engine |

The strategy is anything: each call (`OnInit`, `OnMarketEvent`, `OnClock`) may
return any list of `Batches`. The queue holds what is left of the list. One
signal is worked off in several steps, because the strategy is called back in
the middle: `SkipSignal` (nothing to do), or `SubmitSignal` (size, check, match,
update the open orders) followed by one `FeedbackFill` per fill or one
`FeedbackOrder`. `RunFails` is an exception in between: an invalid intent, or a
level without size. The code runs a list to its end before it takes the next
event, and so does the model (`Waiting`).

`positions`, `cash` and `orders` are the runner's fields, `portfolio` is what
the runtime shows to the strategy and what the limits are computed from. They
are kept apart because the code keeps two copies, and properties relate them.
`ConstraintsFor`, `LimitsFor` and `SnapshotFor` are the three providers, with
their defaults: no quote means a tick of 0.01 and an empty book, an unset
single-order limit means the cash that is left, best prices without levels mean
a depth of 100 shares, and the current market position and the exposures stay
at their configured values (0).

What is abstracted: a dollar is `One` ticks and a share `OneShare` lots; where
the code divides with 28 digits the model rounds down, as it would with lots of
that size. A market event carries the entry of one token, as
`build_bootstrap_market_events` builds them, with `by_token` payloads. Fills
returned by a submission carry no fee (the recorded fee is put on a copy), so
the runner's cash has none. Features, the lists of past fills and risk decisions
and the heartbeats are left out here: no code of a run reads them
(`OperatorConsole` has them).

### The background daemon

| module | models |
|---|---|
| `RuntimeStateStore` | the files: state file, its temporary, stop flag, lock |
| `BackgroundDaemon` | processes started with and without `--stop`, and time |
| `DaemonHistory` | the same with two history variables: when a run of a task was last recorded, and whether Ctrl-C was ever pressed |
| `MCBackgroundDaemon`, `MCDaemonHistory` | a schedule of two tasks |
| `DaemonProofs` | proofs |

Every change of the state file is a load, a computation and a save, and the
save opens a temporary file, writes it and renames it. So an update is four
steps (`LoadForUpdate`, `OpenForUpdate`, `WriteForUpdate`, `ReplaceForUpdate`);
`pc[p]` says which update a process is making and `io[p]` which step comes next.
The temporary has one name for all processes: a process may hold a `handle` on a
file that another has renamed (then its text goes to the state file, or nowhere),
and a rename may find nothing there (`FileNotFoundError`). Opening truncates, so
the state file can be `Torn` for a while; a load of it raises. The remaining
steps follow `run_forever` and `run_due_once`; `RunTasks` and `WriteSnapshot`
stand for the automation run and the dashboard snapshot, which succeed or
raise. `Interrupt` is Ctrl-C, which skips the handler and gives the lock back;
`Kill` gives back nothing. `max_cycles` of `run_forever`, a parameter of the
tests, is left out.

### Market data

| module | models |
|---|---|
| `ClobMarket` | the exchange: books that change, REST replies and socket messages about them |
| `MarketDataStore` | the tables, one operator per method, and the rows built from a book |
| `RestBackfill` | `backfill_top_tokens`, for a full backfill and for the repair of a gap |
| `RealtimeCollector` | `collect_once` and `fill_gap` beside the backfill command |
| `MCMarketData` | three tokens, two of them selected |
| `CollectorProofs` | proofs |

A step ends with one commit. The collector's step `Receive` stores the raw
event, `Normalize` (and `NormalizeBest` for the second write of a book) the rows
made from it. `Fail` is any exception of the session; `RecordGap` writes the
interval, `Repair` runs `RestBackfill` for the subscribed tokens and the last
`RecentHistory`. The backfill is the same code in another process, so `run[p]`
holds the local variables of each; its command names no window, and gets the
`HistoryInterval` (a day) that ends with each request. The clock counts the changes of the books;
messages wait in `inbox` while the books move on. Both processes can die
anywhere. Spread and midpoint follow from the best prices; the wire format is
parsed by the adapters.

### Automation

| module | models |
|---|---|
| `MarketSync` | `sync_once`: both fetches with retries, the join and token labels of `normalize_markets`, the upsert |
| `RunBundles` | `write_bundle` file by file, and `_load_manifests` |
| `AutomationRun` | one automation process, and runs by hand beside it on the same artifact root |
| `MCAutomation` | two markets, two strategies, one artifact with rows or without |
| `AutomationProofs` | proofs |

`auto.stage` says where `AutomationRunner.run` is; a task appends to `results`
as the code does. The batch goes on with the next strategy after any exception,
and leaves the registry as the failed one left it: `FinishRun(FALSE)` is the
failure of the metrics, which nothing catches before the batch does. A manifest
is `torn` between opening and writing, and every reader of all manifests raises
on one (`ManifestsReadable`): the health check fails, the report and the
snapshot end the process. The exchange opens and closes markets between the
fetches. The order of a market's tokens is a constant `Listing`, since the code
tries labels, then the order of the identifiers of Gamma, then that of the CLOB;
`ListingAssumption` says that labels do not lie and that services without labels
list the yes token first, since no code could tell otherwise.

### Strategies and replay

| module | models |
|---|---|
| `StagedBooks` | the bootstrap events of `automation_cli.py` and the books staged for them, as pure operators |
| `SampleStrategies` | the stress, probe and bootstrap strategies, as functions from a state and an event to a state and signals |
| `StrategyRun` | `ReplayRuntime.run`, and the loop of `run_realtime_paper`, over a list of events |
| `MCStrategyRun` | three tokens, 2 lists of other callers, every book of up to two levels a side, ticks of 0.01, 0.001 and 0.1, four strategy sections, one without a profile |
| `StrategyProofs` | proofs |

`events` is sorted for a replay and as it came for a realtime run; `tick` is
`next_tick`. Positions come from fills, which only a realtime run has, during
the call that sent the signal. Prices are in units of 1/20000 dollar, so that a
half spread is a whole number; a time step is 10 seconds.

`IsBook` admits any uncrossed reply with any tick, because
`automation_cli.py:298` takes the tick of the CLOB as it is. An invented quote is
rounded to the tick after it is clamped into 0.01 .. 0.99, so a tick that divides
no cent can take it out of that range again: `StagedBooksAreBooks` asks for a
book an order can be filled from where the CLOB returned both sides or the tick
divides a cent, and otherwise for what the rounding leaves (`Surrounds`).

`StageCount` follows `_bootstrap_stage_offsets`: the number of staged events
depends on whether the section names a `stress_profile`, whatever the strategy.
The stress strategy without one runs the stages of its default profile
(`DefaultProfile`) over a single event for each token. `CyclesComplete` states
what comes of both: all signals up to the exit, or the entry alone.

### Operator

| module | models |
|---|---|
| `OperatorSafety` | alerts, state of new orders, gate and preflight as pure operators |
| `OperatorConsole` | the registry with the runs that publish into it, and the mode switch of the console |
| `MCOperatorConsole` | connections in 15 combinations, snapshots on both sides of every threshold |
| `OperatorProofs` | proofs |

`Assess` picks a snapshot to evaluate with the present connections. `preflight`
is `st.session_state["mode_preflight_result"]`: kept until the next preflight,
confirmed whenever the operator likes. `possible` is a history variable, the
modes that could have been entered at some moment. The console's connections
come from a provider nobody in `src/` supplies (`operator_queries.py:66`), so
they change freely. `gate_action` has callers in the tests only:
`GateFitsTheMarket` says what the gate would answer, and no run or console asks
it today.

## The runs

| run | what it asks | bounds |
|---|---|---|
| `fill_engine` | does `simulate_fills` do what a matching engine owes? Every order against every unsorted book is compared with definitions that do not follow the loop | 3 prices and sizes, 3 levels, sizes from 0 |
| `exchange` | with a store that works: do row, transition log, fills and ledger of every order agree between calls, and are cancels carried through? | 2 orders, both sides, sizes 1 and 2, three books that fill fully, in part, over two levels, not at all, and raise |
| `exchange_faults` | with an error or a crash at any write: what does the database still promise, and does the exchange implement `OrderContract`? | 2 orders, size 2, two books |
| `exchange_resubmit` | violation: is a retried submission filled once? | 1 order |
| `runner` | any strategy over two tokens: solvency, limits, targets, the context, the open orders, and every list worked off | 3 calls, cash 20 where a dollar is 8 ticks, position limit 4 |
| `daemon_history` | two daemons with failing tasks and snapshots, Ctrl-C and kills: one at a time, no recorded run repeated early, no task left shown as running | time 4, intervals 1 and 2 |
| `daemon_stop` | a daemon and a `--stop` process on the same files, with Ctrl-C and kills: due tasks run, the request is honoured | time 2 |
| `daemon_stop_history` | violation: is a run that was recorded never repeated early while a stop request is made? | time 3 |
| `market_data` | a collector and a backfill with lost connections, failing requests and kills: what do the tables say of the market? | 2 changes of the books, 2 messages, one start of each process, chunks of 1 and 2 tokens |
| `automation` | a process with all tasks or the report alone beside two runs by hand, with failures and kills at every step: can its files and results be trusted, and does it end? | 2 markets, 2 strategies, 2 attempts, 1 artifact |
| `strategy` | the three strategies, replayed and live, on staged and on unordered events with blocking flags | 3 tokens, 6 events or up to 5 stages a token, every book of 2 levels, 3 ticks, a section without a profile |
| `operator` | every alert threshold, the gate, and the mode switch while runs and connections change | 2048 snapshots, 15 sets of connections, 2 runs |

Why the bounds suffice. Orders interact only through ids and the one cash and
position sum, so two orders meet everything two orders can do to each other,
and replace needs exactly two. A book of three levels has a level that is
skipped, one that is taken in part and one that ends the loop. Two tokens are
enough for one to lose its quote to the other and for two orders of one list to
compete for the same cash; three calls are an entry, a change of the quotes and
an exit, and the lists of one call already hold two orders. Two daemons are
enough for a race to the lock, and an interval of 2 with time 4 lets a task run,
wait and become due again. Two market changes between fetch and write are enough for
a row to be late; two selected tokens make a chunk that is not the last, and an
unselected one a message to ignore. Two strategies make a batch with a failure
before and after a success; two runs by hand write one directory twice. Three
tokens with a limit of two open one when another completes. Every bound is a constant of the cfg: `MaxCalls`,
`MaxTime`, and the sets of inputs.

Deadlock is not checked: every instance reaches its bound (`MaxCalls`,
`MaxTime`, the ids used up) or an end the code has (a finished or failed run, a
killed daemon, an exhausted feed), and stops there.

Fairness. `RealtimeRunner` assumes weak fairness of dispatching: the code is a
loop without waits. `PaperExchange` assumes it of the steps of a call in
progress, with a store that works; no client has to call. `BackgroundDaemon`
assumes it of each daemon's own steps: a started process goes on, and `sleep`
returns. `AutomationRun` assumes it of the automation process: every fetch and
every strategy returns or raises. Nothing makes a process start, a stop request
come, a market move, or time pass.

### What the violations show

1. `exchange_resubmit`: `submit_order_intent` does not look up the
   `client_order_id` that the design calls an idempotency key; a retry is filled
   again.
2. `daemon_stop_history`: the stop request's load and save are not under the
   lock; they can take back a run the daemon has just recorded, and the task runs
   again too early.

### What else the models show

These follow from the models as well. No run is kept for them; `hazards` in
`PROJECT.json` names the lines of most.

* The valuation written with a submission starts from an empty position, so
  after two fills of one token it values the second alone.
* A MARKET event replaces `by_token` as a whole; equity values every other
  holding at the fallback price 0.5, and a target exposure is sized from that.
* The market position the limit is compared with is a configuration value;
  several orders of one run go past the limit together.
* A stop request can rename the daemon's temporary file; the daemon then ends by
  an exception and never writes `stopped`.
* Markets that leave the fetch keep their last row and stay candidates of the
  strategy batch.
* A manifest that is torn, by a kill in the middle of `write_text` or by a run
  by hand in progress, fails the health check, and ends report and snapshot.
* With a tick of 0.1 a staged bid can be 0 and a staged ask 1.00: the price is
  aligned after it is clamped. `MCStrategyRun` has such a book and assumes the
  bid of 0 (`CoarseBidIsNothing`), which TLC evaluates.
* The stress strategy without a `stress_profile` gets one event for each token,
  enters at 5 % and is never told to exit, in a replay or live.
* The strategies look for `partially_blocked` and `fully_blocked`, the safety
  service says `partially blocked` and `fully blocked`. Nothing in `src/` puts
  the one into the other's data.
* A preflight allowed once can be confirmed when its connections are down.
* A kill between the two updates that end a cycle of several tasks leaves the
  entries of the single tasks as they were, and they run again.
* An older quote can be written over a newer one in the latest rows.
* A run that starts sets the global mode without a preflight, and the console
  as shipped has no registry, so its confirmation never switches anything.

## The proofs

All proofs are checked by TLAPS to their last leaf, for every value of the
constants that meets the assumptions named in the modules.

**`PaperExchangeProofs`** — `TypeCorrect`: the tables keep their types. `TypeOK`
alone is not inductive, since the next write uses the order, result or fill of
the call: `TypeInv` adds which of them each stage has (`CallOK`).
`RiskComesFirst`: whatever fails, no order is on record without its risk
decision and no rejected order has moved cash or position. `RiskInv` carries it
through a call: the ledger only holds rows of orders that were accepted
(`LedgerAccepted`), and a stage that writes has its decision stored
(`CallDecided`). `LedgerRowsAlwaysAgree`: a position has its payment, a fill its
position and its fee, wherever the four commits of a fill stop. `LedgerInv` adds
that rows of a fill belong to an order that got so far (`Owned`), that the fills
still to come have no rows (`Untouched`), and which rows of the present fill
each stage has written (`FillPhase`). `LedgerAlwaysAgrees` adds the amounts
(`AmountInv`): what the fills of an order add up to is at most what its positions moved, and that at
most what is taken from the row, from the service's own copy of the order and
from the order in the call, whose remainder the next write stores; while a call
writes its ledger the sums are exactly those of the fills written so far.
`OrdersAlwaysSettle`, for a store that does not fail (`Faults = {}`, where the
three amounts are equal): between two calls every order rests. `RestInv` says
that the only order that does not is the one the call is about to move. Sums
over fills are unfolded one fill at a time with the lemmas of
`CollectionTheorems`. All assume `EngineAssumption`, `IdAssumption`,
`InputAssumption`.

In the same module, three facts about the status of an order,
stored (`StoredStatus`) and as the service sees it (`LiveStatus`), with errors
and crashes anywhere: `StoreLags` (the store is at most two moves behind),
`TerminalRows` (a stored terminal status is never overwritten) and
`ImplementsContract` (every step of the exchange is a step of `OrderContract` or
a stutter). The invariant `StatusInv` says of each stage of a call where its
order, and the original of a replacement, stand in the two maps: the lag of two
arises exactly when a failed `_persist_order` leaves `self._orders` ahead and
the next cancel or replace fails as well. `LogIsThePath`, for a store that does
not fail (`Faults = {}`): the `order_transitions` of an order are a path from
PENDING that ends, between calls, at the status of its row. `LogInv` says by how
much the log and the row are apart at each stage (`LogPhase`).

**`RunnerProofs`** — `StaysSolvent`, `StaysWithinTokenLimit`, `ContextInSync`,
`BooksAreWorking`, `PositionsApproachTargets` and `RunnerTypeCorrect`, for any
strategy, quotes, limits and cash. That cash
never goes below zero is not inductive: between a submission and its last fill
the remaining fills are still owed. `RunInv` says how much: some `n` such that
the fills left fit into `n` lots (`Owed`, `Covers`) and cash and position bear
`n` lots at the limit price (`Bears`); and that limits are computed from the
portfolio the last order left (`Synced`). `Aimed` says the same of targets: the
fills left bring the position to the target of the signal at the latest, because
the order was sized from the position at that time. Assumes `RunAssumption`,
`SizingAssumption` and `EngineAssumption`: the fills of an accepted order stay
within its size and limit price.

The fill engine is proved in the same module. `SimulateFillsOwes` is
`MatchingOwes` for every order with something left and every book: no share lost
or counted twice, as much as the book allows, at a total no other choice of
levels betters, and an exception only at a level without size that better levels
do not make unnecessary. The argument: sorted places enumerate the levels by
price (`CollectionTheorems`), the remainder before each is the size less what
the levels before it offer, so the loop reaches a prefix of the sorted levels;
and taking from a worse level what a prefix still offers never pays (the
exchange argument on sums). `MatchingAlwaysOwed` is the property of the
`fill_engine` run, and `FillEngineFitsTheRunner` discharges the runner's
`EngineAssumption` for this engine.

**`DaemonProofs`** — `LockExcludes`: never two daemons between taking the lock
and giving it back, for any processes, schedule and failures. `LockInv` names
the holder and excludes a daemon from the stop request's code.
`RunsAlwaysSpaced` and `NothingStaysRunning` state the other two properties of
the `daemon_history` run for any number of daemons, tasks and intervals, kills
and Ctrl-C anywhere, under the hypothesis `Stoppers = {}`: no process requests a
stop. That hypothesis is needed, as `daemon_stop_history` shows.
`HistoryInv` says that no task is planned before its last recorded run and its
interval, in terms of what each update of the file may change (`Effect`) and of
what its temporary holds (`WritesAlone`); of the daemon that has the lock it says
how the plan relates to its cycle (`Planned`) and which tasks the file may show
as running (`OnlyLabelled`, else `Quiet`).

**`CollectorProofs`** — the store of the collector
and the backfill, for any tokens, books, chunk sizes, history windows and number
of messages, with failing requests and kills. `CollectorInv` says that replies
and messages, on the way and stored, show books their tokens had (`Shown`), that
what a process holds between a request and its write is stored raw already
(`Held`), and that an interval starts before all its session delivered
(`Spans`); `RowsInv` says of every row what it was made of. From it follow `CollectorRawFirst`,
`CollectorLatestRowsTrue`, `CollectorGapRowsExplained`, `CollectorGapsCover` and
`CollectorKeepsTheUniverse`. `CollectorRepairComplete` needs `RepairInv` too:
the chunks and the history requests behind a repair are in the store already,
token by token. Assumes `UniverseAssumption`, `CollectorAssumption` and
`BooksAssumption`.

**`AutomationProofs`** — `AutomationBundlesWhole`, `AutomationResultsTruthful`
and `AutomationOutputsPoint`, for any number of markets, strategies, runs by hand
and automation processes one after the other (the run has one), with failures
and kills. `AutomationInv` says that a run id is taken once (`Budget`, `Fresh`),
which files a writer of a bundle has written at each stage (`Writing`), and that
what results, report index and snapshot name was there when it was written and
is never removed (`Outputs`, `Published`, `Reported`). `AutomationRowsTrue`: a
row shows a market that took orders during its sync, with each token on its side,
although the sources are read one after the other. `Observed` says that what a
sync holds was true at a moment of it: since then a market may only have closed,
later than the sync began. Assumes `AutomationAssumption`, `SyncAssumption` and
`ListingAssumption`.

**`StrategyProofs`** — the five properties of the `strategy` run, for any number
of tokens, any books, feeds, configurations and fills.
`StagedBooksAlwaysBooks` is arithmetic, for any reply that is not crossed and any
tick. The depth of a stage leaves two returned sides sorted and apart. For an
invented quote, rounding gives a multiple of the tick on the right side of the
price and less than a tick away (`Rounding`), so the quote surrounds its price
(`Invented`); where the tick divides a cent both ends of the scale are multiples
of it, rounding does not cross them (`FineRounding`), and the two staged levels
of each side are in order. `ReplayAlwaysKeepsTime`:
`Clocked` ties the next tick to the last call and the next event, and `Fed` says
that the events are sorted and what they carry. `RaisesAlwaysOnlyWhenOpen` and
`ExposureAlwaysLimited`: `Fits` relates the state of the strategy to the list of
its calls and signals, token by token: which stage a cycle has reached, what it
has signalled, how many are active. `CyclesAlwaysComplete` needs `Carried`, where
there is room for the tokens (`Roomy`): every event so far has moved the cycle
of its token past its stage, and no cycle is ahead of the events to come. It
says why the jumps back in time between two tokens do no harm. For a section
without a profile `Alone` adds that no cycle is past its entry: a token has one
event, and a replay ends before its first tick. Assumes
`StrategyRunAssumption` and `FeedsAssumption`.

**`OperatorProofs`** — `ConsoleGateFits`: for every snapshot and all connections
a cancel passes the gate, and exposure can be reduced or increased only as the
alerts say, by cases over the alerts. `ConsoleSwitchesSound`: what the console
confirms was possible at some moment. `ConsoleInv` adds that a preflight kept in
the session and allowing its mode speaks of a mode that was possible when it was
made (`SwitchInv`). Assumes `ConsoleAssumption`.

**`CollectionTheorems`** — what the others cite about finite sums and sorted
places: a sum is a term and the rest, in any order; sums of subsets, of equal
terms and of bounds; places in sorted order name each place once. The
library's induction theorems take an operator as a parameter, which the provers
here cannot instantiate, so induction is proved once for a set of naturals
(`NatSetInduction`) and for a set of subsets (`FinSetInduction`), and used with
the set of those numbers or subsets for which the claim holds.

**Only model-checked.** Out of the prover's reach are the liveness properties
under fairness: `SignalsDrain`, `CancelsComplete`, `DueTasksRun`,
`StopIsHonoured` and `AutomationEnds`. Every other property of a passing run is
stated by a theorem. The two violations are counterexamples TLC finds; nothing
is proved of them.

## What is left out

* Read-only code: the aggregation of `operator_queries.py` and
  `market_data_queries.py`, the contents of reports and snapshots, the screens
  of `ui/` but for the mode switch, translated texts. It shows finished runs and
  changes nothing.
* Wire formats and HTTP: the adapters parse what external services send.
* Schema creation, configuration parsing, formatting of identifiers.
* The metrics of `experiment_metrics.py`: sums over a finished run; only their
  failing is modelled.
* `assign_subscription_pools` and the rotation of pools: no command uses them.
* The ranking of `universe_selector.py`: it sorts rows by volume and liquidity.
* The mark price policy of `value_position`: it scales a valuation.
* The limits `portfolio_exposure_warning` and the like are in `OrderRisk`, but no
  run reaches WARN: the command line passes no threshold.

## What may come next

* The strategies inside `RealtimeRunner`, where they are any strategy today.
* The daemon's `RunTasks` refined by `AutomationRun`, which would show what a
  kill of the daemon leaves of a batch.
* The universe selector and the subscription pools, once a command uses them.
