# A formal model of the algorithmic trading core

This directory holds TLA+ modules for the part of the portfolio management
system that decides and trades: the trading engine's positions, scheduled runs,
executions and safety controls, the backend's order desk, funds and auto-trade
queue, and the components these rest on (backtest, strategy language,
strategies, composites, schedules, screener, recommendations, universes,
reports of profits). TLC checks small instances; TLAPS proves the central
properties for every value of the constants.

Contents: [inventory](#1-the-system), [modules](#2-the-modules),
[runs](#3-what-tlc-checks), [proofs](#4-what-is-proved),
[findings](#5-where-the-code-and-its-documents-disagree),
[limits](#6-what-is-not-shown), [plan](#7-plan).

## 1. The system

Four processes share a PostgreSQL database and a Redis server: the *backend*
(REST API for users), the *trading engine* (internal API that runs
strategies), the Celery *worker* with its *beat*, and the web *frontend*.

| Component | State | Operations | Correct when |
|---|---|---|---|
| Position tracker (`trading-engine/engine/algo/position_tracker.py`) | rows of `algo_positions`, `exit_only_symbols` of the strategy | `process_order_fill`, `open_position`, `close_position`, `check_stop_loss_take_profit` | quantities agree with status, no money lost, a booking rule sells once, stops only tighten |
| Position operations (`backend/app/modules/algo/service.py`) | the same rows | manual close and square-off, trailing stop, profit lock, booking rules, strategy edit | as above, and the user's settings are respected |
| Scheduled runs (`trading-engine/engine/routes/execution.py`) | one database session per run, a due list, a cache of safety verdicts | `run_scheduled_strategies`, `execute_strategy_by_id` | of the runs at work on a strategy at most one still has its lock, a failure undoes only its own work, rows do not stay locked, every due strategy is reached unless lists are given up again and again |
| Locks (`engine/core/locks.py`) | Redis keys with a token and a life | `acquire`, `release` | only the owner frees a key |
| Scheduler (`engine/algo/scheduler.py`) | `status`, `next_run_at`, statistics | due list, next run, enable, disable | one run per opening, no opening skipped |
| Strategy executor (`engine/algo/executor.py`) | rows through sessions of its own, result of the cycle | exits, signals, guards, sizing, orders, persistence | books agree with the broker, limits hold within a cycle |
| Safety controls (`engine/algo/safety.py`) | Redis documents and counters, mirrored in the database | circuit breaker, daily counter, cooldown, synchronisation | losses and trades of a day are bounded, a breached strategy is stopped |
| Portfolio guardrail, stop monitors, square-offs (`execution.py:369`, `:1400`, `intraday.py`, `backend .../safety.py`) | kill switch in Redis, statuses, rows and funds in the database | pause, square off, exits, emergency stop | a breach trips the switch, square-offs are complete, funds follow the rows |
| Paper broker, funds provider (`shared/shared/providers`) | holdings in process memory, cash and margin in the database | orders, settlement, recalculation | cash and holdings agree with rows |
| Order service (`backend/app/modules/trading`) | `orders`, `trades`, `positions`, `user_funds` | manual, template and after-market orders, cancellation | nothing sold short, deliveries paid, funds move with trades |
| Auto-trade queue (`auto_trade_service.py`) | pending trades, strategies made from them | create, approve, reject, expire | one strategy per screener, no position orphaned |
| Screener (`backend/app/modules/screener`) | cached answers, saved screeners | screen, save, link | an answer is what its request's filters ask of one recent run, laxer filters lose nothing |
| Recommendations (`worker/tasks/screener.py`, `screener/router.py`, `multi_factor_scorer.py`) | `daily_recommendations`, the task, requests to store | generate, score, store, measure returns, queue auto-trades | a day shows one list a category, what was measured stays, scores agree |
| Universes (`universe_service.py`) | `universes`, strategies that trade them | seed, refresh, create, edit, delete | one row for a name, no index emptied, a strategy's universe comes with it |
| Reports of profits (`algo/service.py`) | none: rows of `algo_positions` are added up | summary, by strategy, day by day, what is open | each gain is counted once |
| Strategies (`shared/shared/strategies`) | bars since the opening, entries of the day | ten built-in strategies, composites, a rule language | signals protect, votes carry, what is accepted evaluates |
| Backtest (`backend/app/modules/backtest`) | one position, trades, capital, the record | run, store, fail | trades in order, capital explained |
| Funds service (`backend/app/modules/portfolio/funds_service.py`) | cash and its ledger | deposit, withdraw, reset, statement | statements close |

The rest (live brokers, risk, research, accounts, instruments and market data,
notifications, frontend, migrations) is listed in PROJECT.json with the reason
it is left out: adapters to remote services, queries, or numerical code without
state.

How they interact: beat posts *run-scheduled* to the engine every 30 seconds
and gives up waiting after 120, while the engine goes on; a run may thus last
longer than its request, and requests overlap. A run takes a global Redis lock
and then one lock per strategy. Everything it writes goes through one session
that commits after a strategy's turn *unless the turn ended in a* `continue`.
The executor opens sessions of its own for positions. The kill switch and the
circuit breaker live in Redis and change at once, whatever becomes of the
session. Users edit strategies and positions, and trade by hand, through the
backend meanwhile; its requests share one paper broker object and nothing else.

What is hard: overlapping requests, locks that expire under their owners,
crashes that leave keys behind, one session shared by unrelated work, objects a
session read before it waited and writes back after, Redis and database
changing at different times, and long sequences of partial exits and edits on
one row. PROJECT.json lists each such hazard at its line with the properties
that cover it.

## 2. The modules

| Module | Models | Extends or uses |
|---|---|---|
| `AlgoPosition` | one row and the pure functions that compute its next state | |
| `PositionTracker` | the rows of one strategy under fills, checks, closes and edits | extends `AlgoPosition` |
| `ExclusiveRun` | abstract: a strategy is leased to at most one run | |
| `ScheduledRuns` | runs, locks, sessions, crashes, manual executions | refines `ExclusiveRun` |
| `ExecutionCycle` | the executor's turn: exits, guards, orders, paper broker, two kinds of session | |
| `SafetyControls` | breaker, cooldown and daily count, each call a step | |
| `Guardrail` | bulk closing of positions by four requests, and the funds that follow | |
| `TradeFunds` | `update_funds_for_trade` as functions of the funds | |
| `OrderDesk` | order service, validator, paper broker and provider under overlapping requests | extends `TradeFunds` |
| `AutoTrade` | screener runs, waiting trades, the strategies made of them | |
| `Backtest` | the runner bar by bar, and the stored record | |
| `Dsl` | parser, validator and evaluation of the rule language | |
| `Strategies` | signals of the built-in strategies, and sizing | |
| `Composites` | strategies made of strategies, and two processes' registries | |
| `Schedules` | the next-run calculation over a week's clock | |
| `Screening` | filters, presets, strictness, the cache, saved screeners, inference | |
| `Profits` | positions of several strategies and the reports made of them | extends `AlgoPosition` |
| `Recommendations` | the daily task, requests to store, scores, returns | |
| `Universes` | requests that seed and refresh the system's universes | |
| `OwnUniverses` | users' universes and the strategies made with them | |
| `Ledger` | cash and its ledger under overlapping requests | |
| `Standalone` | nine components that share no state, with what is assumed of their constants | extends `Backtest`, an instance each of `Schedules`, `Ledger`, `Strategies`, `Screening`, `Profits`, `Recommendations`, `Universes`, `OwnUniverses` |
| `MC...` | instances for TLC; `MCParts` runs the components of `Standalone`, `Dsl` and `Composites`, one in each behaviour | |
| `...Proofs` | theorems about the module they are named for | extend it and `TLAPS` |

Each module's header says what it leaves out. PROJECT.json's *map* gives the
lines each definition stands for.

### AlgoPosition and PositionTracker

A row keeps the columns that decide anything: side, status, the three
quantities, entry price, realized P&L, both fixed levels, the trailing stop
with its best price (`highest_price_since_entry` of a LONG,
`lowest_price_since_entry` of a SHORT), the profit lock, and the booking
rules with their executed targets. NULL is 0 for prices and percentages, as
the code tests them for truth. Prices are whole ticks and percentages whole
numbers; the rounding of a `Numeric(18,4)` column is kept (`RoundDiv`).

Formulas mirrored for LONG and SHORT in the code are written once in terms of
`Gain`, `Beats` and `StopLevel`. `Checked` is one row's pass through
`check_stop_loss_take_profit` in the code's order: profit lock, trailing stop
(only where the lock is off), effective stop, target, booking rules.

| Action | Code |
|---|---|
| `OpenRow`, `AddToRow`, `CloseByFill` | the three outcomes of `process_order_fill` |
| `CheckExits` | `check_stop_loss_take_profit` over a snapshot of prices in which symbols may be missing |
| `UserClose` | `AlgoService.close_position`, alone or within `square_off_strategy` |
| `EnableTrailing`, `DisableTrailing`, `UpdateProfitLock`, `UpdateProfitBookingRules` | the user's edits of a row |
| `UpdateStrategy` | the strategy's settings change under open rows |
| `SyncScreener` | approval of a screener's new list rewrites `exit_only_symbols` |

Variables `flow`, `drift`, `fired` and `choice` are history: the money that
moved, how far rounding may have moved averages, how often a rule sold from
the current row, and what the user last chose. Each action is one database
transaction; overlapping transactions on rows are in `Guardrail`.

`UpdateProfitBookingRules` empties the executed set although the dialog sends
the list back: `model_dump(mode="json")` writes Decimals as strings, and the
tracker looks for floats, so that the user's own save lets a rule sell again.

### ScheduledRuns

A worker is a request being served. Its `pc` runs through `idle`, `next` (top
of the loop), `locked` (has the strategy's lock), `checked` (guardrail and
exits done), `executing`, `executed` or `recovered` (its session failed and
`_retry_with_fresh_session` was used), `tripped` (circuit breaker),
`unlocked` (after the inner `finally`, before the commit), `failed` and
`closing`. `session[w]` is what the request wrote and has not committed; a
write to a row in another's session has to wait (`RowFree`) and may time out.
`Commit`, `RollBack`, `Close` and `Crash` say what becomes of it.

Abstractions: whether a user is in breach, whether exits close anything and
whether a pre-execution check blocks are nondeterministic; positions are
represented only by "this session booked exits of that strategy"; strategies
are rescheduled after a fixed `Interval` (`Schedules` has the calculation); a
lock's life and the time to the next run count down with `Tick`. Nothing bounds
the work on a strategy, as nothing in the code does: `worked` counts its ticks up
to `TTL` and stays there. Failures (`Fail`, `CommitFails`, `Recover`, and
`BreachFails`, an evaluation that raises after the kill switch is on, which the
run forgets) and crashes are not bounded either.
`execute_strategy_by_id` appears as `StartManual`, `ManualBreach`, `EndManual`
and `FailManual`; it takes no lock.

`ExclusiveRun` has one variable, the runs each strategy is leased to, and lets a
strategy be taken only when it is leased to nobody. `ImplementsExclusive` maps
`holders[st]` to `InTime(st)`, the runs that are at work on `st` and have not
outlived its lock. It says that a strategy's lock is what decides, even when a
run comes back late and gives back what is not its own any more. It does not say
that one run at a time is at work: `OneRunPerStrategy`, which `locks.py:3`
claims, is false as soon as a turn outlasts the lock, which nothing extends.

### ExecutionCycle

One strategy at a time is traded by one request. `pc` follows `execute`:
`Start` (the route's own exit check), `Analyze`, `CheckExits` (the executor's),
then `Admit`, `AdmitBlind` or `Refuse` for each signal in any order, `Fill` or
`Reject` for an admitted one, `Persist` or `PersistTimesOut`, and `Commit` of
the request's session. `LoseConnection`, `Restart` and `CloseElsewhere` happen
in between.

What matters is which session wrote what. `writes` and `funds` are what the
request's session has flushed and not committed: exits checked by the route,
and the user's funds, which every paper fill updates through that session. The
executor's own sessions read committed rows (`row`), and a write of theirs to
the same row or to the funds waits for the request, that is, for their caller.
`MustWait` says when `_persist_execution` would; then the statement times out
and the turn's result is lost (`PersistTimesOut`). Nothing is lost where the
server has already dropped the request's connection and with it the lock,
which is why `LoseConnection` lets rows be booked.

A position is a signed quantity; `held` is what the broker believes it holds,
and is cleared by `Restart`. Prices are left out: one price stands for all, so
that values are counted in shares; funds, safety limits and cut-off times are the
nondeterministic `Refuse`. `placed` is `orders_data`, in which exits and fills
look alike. `blind` counts failed reads of a position, which the code takes for
"no position". `exited` remembers what the exit check left of each row.

### SafetyControls

Four requests use the controls of one strategy: its scheduled turn, an
execution the user asked for, the stop monitors and the task that saves
breakers. Every Redis or database call is a step: `Check` walks the checks of
`check_all` in order, `Execute` reports fills and losses, `Record` and `Expire`
are the counter's INCR and EXPIRE, `Read` and `Write` the two halves of
`check_and_update`, `Stop` the change of status, `ReadToSave` and `Save` the
persistence, `Load` the restart. `booked` is what runs have reported of the
day, `forgotten` whether any of the day's state was lost: overwritten by a stale
check, reset by a user, gone with Redis or with a failed turn.

### Guardrail

Rows of one user are closed in bulk by the stop monitors (which may trip the
guardrail first), the intraday square-off and the backend's emergency stop,
while a turn may open one. A request loads rows (`held`), takes them one by one
(`Take`, `Look`), and `Write`s the columns that changed since it loaded them
(`Updated`) into its `session`, which holds their locks until `Commit`.
`SumUp` and `WriteFunds` are `recalculate_funds`: sums over what is committed
and what the session itself wrote, then a write that waits for the funds row.
`Deadlock` is the database's, which fails one of two sessions that wait for
each other. `mixed` remembers whether a sum was taken while another session
had closes that it could not see.

### TradeFunds and OrderDesk

`TradeFunds` has the funds provider's arithmetic per product (DELIVERY,
INTRADAY, MARGIN, SLB). In `OrderDesk` a request's session keeps the objects it
has loaded (`mine`, `pos`), what it has flushed (`wrote`, `ownsFunds`,
`ownsPos`) and where it is. `Create` validates and makes an order; `AtBroker`
hands it to the paper broker, which rejects it or goes on to `Fill`, where the
provider of the moment settles it as DELIVERY; `Settle` is the service's second
settlement by the order's product, with the trade row and the booking of the
position; `Written` books a route's market order once more, as the route
executes it again. `Raised` is what an error does, which ends the request unless
it releases after-market orders (`StartAmo`, `NextAmo`); `AskCancel` and
`Cancel` are `cancel_order`. The broker's provider is that of the request which
came last, so a fill may be settled in another's session (`guest`) or in one that
has ended (`Closed`).

### AutoTrade

Requests `AskApproval` or `AskVerdict`, close the trade, `Look` for the
screener's strategy and `Approve` (update it, or make one), with commits between
and no locks. `StartRun` and `EndRun` are a screener's scheduled run; `Signal`,
`Buy` and `Close` the engine's executions; the rest are the user's edits.
`overtaken` remembers that a request acted on what another had changed.

### The parts

*Backtest*: one bar per step: stop, target and signal in the runner's order,
fees and slippage counted once, then storing, failing or leaving the record
RUNNING. *Dsl*: tokens are fed one by one; the parser's call order is compared
with the grammar's precedence, and definitions the validator accepts are
evaluated on small markets. *Strategies*: the conditions of the ten strategies
over readings of their indicators, with each strategy's stop and target
methods and fall-backs, and the four sizing methods with their cap.
*Composites*: create, update, delete, restarts of either process, and a vote.
*Schedules*: the clock moves between marks around the openings of five days;
the worker polls, the engine may be down. *Screening*: filters over readings of
a year's bars, eight presets at four strictness levels, the shared cache with its
lifetimes, saved screeners and the inference of a strategy and direction. A run
is given the symbols its universe resolves to at that moment and the provider of
its user; the cache's key has neither (`service.py:278`, `:755`), so that a cached
answer may be of other symbols and of another user's quotes.
*Ledger*: deposits, withdrawals, resets and settlements that read, wait and
write back.

*Profits*: rows of `algo_positions` with the day of `exit_at`, or of `updated_at`
until then, under everything that opens, enlarges, sells, squares off, touches
or deletes them; and one request at a time that reads symbols (`Ask`), waits for
prices, and reads again (`AddUp`, or `ListStrategies` and `ByStrategy`).
`earned` is the history the reports are compared with. *Recommendations*: the
task goes from category to category (`Store`, `FindNothing`, `TimeOut`), queues
auto-trades for what was stored, and may be killed anywhere; requests that it no
longer waits for go on, each with the lists it saw (`seen`) when it began. The
scores are functions of a reading. *Universes*: requests walk through the names;
`Add` or `Find` is the look, `Change` waits for a row that another has changed,
`Commit` writes all. *OwnUniverses*: edits by users, and requests that flush a
universe, then commit it with its strategy or raise.

## 3. What TLC checks

| Run | Properties | Distinct states |
|---|---|---|
| `tracker` | `QuantitiesFitStatus`, `RealizedMatchesCash`, `RuleSellsOnce`, `StopsOnlyTighten` | 606,872 |
| `locks` | `ImplementsExclusive`, `OnlyOwnerFrees` | 751,496 |
| `reach` | `EveryDueStrategyIsReached`, `RowsAreReleased` | 256,631 |
| `cycle` | `WithinMaxOpen`, `WithinCap`, `LongOnlyStaysLong`, `EveryTurnEnds` | 455,139 |
| `safety` | `LossesBounded`, `TradesBounded`, `BreachedIsStopped` | 936,483 |
| `autotrade` | `OneStrategy`, `PositionsCovered` | 3,327,134 |
| `desk` | `NeverShort`, `DeliveryIsPaid`, `FundsMoveWithTrades` | 1,129,538 |
| `guard` | `FundsFollowRows`, `SquareOffIsComplete`, `GuardrailTrips` | 593,938 |
| `parts` | `EveryTypeOK`; Backtest: `BacktestHolds`; Dsl: `ConditionsMean`; Schedules: `OneRunPerOpening`, `EveryOpeningIsTaken`; Ledger: `StatementsClose`; Composites: `VotesCarry`; Strategies: `SignalsProtect`, `SizesWithinLimits`; Screening: `AnswersFit`, `RelaxingKeeps`, `DirectionsAgree`; Profits: `ReportsAccount`; Recommendations: `ListsKept`, `MeasurementsStay`, `ScoresAgree`; Universes and OwnUniverses: `UniversesKept` | 752,340 |
| `rollback` | `RollsBackOnlyItsOwn` | violated |
| `doubled` | `ExitAppliedOnce` | violated |
| `hold` | `HoldTradesNothing` | violated |

The properties of the first nine runs hold. A behaviour of `parts` is one
component's. `BacktestHolds` is `TradesInOrder` and `CapitalExplained`,
`ConditionsMean` is `ParsesTheGrammar` and `AcceptedEvaluates`, `ListsKept` is
`OneListShown` and `QueuedFinds`, and `UniversesKept` is `OneRowEach`,
`IndicesKeepSymbols` and `ComeWithStrategies`.

*Bounds of `tracker`.* One symbol, since rows of different symbols share
nothing but `exit_only_symbols`; the proofs are for any number. Fills of two
shares, so that a 50 per cent rule leaves one, then sells nothing; three prices
of which the highest crosses both targets, the lowest hits every stop and the
middle one makes averages round; three settings that between them use each
direction, fixed stop and target, trailing stop, lock and booking rules.
`MaxOps` bounds fills, closes and edits together at four, enough for open,
average, partial exit, edit and reopen; price checks are not bounded.

*Of `locks`, `reach` and `rollback`.* No instance bounds failures, crashes or the
length of a turn; `MaxRequests` lets one request wait for a worker, and `Touched`
names the strategies that users turn to. `locks` has one strategy and three
workers, since the hard case takes three: one comes back after its lock has
expired, another has taken the strategy, and a third must still find it locked.
A lock lives two ticks, so that it may be taken in the same tick as the global
one or a tick after it. `reach` has two strategies, the least for which one can
stand in the other's way, and two workers; a tick is a lock's whole life there
and strategies are due again at once, which is the densest schedule; users do
nothing, as they could only help. `rollback` has two strategies and two workers,
of which one fails after the other strategy's turn ended in a `continue`.
Symmetry is used in `locks` and `rollback` and not with liveness.

*Of `cycle`, `doubled` and `hold`.* Two symbols that may be bought and one that
may only be sold, with room for one position, so that two signals of a cycle
compete for it, or one symbol with room for two, so that a failed read admits an
order on top of a position; a lot of two and a cap of three, so that a second
order is capped; `MaxHeld` (what the user's cash buys of a symbol) is four, and
two faults allow a failed read or a restart beside the lost connection which
alone lets rows be booked after a fill. Turns are not bounded. The strategy is
LONG: for one of direction BOTH neither `WithinMaxOpen` nor `WithinCap` holds,
since an exit booked a second time opens a position that nothing counted
(finding *doubled*).

*Of `safety`.* Three pairs of requests (turn and manual execution, turn and
monitor, turn and saving task); a limit of two for losses and for trades, one
fill and a loss of one per execution, at most three lost in a day, and one
fault. Loss is booked one short of the limit, then at it, then over it.

*Of `autotrade`.* Two requests that may answer the same of two trades, over two
symbols of which a new list may drop one, and one edit or failure.

*Of `desk`.* Two requests and two orders of one or two shares for INTRADAY or,
by route, DELIVERY, a market price of 500 where the broker fills at 600,
balances that pay for one lot and for several, and one fault.

*Of `guard`.* Two strategies, one of them intraday, lots of two of which half is
booked at a gain of 1 and all is closed at a loss of 2; a guardrail by amount
that pauses and one by percentage that squares off; the pairs of requests that
write the same rows, and the monitors with both square-offs, over one open
position, which all of them may write; one fault, which may be a missing quote,
a failed request or a user who resumes.

*Of `parts`.* Named in `MCParts`, where each set is commented with the cases it
is there for: bars that hit stop, target and neither; alphabets that meet each
level of precedence; a Friday to a Tuesday around opening and close; two
requests and five movements of cash; definitions that refer to each other; and
an index that falls, turns and rises under six kinds of symbol, in a universe
whose order is changed and from which a symbol is then taken out, with two
providers of which one has no bars of the second symbol, on a weekday. Reports are of
two strategies, one configured to buy and one to sell short, which stays so, with two
rows of two shares at most, so that a row is sold in part and enlarged while
another strategy's is closed, over two days, the least for which a history has a
day before it began. Recommendations have two requests
to store, so that one is overtaken, two lists, three days, and a week of one day
and a month of two, so that each return falls due; their readings are a clear
case and one led by a single score, each with every score replaced by the
neutral one. Universes have one name of each kind and two requests, which may
add a name twice; users have two requests and two universes.

*Fairness* (`FairSpec`). In `ScheduledRuns`: weak fairness of `Tick` (time
passes, and beat sends requests with it) and of each worker's steps (a request
that is served goes on: it is a coroutine whose awaits have timeouts). In
`ExecutionCycle`: weak fairness of `Advance`, the next step of a turn that has
begun, for the same reason; that the turn ends then depends on
`statement_timeout`. In `SafetyControls`: weak fairness of the monitor's steps,
as beat starts it every five minutes. In `Guardrail`: weak fairness of requests
under way, and strong fairness of the monitor, whose wait for a row ends because
the database serves those who wait for a lock in turn. No fairness is assumed of
users, and none of faults. Locks left by crashed runs disappear only because
time passes. Requests, failures and deaths may go on for ever, so
`EveryDueStrategyIsReached` has to say when a strategy is not reached: when lists
that still had it are given up again and again (`Obstructed`). After a rollback
the objects of the list are expired, and where reading the next one raises, the
rest of the list is given up (`execution.py:1090`); a strategy ahead that fails
at every run then starves those behind it.

*Slips.* Every property of a passing run is paired in PROJECT.json with a slip
in the code (`ReducedUncapped`, `LockFollowing`, `BookedShort`, ...) under which
TLC finds that property violated. These variants stand beside the definition
they vary and are used by nothing else.

## 4. What is proved

TLAPS checks these with no assumption but the named ASSUMEs of the modules:
sizes, prices and percentages are natural numbers, settings have their type,
tokens differ from one another, each strategy has an owner, sets that are
counted are finite. One theorem has a hypothesis of its own, `PctsAreSane`
(`StopsTighten`: trailing percentages are at most 100).

`Standalone` has the assumptions about the components that run alone. `Moneys`:
sums are positive (`amount` has `gt=0`, `portfolio/schemas.py:186`, `:193`), the
opening balance and what a settlement leaves are not negative (it is refused
where the cash does not cover it). `Calendar`: the clock stops at midnight and
at a time after the market has closed; there is nothing of a day to speak of
otherwise. `Trading` and `Means`: a strategy is one of the ten of the registry,
prices are positive, ranges are not negative, indicators are numbers; that
multiples of a range or a risk are not negative is assumed of the users, since
no schema checks it: with a negative `atr_multiplier` a stop is on the winning
side. `Quotes`: what the screener reads of a symbol, at whichever
provider, are numbers. TLC evaluates
each of them on the run `parts`. `Reports`: prices and quantities are positive, a
strategy has one of the three directions, and a history is asked for at least a
day. `Lists`, `Presets`: a category has one preset (the task has a fixed list of
them), none is called `bearish_momentum`, scores are within the ranges the scorer
states for them (`multi_factor_scorer.py:39`), and returns are measured after at
least a day. `Catalogue`: no two definitions of the system's universes have one
name.

| Module | Theorems (property) |
|---|---|
| `PositionTrackerProofs` | `InductiveInvariant`, `TypeCorrect` (`TypeOK`), `QuantitiesAlwaysFit` (`QuantitiesFitStatus`), `BooksBalance` (`RealizedMatchesCash`), `RulesSellOnce` (`RuleSellsOnce`), `StopsTighten` (`StopsOnlyTighten`) |
| `ScheduledRunsProofs` | `RunsTypeOK` (`TypeOK`), `LocksAreHeld`, `RunsAreExclusive` (`ImplementsExclusive`), `OwnersFree` (`OnlyOwnerFrees`) |
| `ExecutionCycleProofs` | `TurnFits`, `TypeCorrect` (`TypeOK`), `MaxOpenKept` (`WithinMaxOpen`), `CapKept` (`WithinCap`), `LongStaysLong` (`LongOnlyStaysLong`), `ExitOnlyShrinks` (`ExitOnlyNeverGrows`) |
| `SafetyControlsProofs` | `ControlsAccount`, `DailyLossBounded` (`LossesBounded`), `DailyTradesBounded` (`TradesBounded`) |
| `AutoTradeProofs` | `QueueAccounts`, `OneStrategyKept` (`OneStrategy`), `PositionsStayCovered` (`PositionsCovered`), `UserEnables` (`OnlyUserEnables`), `UnlinkedStaysUsers` (`UnlinkedKeepsSettings`) |
| `OrderDeskProofs` | `SessionsFit`, `TypeCorrect` (`TypeOK`), `PositionsStayLong` (`NeverShort`), `DeliveryStaysPaid` (`DeliveryIsPaid`), `FundsFollowTrades` (`FundsMoveWithTrades`) |
| `GuardrailProofs` | `Invariant`, `FundsFollow` (`FundsFollowRows`), `SquareOffs` (`SquareOffIsComplete`) |
| `StandaloneProofs`: backtest | `TotalFacts`, `RunnerAccounts`, `TypeCorrect` (`TypeOK`), `TradesFollow` (`TradesInOrder`), `CapitalAccounts` (`CapitalExplained`), `BacktestsHold` (`BacktestHolds`) |
| funds | `FundsAccount`, `StatementsAlwaysClose` (`StatementsClose`), `FundsTyped` |
| schedules | `CalendarHolds`, `OneTurnPerOpening` (`OneRunPerOpening`), `EveryOpeningTaken` (`EveryOpeningIsTaken`), `CalendarTyped` |
| strategies | `SignalsAlwaysProtect` (`SignalsProtect`), `SizesAlwaysFit` (`SizesWithinLimits`), `NoCrossingIsLost` (`CrossingsAreSignalled`), `SignalsTyped` |
| screener | `ScreeningHolds`, `AnswersAlwaysFit` (`AnswersFit`), `DirectionsAlwaysAgree` (`DirectionsAgree`), `RelaxingAlwaysKeeps` (`RelaxingKeeps`) |
| recommendations | `ListsHold`, `ListsAlwaysKept` (`ListsKept`), `MeasurementsAlwaysStay` (`MeasurementsStay`), `ScoresAlwaysAgree` (`ScoresAgree`) |
| universes | `SeedsHold`, `OwnHold`, `UniversesAlwaysKept` (`UniversesKept`) |
| reports | `BooksHold`, `ReportsAlwaysAccount` (`ReportsAccount`) |

Every module has the same layout: the inductive invariant as a conjunction of
named parts, lemmas about the operators the actions are built from, one lemma
per action or group of actions that it keeps the invariant, then the theorems of
the specification. TLC checked each invariant on the run's instance before it
was proved.

*PositionTrackerProofs.* `IInv == TypeOK /\ QuantitiesFitStatus /\
RealizedMatchesCash` is inductive. The three need one another: the books
balance only if a closed row holds nothing, which is `QuantitiesFitStatus`,
and both need the types for their arithmetic. The argument is per operation of
a row: `NewRowFacts`, `AveragedFacts`, `ReducedFacts`, `CheckedFacts` and their
like say what each function does to quantities and to `Worth`, the money a row
answers for; a partial close moves money from *invested* to *realized* and
leaves the sum equal to the cash received, and averaging is off by at most half
a tick per share, which `drift` counts. `RuleSellsOnce` needs `SalesRemembered`:
once a row has a booking document of its own, what was sold stays on its
executed list, whatever the strategy's rules become. `StopsOnlyTighten` needs
`StopsFit`: a trailing stop is the level of the best price at the row's own
percentage, which is monotone in that price for percentages up to a hundred.
Nothing in the code bounds them there; above, the level changes sign.

*ScheduledRunsProofs.* No theorem has a hypothesis: turns may take any time.
`LocksAreHeld` (`LockHeld`) is the fact the locks rest on: a worker that has had a
strategy in hand for fewer ticks than a lock lives owns its key, and life left and
time worked are together at least `TTL`. From it `RunsAreExclusive` shows that
`ScheduledRuns` implements `ExclusiveRun`: a strategy's runs in time all own its
one key (`LeaseIsOwners`), so there is at most one of them, and a lease ends with
the work (`LeaseDropped`) or when the key expires (`LeasesExpire`). `OwnersFree`
says whose step may end a key; it holds for runs that have outlived theirs, as the
release compares tokens.

*ExecutionCycleProofs.* All orders of a turn are counted and sized before any is
booked, so the invariant is about what is booked and what is going to be: the
symbols held, bought in this turn and about to be bought are together at most
`max_open_positions`; each order still to be booked fits the cap as the row is
now, plus a lot for each failed read; a turn has one order per symbol and side;
and what the request's session has written of a row is no more than the row.
`Persist` books a sequence of orders of any length with a fold. The fold is
reasoned about without induction over data: the set of lengths up to which the
claim holds contains 0 and the successor of each of its members, and a least
length outside it leads to a contradiction (`UpTo`).

*SafetyControlsProofs.* Between the breaker's read and its write lies whatever
the other requests do. The invariant bounds the day's booked loss by what the
breaker's key holds (`KeyRead.loss`) and what the turn has reported but not yet
added (`Unwritten`); while the turn is writing, what it read is still enough, as
only the turn adds losses and any overwriting by another sets `forgotten`. A
breaker that has not triggered holds less than `MaxLoss`, so a turn that was let
in began below the limit and ends at most `MaxLost` above it. For the trades:
booked plus `MaxFills` for each execution past the check never exceeds
`MaxTrades - 1 + 2 * MaxFills`.

*AutoTradeProofs.* The number of strategies made and the number of requests
about to make one are together at most one, or the number of requests once they
have overtaken one another; a request that was not overtaken has read what is
there, so its new list keeps every symbol with an open position tradable or
exit-only.

*OrderDeskProofs.* `SessionsFit` says how requests' private views and the
committed rows fit together, in parts: a session holds what its place in the
code says (`SessionInv`, `WroteInv`); an order is made by one request and seen
by others when it is committed, and no request that releases or cancels orders
has read one settled by another product (`OrdersInv`); while there is no such
order all balances seen are cash only, and a trade that was not refused is paid
for, since a value's fees are at most the value (`CleanInv`); one session at a
time has flushed the funds (`OwnerInv`), and one that has has a trade row to show
for it, or a guest's fill (`TradesInv`). A position may be short within a
session between the two bookings of a route's order; the second, for DELIVERY,
replaces a short row by none, so that none is ever committed.

*GuardrailProofs.* One lemma, `MovesKeep`, has what a step of one request owes
the others when it commits nothing: its own place, rows and funds fit
(`Placed`, `RowsKept`, `FundsKept`), it flushes the funds only where nobody else
has, and it has summed up only where nobody else has. `Summed` is the heart of
it: a session that has rows and will commit them without another sum. As long as
no sum missed another session's closes there is at most one such session
(`OneSummed`); what it will commit agrees with the rows as it sees them, and a
commit of anybody else changes neither. Sums of margins and gains are never
looked into: they are equal because the functions summed are (`Same`), so no
induction is needed. For square-offs, `CInv` says that what a request set out to
close is still to come, in hand or closed as it sees it, and that the monitors
can only turn such a row into an open one while it still is open. The
monitors beside both square-offs, which no lock keeps apart
(`execution.py:1400`, `intraday.py:120`), are where square-offs are not complete:
the emergency stop closes a row and commits while the monitors wait with half of
it to book, the intraday square-off passes the closed row over, the monitors write
PARTIAL over CLOSED, and the square-off commits with an open row. The property and
the theorem therefore excuse, with all three under way, the rows a square-off
passed over (`PassedOver`), and nothing else: what it closed itself stays closed
until it commits, as nobody else can write it. It is the same overwriting that may
follow any square-off that has ended before the monitors write.

*StandaloneProofs*, one section for each component.

*Backtest.* `Total`, a recursive function on sequences, is a number, is 0
for the empty sequence and grows by what is appended (`TotalFacts`, with the
same argument as for `Persist`). `RunnerAccounts` relates trades, position and
capital at every bar: entries and exits are in order of bars, the open position
begins after the last exit, and the capital is the initial one with each gain
counted at its exit and each commission when it is paid.

*Funds.* `FundsInv`: a request that has flushed the row of the funds has it to
itself until it commits (`Writes`), and whoever has not has added no entry
(`Spectates`). The date of an entry is taken after the row is in hand, so all
entries of the writer are later than those committed, and the newest of them
says what the writer leaves. A statement therefore closes with the cash,
although a withdrawal that read a stale balance may have written over another's.

*Schedules.* `CalendarInv` reduces the six cases of `NextAt` to one sentence
(`NextFits`): the next run is the *occasion* of its type on some working day, and
no occasion later than the clock is earlier than it. It rests on the arithmetic
of days and minutes (`DayAndMinute`, `DayOf`, `OneDay`) and on a case analysis
over weekdays that shows no working day between a day and the one `NextAt`
chooses. For an opening the next run is later than the last one, so a second
turn for it would need an opening in between. `SteadyFits` says that on a
day nothing has disturbed, the occasion of the day is still ahead until it is
taken; at midnight it is over, as the clock stops once after the close.

*Strategies.* An answer is a function of the bar, so `StrategyInv` says that it
is the answer to a bar of the right kind, and the argument is per strategy: a
stop is `Behind` the price by a number that is not negative, a target `Faces`
it, and for `orb` a close beyond the range is beyond its other side. Sizes are
integer quotients (`Quotient`, `FewerCost`). `CrossingFits`: the averages
of the bar that was looked at last agree with the last signal, and a touch is
on neither side, so `Golden` and `Death` miss no crossing through it.

*Screener.* `ScreeningInv`: each list is that of some run, which has its mark, the
symbols its universe had then and its provider (`OwnRun`). What a caller has at
work is the list of what it asked for in its own run (`TaskFits`); a cached entry
is that of its key in the run that made it (`EntryFits`); and two questions of one
key ask for the same filters and sizes (`OneKey`), though perhaps of other symbols
or of another provider. What was given then fits the one run it came from. For strictness, each
level is a multiplier, and the lemmas go from scaled parameters
(`ScaledInOrder`) through one filter's checks (`LaxerAsksLess`, `LaxerPasses`)
to all filters of all presets (`PresetsAskable`).

*Recommendations.* That a day shows at most `peak` lists a category is not
inductive: a request deletes what it saw when it began, so what matters is what
would be there if any of the requests under way committed. `Bounded` says it for
every subset of them: the lists stored that none of the subset saw, with as many
lists as the subset has requests, are at most `peak`. With the empty subset it
is the property; a request that begins sees all lists there are, so it adds
itself and removes them; a commit takes the request out of the subset and puts
its list in. `QueuedFinds` and `MeasurementsStay` rest on `seen` being of the
request's own day and category, and on the day being over only when no request
is under way. `ScoresAgree` is arithmetic on weights and thresholds: a bias
beyond 200 and a combined score of 800 leave room for only one direction.

*Universes.* `UniversesInv` counts rows of a name together with the requests that
have added it and not committed (`NamedOnce`): at most `crowd`. A name is added
only where no row of it is seen, and then only requests can have it, of which
each has it once, as the names still to come differ from one another and from
those it added (`NamesNew`). A commit moves a name from the second count to the
first. What is going to be written to an index is not empty (`ChangesFit`).
For users' universes, each row of purpose `strategy` is among the `paired`
(`OwnInv`).

*Reports.* `ProfitsInv` has one equation (`GainsAgree`): what a strategy has earned
is the sum of the realized gains of its rows. The reports are sums over the same
rows grouped otherwise, by strategy, by day or not at all, and `GroupsAdd` says
that the sums of the groups add up to the whole where each row is in one group.
It rests on `TotalsAdd`, `TotalOfOne` and `TotalOfNothing`, whose sums are again
reached with `UpTo` in place of induction. A report is made from one reading of
the rows, and what was read earlier (symbols, strategies) only says which of
them are asked about; a strategy deleted in between has neither rows nor gains.

Only model-checked:

* liveness (`EveryDueStrategyIsReached`, `RowsAreReleased`, `EveryTurnEnds`,
  `BreachedIsStopped`, `GuardrailTrips`), which is beyond the prover;
* `ConditionsMean` and `VotesCarry`: `Dsl` and `Composites` recurse over
  expressions and over strategies made of strategies with RECURSIVE operators,
  where the prover has no backend, and what they say would need induction over
  these data;
* `EveryTypeOK`, which chooses among the types of components of which two are
  `Dsl` and `Composites`, and one is `Screening`, whose lists are sorted with an
  operator of the community modules that chooses among functions. The types of
  `Backtest`, `Ledger`, `Schedules` and `Strategies` are theorems of their own;
  those of the later components are in their invariants as far as they are
  needed there, without the bounds that only keep TLC's instances small.

## 5. Where the code and its documents disagree

Three runs expect a violation; TLC's counterexamples are described in
PROJECT.json's findings.

* *rollback*: "rollback any partial changes from the failed strategy" also
  rolls back earlier strategies whose turn did not commit
  (`execution.py:1090`), among them the disabling and square-off of a user in
  breach, which is then not repeated.
* *doubled*: an exit found by the executor's check is closed on the row, and
  closed again as one of the turn's filled orders (`executor.py:1246`).
* *hold*: a strategy's HOLD is traded as an order to sell, since the executor
  takes for a sale whatever is not a BUY (`executor.py:643`).

Other places where what a document, comment or name says is not what the code
does were met while modelling. The modules state the first group as properties,
which the instances violate; they are in no run.

| Property | What happens |
|---|---|
| `ScheduledRuns!OneRunPerStrategy`, `OneScheduledRun` | "prevents duplicate strategy executions when multiple workers run concurrently" (`locks.py:3`): not when a turn, or a run, outlasts its lock |
| `Screening!OwnAnswers` | a cached answer may be of another user's provider, or of the symbols from before an edit of the universe (`screener/service.py:278`, `:755`) |
| `SafetyControls!CountIsDaily` | a day's trade count whose first execution filled two orders never expires (`safety.py:417`) |
| `OrderDesk!OneTradePerOrder` | a route's market order is settled and booked twice; with *n* requests at work an after-market order may be traded *n* times |
| `OrderDesk!AmoIsReleased` | after-market orders wait for ever: the worker posts to a path the router does not have, and a limit order is only marked PENDING |
| `ExecutionCycle!FillsAreTracked` | what `_persist_execution` is to book after a paper fill waits for the funds row its own request has locked, times out, and is lost (`executor.py:1277`) |
| `Guardrail!TripsOnTodaysLoss` | the task that would begin a day fails, so yesterday's realized P&L may trip the switch |
| `Guardrail!StopsAreEnforced` | after a trip that only pauses, nothing checks the stops of the positions left open |
| `Schedules!WindowedStrategyTrades` | a trading window and a market-open schedule may never meet |
| `Composites!AllAgree`, `UnanimityCarries` | AND of a component the engine lacks trades on the other alone (`composite.py:48`); full agreement required of `MAJORITY` never trades |
| `Dsl!ParametersAreValid` | a definition whose parameters the function cannot take is accepted and raises when evaluated |
| `Strategies!LevelsProtect`, `MacdIsSignalled`, `CapIsTotal` | `gap_go` buys below the midpoint that is its stop; MACD crossings are lost between bars; the total cap does not hold where a size falls back |
| `Screening!LinkedStrategiesFit`, `ShortsCanPass` | an edited screener keeps the inferred strategy of its old filters; the preset for short sales lets no stock pass, since its trend filter asks for prices above and below an average |

Others, by component, that shaped the models:

* *Scheduled runs.* A strategy's lock is released before its turn is committed
  (`execution.py:1081`, `:1085`). A strategy that fails at every run can keep those
  behind it in the list from being reached. A breach whose disabling or square-off
  raises after the kill switch is on is evaluated again at the next turn.
* *Order desk.* The backend's paper broker has no price fetcher and fills every
  order at 100.0; it takes every order for DELIVERY; its memory is not rolled
  back with the session and is gone after a restart; a failed second settlement
  of an after-market order leaves it REJECTED with the cash charged. LIMIT and
  STOP orders are never executed. The worker's tasks for stops, GTT and trigger
  orders post to routes that refuse or do not exist.
* *Schedules.* MARKET_CLOSE computed between 9:55 and 10:00 UTC gives the same
  9:55 again; a CRON expression is ignored; a change of the schedule does not
  recompute the next run.
* *Backtest.* A result the columns cannot hold leaves the record RUNNING; the
  exit at the end is not on the equity curve.
* *Ledger.* Lost updates make the sum of the entries differ from the cash while
  every statement still closes; a reset writes no entry.
* *Alerts.* Processing an alert calls `run_screener` without the `universe` it
  requires, or before that a `get_preset_filters` that does not exist
  (`screener/router.py:1678`); either raises, so no alert is ever processed.
  Refreshing a universe from its screener lacks the `universe` too.
* *Recommendations.* `process_recommendations` compares a configured confidence,
  a word, with a number, which raises: no daily recommendation is ever
  auto-traded. The preset `value` is stored as `pullback`
  (`worker/tasks/screener.py:170`), so the scorer's strategies for `value` are
  never chosen; some of those it does choose (`breakout_swing`,
  `range_breakout`, `sector_rotation`, `trend_following`) are not in the
  registry.
* *Universes.* Overlapping requests add a system universe twice, after which
  every look for its name raises. `create-strategy` gives a strategy columns it
  does not have and always raises; its universe is rolled back with it.
* *Reports.* The gain of a position sold in part belongs to the day it was last
  updated, so a history moves it along with every touch of the row; its sum
  over time remains right.
* *Strategies.* `orb` raises with timezone-aware data; timestamps in UTC shift
  the hour gates; equal RSI thresholds divide by zero.
* *Screener.* A run of scheduled screeners rolls back the session they share,
  so only one due screener runs; a preset that does not exist yields no filters
  and every symbol passes; laxer strictness can lose stocks of the momentum
  filter, against `schemas.py:52`, which `RelaxingKeeps` leaves out.
* *Rule language.* The documents' own examples `close > sma(20)` and
  `macd_histogram > 0` are rejected by the validator.
* *Safety.* Losses realized by exit checks and monitors never reach the
  breaker's `daily_loss`; the reset task reads a setting that does not exist.

## 6. What is not shown

The models share no state. `ExecutionCycle` has one request at a time and
DELIVERY with a fixed quantity; two turns of one strategy are in
`SafetyControls` (limits) and `ScheduledRuns` (locks), their rows are not.
`Guardrail` has one long position per strategy, which opens at most once, and
one price for all; `OrderDesk` one symbol and one row of positions, though the
code can make duplicate rows. Signals, indicators and market data are readings
chosen freely within sets that MCParts names; what an indicator computes of its
bars is not modelled. Prices and percentages of the instances are whole numbers;
rounding of percentages themselves is not modelled. Legacy booking rules stored
as a list are left out, and so is the regime override of the executor.

Quantities of the order desk are whole, as `int()` makes them
(`trading/service.py:138`, `:227`). The route that stores recommendations may be
asked for any date; in `Recommendations` it is asked for the task's day, and
measuring the returns of a day is one step although the code waits for quotes in
between, since a day has one value. A ledger entry that fails when funds are made
aborts the transaction they are in, so it is a failure of the whole.

Some properties excuse part of what they are about, and PROJECT.json's hazards
say so where they do: `TradesBounded` and `BreachedIsStopped` where a document of
the breaker or the counter was overwritten or lost; `FundsFollowRows` where a sum
missed the closes of another session; `GuardrailTrips` says nothing of the
disabling and the square-off that follow the switch; `SignalsProtect` leaves out
stops at a level of the day, which are `LevelsProtect`'s; `RelaxingKeeps` and
`DirectionsAgree` leave out the momentum filter; `UniversesKept` allows as many rows of a name as requests were under way together.

Properties stated and checked while modelling but in no run, as others say more:
`OnlyUserEnables`, `UnlinkedKeepsSettings`, `ExitOnlyNeverGrows`,
`CrossingsAreSignalled` (all four proved), `FiltersAreConditions`, and the type
invariants of `ExecutionCycle`, `SafetyControls`, `AutoTrade`, `OrderDesk` (all
proved but that of `SafetyControls`, which is part of `ControlsAccount`) and of
`Guardrail` (its part without the sums is `TypeInv` of `Invariant`).

Components that are not modelled: live brokers (the remote service is not in
the repository), risk, research and market data (numerical code and adapters),
accounts, settings and watchlists (single-row edits), notifications, frontend
and migrations.

## 7. Plan

1. Done: the modules of section 2 and the proofs of section 4.
2. `Guardrail`'s own type invariant (that a sum of natural numbers is one needs
   induction over sets) and, of `SafetyControls` and `ExecutionCycle`, refinements
   of abstract specifications of a limit.
3. A refinement of an abstract ledger of money by `PositionTracker`.
4. Not modelled yet: the signals service, risk limits, and the Fyers adapter as
   far as its own retries and token refresh go.
