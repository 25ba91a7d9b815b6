# A verification project for the trading bot

TLA+ modules, TLC configurations and TLAPS proofs about the Python program under
`src/`: a research bot that ranks stocks each day, follows a market feed, plans and
stages buy orders, sends them to a broker under an operator's safety policy, reviews
what is held, and keeps its own book of all of it in state files. It also backtests
its rules and has proving runs that judge whether a set-up may be trusted.

Paths in this file are relative to `src/src/bot/`, unless they begin with `src/`.

## 1. The system

| component | state it keeps | operations | how it interacts |
|---|---|---|---|
| pending-order book, `data/pending_orders.py` | `pending_orders.json`: order id -> record with status, quantities, reservation, broker link | create, partially fill, fill, cancel, expire, replace, upsert; reservation view | loaded and rewritten as a whole by every order command; read by planning |
| reconciliation, `broker/reconciliation.py` | none (folds updates into a book) | submit a batch, reconcile a batch of updates | called by the commands with what the broker answered |
| broker adapter, `broker/execution.py` | none here; the broker's orders there | place, cancel (DELETE then GET), replace (PATCH), list open, get by id or client id | one HTTP call each, any may fail or lose its answer |
| order commands, `api/control_api.py`, `main.py` | none beyond one request | submit, cancel, replace, sync; staging a batch | HTTP server with a thread per request, and CLI processes; no lock anywhere |
| order planning, `main.py`, `execution/*`, `data/portfolio_heat.py` | the sheet and batch of a run | assess, rank, annotate by slots and capital, stage | reads portfolio file and book, writes the book |
| safety policy, `api/control_api.py` | `operator_control_state.json`: submissions enabled, mode, confirmation, live trading | pause, resume, three settings, the gate before broker requests | read at the start of every command; validation drills damage and reset it |
| state files, `data/state_persistence.py` | every JSON store | load, atomic write | shared by all processes; unreadable files load as empty |
| live service, `service/live_market_service.py`, `orchestration/live_runner.py` | connection and service state, counters | connect, poll, flush, run a cycle, recover, shut down | owns the stream adapter; its cycles write state and notify |
| stream ingestion, `ingestion/*` | a coalescing buffer of updates, connection flag | poll messages, flush, disconnect, reconnect | the service's own thread reads the socket, with a timeout |
| market state, `state/market_state.py` | current and previous snapshot | build, diff, alert, save | written by live cycles and by three commands |
| notifications, `notifications/routing.py` | active and delivered-once keys | route events, deliver, save | fed by the service and its cycles |
| candidate journal, `data/candidate_journal.py` | entries by symbol: streaks, best rank, days near the breakout | observe a run, prune, derive memory | written by daily summary and market monitor |
| position reviews, `risk/portfolio_rules.py`, `data/position_trajectory.py`, `data/intraday_state_journal.py`, `data/trade_feedback.py` | portfolio file, trajectory and session journals, log of trade events | upsert, remove, update stop, daily and intraday review | the portfolio commands and the reviews share the files |
| risk and sizing, `risk/*`, `execution/prioritization.py` | none | gates, size, stops, disposition, score | used by planning, summary and backtest |
| strategy and indicators, `strategy/*`, `indicators/*` | none | breakout signal, regime filter | used by summary and backtest |
| backtest and walk-forward, `backtest/*`, `main.py` | cash, positions, pending entries, fills; folds and rankings | day loop; sweeps, preset comparison | offline |
| staging runtime, `service/local_staging_runtime.py` | threads, servers, stop event | start, wait, stop, supervise | hosts the service and the control servers in one process |
| paper validation, `service/paper_validation.py` | control file, status file, audit log, journal, review and verdict | proving and smoke runs, drills, integrity summary | runs the staging runtime and judges what it left behind |
| provider caches, `data/providers.py`, `data/earnings.py`, `data/reference.py` | files of bars, grouped bars and earnings calendars | serve, fetch, save in place, expire | any number of processes share the directory |
| universe and context building, configuration, reports, dashboard, read API | none that others decide by | fetch, compute, format | |

Hard behaviour: commands interleave with each other and with the broker (threads,
processes, no lock, whole-file rewrites); broker calls fail, or succeed and lose
their answer; a broker order fills, is cancelled, expires, is replaced at any moment;
a command may die between two writes that belong together; snapshots are stale when
used; one bad update aborts a batch; feeds die or fall silent; runs are repeated,
skipped and back-dated; threads shut each other down; verdicts are built from
evidence that is saved after the fact. `PROJECT.json` lists these hazards line by line
with the properties that are aimed at each.

What makes the parts correct:

* book and commands: every record is linked to its own broker order; no fill is
  believed that did not happen; an order final here is final there; at most one
  active buy per symbol; what the broker may still spend is reserved; closed orders
  are released in the end; an order only moves along the arcs of its life cycle;
* planning: what is staged fits beside what is held and ordered, in slots, capital and
  sectors;
* safety policy: a switch is where the operators were told it is; nothing goes out
  that the policy, as told, forbids;
* state files: readers see whole documents, and only documents somebody saved;
* live service: a connection that dies or falls silent is replaced, and stays;
  updates reach a cycle; an outage is announced once and its end too;
* market state: what the operator has been told of is what the snapshot says;
* journals: what is remembered happened, once; replaying a review changes nothing; an
  exit is never advised for what was not observed;
* backtest: cash adds up, stops are honoured, no day looks ahead; a study tests on
  days it has not trained on;
* proving runs: they end; a clean verdict is true.

## 2. The modules

| module | models | variables | actions |
|---|---|---|---|
| `PendingOrders` | `data/pending_orders.py`: records, validity, lifecycle helpers, reservation | - | - |
| `BrokerReconciliation` | `broker/reconciliation.py`: matching, merging, applying one update | - | - |
| `BrokerOrders` | the broker, external, as `broker/execution.py` relies on it | `broker` | accept, fill, close, settle a replacement |
| `OrderControl` | staging, submit, cancel, replace, sync, step by step | `orders`, `cmd` | 23, composed with the broker's |
| `OrderProperties` | what the commands promise, and fairness | | |
| `OrderLifecycle` | the abstract ledger that `OrderControl` implements | `ledger` | `Stages`, `Replaces`, `Progresses`, `Ends` |
| `OrderInvariant` | the inductive invariant `IInv` of any number of commands | | |
| `OrderSerialInvariant` | what one command at a time adds to it, `SerialInv` | | |
| `SafetyPolicy` | the control state and the gate | `file`, `request`, `told` | settings, requests, crashes, damage, reset |
| `StateFile` | `write_json_file`, `load_json_mapping_file` | `path`, `tmp`, `content`, `proc`, `clash` | one per file system call |
| `UpdateBuffer` | `LiveUpdateBuffer`, building a cycle's envelope | - | - |
| `NotificationRouting` | suppression and delivery of a notice | - | - |
| `LiveService` | `service/live_market_service.py` over the two | `status`, `socket`, `buffer`, `artifact`, `mail`, `pc`, ... | 25: one per step of `run_once` and `run`, and the environment's |
| `LiveServiceInvariant` | its inductive invariant `IInv` | | |
| `MarketState` | building, comparing and alerting of snapshots, severities | - | - |
| `MarketCycles` | the update of the two files, live and by commands | `current`, `previous`, `run`, `told`, ... | `RunStages`, `LoadCurrent`, `KeepPrevious`, `SaveCurrent`, `WriteOutputs`, `CommandWrites`, `OutputsFail`, `Tell`, `TellFails`, `Crash`, `Damage` |
| `CandidateRisk` | gates, heat, drawdown, sizing, disposition | - | - |
| `ExecutionPriority` | scores, ranking, slots and capital over the reservation | - | - |
| `OrderPlanning` | `generate-orders` between fills and edits | `portfolio`, `book`, `held`, `sheet`, ... | `GenerateOrders`, `Stage`, `Fill`, `OrderEnds`, `UpsertPosition`, `SellPosition`, `NextDay` |
| `CandidateJournal`, `DailySummary` | the journal; `daily-summary` | `scores`, `queue`, ... | `Summarize` |
| `PositionRules` | the daily and the intraday decision for a held position | - | - |
| `PositionReviews` | portfolio commands, reviews, journals, log | `positions`, `log`, `trajectories`, `session`, `report`, ... | `UpsertHolding`, `UpdateStop`, `RemoveHolding`, `LogEvent`, `Killed`, `ReviewPortfolio`, `ReviewIntraday` |
| `BreakoutMomentum` | the breakout rule and the regime filter | - | - |
| `Backtest` | the engine | `data`, `setup`, `engine`, `today` | `TradeDay`, `CloseOut` |
| `WalkForward` | sweeps and comparisons, metrics | `plan`, `study` | `AddFold`, `FoldsDone`, `EvaluateFold`, `RankSets`, `ComparePresets` |
| `StagingRuntime` | threads of the servers and of the supervisor | `thread`, `asked`, `failed`, `supervisor`, `stopping` | start, serve, fail, shut down, supervise |
| `PaperValidation` | the proving commands, the operators and drills beside them, the verdict | adds `command`, `service`, `status`, `editor`, `evidence`, ... to those and to `file` | `Create`, `StartNext`, `Probe`, the waits and stops, `Review`, `Read`, `Judge`, `Exit`; the editors' `Accept`, `Refuse`, `Save`, `Drill...`, `Record`, `CliDies` |
| `ProviderCaches` | the cached files of three providers | `cache`, `fetch`, `answer`, `clock`, ... | `ServeCached`, `ServeTorn`, `CallProvider`, `CallFails`, `OpenCache`, `WriteCache`, `SaverDies`, `Tick`, `Move` |
| `MCOrderControl`, `MCLiveService`, `MCMarketCycles`, `MCDesk`, `MCBench` | small instances for TLC | | |
| `OrderControlProofs`, `OrderSerialProofs`, `PlanningProofs`, `LiveServiceProofs`, `MarketCyclesProofs`, `BenchProofs`, `BacktestProofs`, `DeskProofs` | theorems | | |

Modules build on each other by EXTENDS: `PendingOrders` -> `BrokerReconciliation` ->
`BrokerOrders` -> `OrderControl` -> `OrderProperties` -> `OrderInvariant` -> `OrderSerialInvariant`, where
`OrderProperties` instantiates `OrderLifecycle`; `UpdateBuffer` and
`NotificationRouting` -> `LiveService`; `MarketState` -> `MarketCycles`;
`PendingOrders` and `CandidateRisk` -> `ExecutionPriority` -> `OrderPlanning` and, with
`CandidateJournal`, `DailySummary`; `PositionRules` -> `PositionReviews`;
`CandidateRisk` -> `BreakoutMomentum` -> `Backtest` -> `WalkForward`; `StagingRuntime` and
`SafetyPolicy` -> `PaperValidation`. The gates and sizes that the backtest uses are
therefore those of planning, the book that planning reserves from is the book that
the order commands change, and the policy that a verdict is about is the policy
that gates requests.

### How the order model corresponds to the code

A helper that raises `ValueError` is a pair: a predicate (`CanUpsert`,
`CanFinalize`, `CanApply`, ...) that says when it returns, and the value it returns.
A command is a record `cmd[p]` whose `pc` names the await it is in:

* `generate-orders`: `BeginStage` (candidates judged by the file as it is then),
  `StageLoad` (the staging helper's own load), `StageOrder` for each order of the
  batch or `RaiseOnStage`, `Save`;
* submit: `BeginSubmit` (load and checks), `PlaceOrder` (the broker accepts, the
  answer is left to reconcile) or `CallFails`, `ApplyUpdate` or `RaiseOnUpdate`,
  `Save`;
* cancel: `BeginCancel`, `SendCancel`, `Fetch` or `FetchFails`, `ApplyUpdate`,
  `Save`;
* replace: `BeginReplace`, `SendReplace` (PATCH, then the local records, which may
  raise), `Save`;
* sync: `BeginSync`, `Scan` or `ScanFails`, `ReadOrder`, `UnknownOrder` or
  `ReadFails` for each order left, `ApplyUpdate` for each update, `Save`.

`snap` is `starting_state`, `work` is the state being computed, and `Save` writes
`work` over whatever the file holds by then, which is what the code does. `Abandon`
is the death of the process at any point, and the answer that is lost after the
broker has acted. Rejected commands change nothing and are left out.

Abstractions: an order id stands for its symbol, side and decision, which it is a
hash of; all shares cost `UnitPrice` ticks; `"accepted"` stands for the statuses
reconciliation only records; timestamps are left out, so that the updates of a
batch are applied in any order (the code sorts them by the broker's timestamps,
which the order of the reads says nothing of). The audit log and the trade-feedback
log are left out: no decision reads them.

The broker accepts one order per client id, fills a share at a time, closes an open
order at any moment, and settles a replacement some time after accepting it. That is
an assumption about a service outside the repository.

### SafetyPolicy and StateFile

`told` is a history of what the answers to the settings commands leave possible; it
is what the operators rely on. A request is judged when the control file is loaded
and sent later. `FailClosed` names the processes whose service refuses to work on a
missing file. In `StateFile` an inode is separate from its names, so that a writer
with the temporary file open keeps writing to it after another writer renamed it;
`clash` remembers whether two saves ever overlapped.

### LiveService, UpdateBuffer and NotificationRouting

One thread runs `run`, and `pc` names the call it is about to make:

* `Begin` (top of `run_once`, startup warnings), `Connect` or `ConnectFails`;
* `Read(n)` or `ReadFails`, then one `TakeUpdate`, `SkipMessage` or `TakeDisconnect`
  per message, and `Polled` or `PolledLost`, the early return;
* `NotReady` or `Flush` (the envelope is built and the buffer marked), `RunCycle`;
* `DropStale` or `Settle`, the two ends of `run_once`, then `Sleep`;
* `SeeStop`, `Interrupt`, `DelayOverflows` and `PortfolioUnreadable` leave the loop for
  `FlushOnShutdown` and `Close`; `Kill` may strike anywhere, and `Start` begins again
  with the files that are there.

Every end of `run_once` goes through `Finish`: the warnings left to record, the notice
of a change of state, the status file. A cycle, a poll or the startup records at most
one warning here; which text it has does not matter beyond its key.

Time is counted in ticks. The code only compares ages with thresholds, so the state
holds ages, each up to its threshold: `status.silence` for the time since the last
message (or the connection, before any message came), `buffer.dirty` for
`dirty_since_utc`. The code reads the clock at the top of `run_once`, so ages grow in
`Sleep`, by its delay and up to `MaxLag` ticks more for the iteration itself.

`owed`, and all of `mail` but its `file`, are histories: the updates taken in that no cycle was
given, and what reached the operator. `mail.missed` says that the last notice of the
connection's state did not arrive, or was never due because the process is a new one. The state `"stale"` is never seen at the
end of an iteration: the code turns it into `"retrying"` in the same step, so the
notice about a stale feed is never sent. Left out: counters and texts of the status,
the subscription status, translation of the providers' frames, routes and severities
of notices (a notice that matches no route is one that was not sent), a second Ctrl-C
during shutdown, `max_iterations`. A write that fails goes on failing until the process
ends (`disk`).

### MarketState and MarketCycles

A snapshot is what a cycle's reviews found, with the sections a cycle had no data for
carried over from the current file. An update keeps the old current file as the
previous one, saves the new one, writes the outputs and, in the live service only,
tells the operator of the transitions. `told` is a history of what the notices say of
each subject, and `untold` names the subjects whose change reached nobody. `crossed`
remembers whose updates, the one going on or the last, overlapped with another's, and
`disturbed` says of the update saved last that it was such a one, or that since then the
file was damaged or an update died between its two writes. The current file may be damaged at any time, and each process may
crash before any of its writes.

Known limits of the code that the properties leave room for, by exception and never by
leaving a step out: commands consume transitions without telling anybody; outputs are
written before notices are routed, so that an output that fails loses them; failed
deliveries are not tried again; a route that takes warnings only hears of a block but
not of its end; a position that goes and comes back yields no transition; a new
baseline after a damaged current file leaves a stale previous file; a context that is
missing for one cycle announces the same breadth twice. The suppression key contains the
time of the snapshot, so that these notices are practically never suppressed.

### OrderPlanning, ExecutionPriority and CandidateRisk

`GenerateOrders` plans a run from the portfolio file and the book; `Stage` stages the
batch into the book as it is by then, while `Fill`, `OrderEnds`, `UpsertPosition`
and `SellPosition` happen in between. Capital and prices are whole units. The broker is
reduced to what it does to the book; how it does it is `OrderControl`'s.

A filled order is no longer active: until the operator enters the position, neither
its capital nor its slot is counted, and `SheetFits` says so by its condition. A
position entered without its decision while its order is active counts twice, which is
on the safe side. Two presets may both put one symbol on a sheet; staging takes one.

### CandidateJournal and DailySummary

`Summarize` is one run of the workflow: the candidates of a few presets are assessed,
given the memory the journal holds of them, ranked and observed. What it reads of
portfolio, book and market is any of a few screens. `approvals` and `sightings` are
histories of the runs that were made, so that `JournalTrue` compares the journal's
counters with what they count.

### PositionRules and PositionReviews

A portfolio command writes the portfolio file, then appends to the log; `Killed` is its
end in between. A review reads the positions and a history (daily) or a tape (intraday),
previews the trajectory with the new observation, decides, and journals. A symbol's
journal is a function from the times it was reviewed at to what was observed then, since
one observation of a time takes the place of the one before it. `told` is a history of
the advice of each time; it forgets what a review that drops a symbol's trajectory makes
the code forget.

`untold` names the symbols whose last event the log misses: the command died or its append
failed, or the event repeats an earlier one of its day. `Repeats` says what a repetition
is without the code's id, so that an id that leaves out the day, the trade or the stop
breaks `LogTellsHoldings`. The id leaves out quantity and time: a symbol sold and bought
again on one day at one price leaves the log saying it was sold, and one entered again
on its day with another stop leaves it with the old one, until its next event. A back-dated review describes
a trajectory with newer observations in it; a symbol bought again inherits the
earlier one; an empty portfolio leaves the journal as it is. Of the log, the outcome
events of review rows and the candidates' events are left out, and so is a second
process that appends at the same time (the existing ids are read before the append, so
the two can write an event twice).

### Backtest and WalkForward

Prices, cash and commissions are whole cents and a fraction of a cent is cut off, which
stands for the floating-point result. A day runs stops at the open, entries due, stops within the
day, marks, signals and orders at the close, and raised stops, in the order of the
engine's loop; a run over a market is a fold of days. Each loop of the engine over its
symbols is `Each`, a recursive function whose argument is the place in the order of symbols,
and `Work` says what the loop does with one. What the engine is told of a day is one record
(`Session`): the bars of the day, what the strategy says of each symbol (with the regime
in it), and on which day a symbol trades next. The strategy is modelled down to its bars: prior high, volume average, true
range and the moving averages of the regime.

An entry that fills above its stop by its slippage alone while it opened at or under it
is not stopped out that day. A stop's commission may exceed what it earns. An order
with a fill day far ahead holds its slot until then, and an order is only made for a
day on which the symbol trades: the engine knows that much of the future. A true range
of zero makes the trailing stop raise and ends the run. The best sets of a sweep are
ranked by the rows of the tests, which is what the code reports and not a choice that
`FoldsAreBlind` is about; ties are broken by the parameters written as text, in which 10
comes before 5. Sharpe ratio and yearly growth are left out.

### StagingRuntime and PaperValidation

`thread` holds what each server's thread is doing, `supervisor` the thread of the live
service, whose loop is reduced to being online, completing cycles and saving its status.
Any thread may fail at any time; a failure sets the stop event that everyone watches.
`stop()` returns when the servers are down and five seconds have passed, even if the
supervisor is still at work.

The other half is the evidence: a settings command or drill (`editor`) saves the control
file and afterwards records what it did, in the audit log or in the journal. A command
that is killed in between, or an append that fails, sets the history `lost`; `strayed`
is the history of whether the policy ever left paper mode or safety or was damaged. The
verdict is built from audit log, journal, control file and status.

Limits of the code that the model shows: a Ctrl-C or a thread that cannot be started
while `start` is under way makes `stop` wait for a server that never began to serve
(outside `CommandEnds`); a server that fails later than the quarter of a second that is
watched goes unnoticed; a `close` that raises leaves the later servers up; a default start
resets the policy without an event; a refused live attempt on an unreadable file
leaves no record; a status that could not be saved leaves the one of an earlier run
to be judged.

### ProviderCaches

An answer is saved in place, not renamed. `OpenCache` truncates the file and `WriteCache`
completes it; a process that dies in between leaves a part. A part of CSV is read as
if it were all, an empty one raises until it is refreshed, and so does JSON. Days tick,
the provider may move an earnings date, and calendars grow old. A window that ends
today and was fetched during the session is served as it was then until it is
refreshed. The caches of the master universe and of ticker details work as that of the
grouped bars and are left out.

## 3. What is checked

| run | instance | result |
|---|---|---|
| `order_serial` | one process, staged orders of one symbol and a replacement, 2 broker ids, quantities 1..2 | `OpenOrdersReserved`, the refinement `IsLedger` and, under fairness, `ClosedOrdersAreReleased` hold: 72,001 states |
| `order_concurrent` | two processes, one staging, submitting and replacing, the other staging, submitting, cancelling and syncing | `LinkIntegrity`, `NoPhantomFill`, `FinalOrdersClosed`, `ActiveBuysUnique` hold: 415,639 states |
| `live_service` | one symbol held and one not, bars of today and of tomorrow, one message per poll, two starts, kills, a full disk, an unreadable portfolio file | `StatusTruthful`, `NothingForgotten`, `OperatorKnows`, `NotNoisy`, `Recovers`, `FlushNotStarved` hold: 643,764 states |
| `market_cycles` | the live service and one command, one symbol, one sector, crashes, damage, three updates | `PictureTrue`, `ErrsOnCaution`, `AlertsHaveTransitions`, `UrgentIsAlerted`, `FilesExplainChanges` hold: 1,183,070 states |
| `desk` | planning, summaries and reviews, one per behaviour | `SheetFits`, `SectorsSpread`, `JournalTrue`, `LogTellsHoldings`, `ExitsEarned`, `ReplayAgrees`, `AdviceSettles` hold: 548,166 states |
| `bench` | one of a state file, the policy, the threads of a proving run, the changes beside it, a backtest, a study, the caches, per behaviour | `SavesReplace`, `ToldIsInForce`, `PolicyHolds`, `CommandEnds`, `SmokeEarned`, `IntactIsTrue`, `CashReconciles`, `SlotsRespected`, `StopsHonoured`, `LooksBackOnly`, `FoldsAreBlind`, `AnswersAsSent` hold: 367,293 states |
| `order_fills` | one process | violated: fills of a cancelled or expired order are lost |
| `order_sync_aborts` | one process | violated: a matched update raises and aborts the sync |
| `pause_lost` | settings from two processes | violated: an acknowledged pause is undone |
| `backoff_overflow` | as `live_service`, one start, readable portfolio | violated: a long outage ends the service |
| `memory_ignored` | as `desk` | violated: the candidate journal's memory does not rank candidates |
| `test_stream` | as `bench`, on the provider's test stream | violated: a clean smoke run fails for the cycle it is excused from |

The violations are disagreements between the code and what its own docstrings,
messages, tests and runbook say; `PROJECT.json` quotes them under `findings`. The
properties of the passing runs state what does hold next to them: for one command at
a time, for one thread of settings, for saves that do not meet, for changes that were
recorded. The runs of several machines also check one type invariant for all of them.

The properties, in a sentence each (their comments in the modules say more):

* `OpenOrdersReserved`: capital the broker may still spend is reserved in the file.
  `IsLedger`: every order takes arcs of the abstract life cycle only.
  `ClosedOrdersAreReleased`: an order the broker closed is released here in the end.
* `LinkIntegrity`, `NoPhantomFill`, `FinalOrdersClosed`, `ActiveBuysUnique`: every book,
  stale or not, links records to their own orders, counts no fill that was not made,
  calls final only what is closed, and buys a symbol once.
* `StatusTruthful`, `OperatorKnows`, `NotNoisy`: between iterations the status is so,
  outages and their ends have been announced, and nothing twice in a row.
  `NothingForgotten`: an update stays in the buffer until a cycle was given it.
  `Recovers`, `FlushNotStarved`: a feed that works is followed; a due buffer is flushed.
* `PictureTrue`, `ErrsOnCaution`: what the notices told is what the snapshot says, and,
  by a route for warnings, never rosier. `AlertsHaveTransitions`, `UrgentIsAlerted`,
  `FilesExplainChanges`: alerts, reviews and the two files agree with what is announced.
* `SheetFits`, `SectorsSpread`: a batch fits beside all that is held and ordered when it
  is staged. `JournalTrue`: best ranks, last days and counts of approvals are those of the
  runs made; back-dated runs may count an approval twice but never lose one. `LogTellsHoldings`: reading
  the log to its end gives the portfolio file. `ExitsEarned`, `ReplayAgrees`, `AdviceSettles`: exits rest on observations of
  different days or bars, a repeated review repeats itself, and following a suggested
  stop ends the suggestion.
* `SavesReplace`: until two saves meet, a file changes only from whole to whole.
  `ToldIsInForce`, `PolicyHolds`: switches are as told, requests as allowed.
* `CommandEnds`: a proving command ends, whichever threads fail and whenever.
  `SmokeEarned`, `IntactIsTrue`: a pass has a finished supervisor and a cycle behind it; a
  clean verdict means paper mode and safe settings all along.
* `CashReconciles`, `SlotsRespected`, `StopsHonoured`, `LooksBackOnly`, `FoldsAreBlind`:
  every cent, slot and stop of a backtest, and no knowledge of later bars, in a day or
  in a study.
* `AnswersAsSent`: what a workflow is given from a cache is what the provider sends for
  that window, but for parts of CSV.

**Bounds of the orders.** Two shares are enough for an order to be partially filled, for
a fill to arrive between any two steps, and for a replacement to change the quantity
(`Replacement[<<s1, 2>>] = r1`); two broker ids let a replacement be placed; a batch of
two orders of one symbol reaches the uniqueness check; two processes are enough for a
stale snapshot to overwrite a newer file. Ids are never reused, so that runs end in
states where only syncs are left, and deadlock checking stays on. The theorems
below remove these bounds for the properties of `order_concurrent`.

**Of the service.** A staleness threshold of two ticks and a longest delay of two are
enough for a connection to go stale in one sleep or in two and for the back-off to
reach its cap before `MaxExponent`, which stands for the 1023 of a float; a buffer
interval of one tick and a lag of none or one make the buffer due at once or later. A
batch of one message is enough because the messages of a batch are taken in one by one
and the ends of a batch differ only by the last one looked at; the second start shows
what the delivery state of the first does to the notices of the next. Deadlock is not
checked there: a service that has ended for the last time does nothing more.

**Of the market state.** Three updates are enough for a section to be found, missed and
found again, with a command or a crash in any gap; three summaries and four reviews
contain every pair of states that a difference tells apart. It stops after `MaxCycles`
updates, so deadlock is not checked.

**Of the desk.** Three symbols, two of a sector, with two positions allowed and one per
sector: both limits bind and each alone. Two days and two sheets let orders of one
run meet those of the next, with three edits of portfolio or book between. Days up to
`MaxAsOf = 4` with gaps over `GapResetDays = 1` and `StaleAfterDays = 2` let a streak go
on, break and be pruned, and `MaxRuns = 3` runs come in any order. One holding with six
histories and four tapes reaches each reason for an exit, trim or watch, and
`MaxSteps = 4` is a purchase and the three reviews of an exit by repeated watching, or four
commands: two stops, a first entry's stop between them and two days are enough for
events that differ only in the day or only in the stop. These counters end a behaviour, so deadlock is not checked.

**Of the bench.** Two writers and three inodes let a third file be opened while two are
named. One administrator and one other process that both fail closed are what the
policy's properties assume; `pause_lost` has two administrators. The threads of a
proving run are checked with nobody changing the policy, with two servers, any of which
may fail at any step, with status saves that succeed and a serving server that answers,
and with a process that leaves to the next either no status or that of a cycle; the
changes beside it are checked in a run in which nothing fails, edits happening while the
command waits or after it, with at most two editors at work and without the validation
command, which to them is a smoke command with no verdict, and none after one has lost
its evidence. The threads do not read the policy, and the theorems about the verdict
hold of `PaperSpec` without either scope. The backtest runs six-day markets of two
symbols: one on any tape of four days out of a rise or surge and three of five bars
(flat, rise, surge, gap below the stop, dip through it), the other on one of four tapes,
some with days missing, which gives two positions at once, orders that wait, fills cut
by cash, initial, gap and trailing stops, drawdowns that halve the risk and positions
left at the end. Studies lay folds of two or six by one or three days over six, with six
of the nine objectives. The caches see four requests of one company by two processes, over four half-days with a
weekend day, a calendar that lives for two, and one move of the earnings date. Most of
these machines come to an end, so deadlock is not checked.

**Fairness.** `FairSpec` of the orders: a command that has begun runs on (weak fairness
of `Proceed`), since threads and processes are scheduled. A sync is begun again and again
(strong fairness of `BeginSync`): nothing in the code schedules it, so this is a
condition on the operator, and the property is worthless without one. Day orders
expire, since every order is placed as `DAY`, and accepted replacements are settled:
assumptions about the broker. Crashes and failing reads are never assumed to stop by
fairness; the property says so instead (`FailuresStop => ...`). The instance has one
process: with two, a stale save may make an order active again after every sync.

`LiveService!Spec` asks for weak fairness of `Work`, the one thread's next step, and
for nothing of the feed, the disk, the webhook, Ctrl-C or `stop`. `Recovers` therefore
has its condition inside: *if* the feed from some point on takes every connection and
sends something on every read, the service is in the end connected for good, whatever
was silent before, or the process has ended. `FlushNotStarved` speaks of a service that
goes on reaching the flush.

The proving run has weak fairness of the command's own steps (`Proceed`, which ends its
waits by the time limit the command gives itself) and of each server's thread
(`ServerGoesOn`): threads are scheduled. Nothing is asked of the supervisor, which may
hang in a cycle: `stop` gives up on it after its join.

**Refinement.** `IsLedger` maps `orders` to a phase and a fill count and shows that the
file implements `OrderLifecycle!LedgerSpec`, so that whatever a command does to the book
as a whole, each order takes an arc of the abstract life cycle. It needs one command at a
time; with two, a stale save takes orders back, which `order_concurrent` accounts for by
asserting of every book only what no later event can make false.

## 4. What is proved

For every value of the constants that the named assumptions allow (14,898 obligations in all):

| module | theorem | statement |
|---|---|---|
| `OrderControlProofs` | `InvariantHolds`, `TypeCorrect` | `Spec => []IInv`, `Spec => []TypeOK` |
| | `LinksHold` | `Spec => []LinkIntegrity` |
| | `FillsAreReal` | `Spec => []NoPhantomFill` |
| | `FinalIsFinal` | `Spec => []FinalOrdersClosed` |
| | `NeverBoughtTwice` | `Spec => []ActiveBuysUnique` |
| `OrderSerialProofs` | `SerialInvariantHolds` | `Spec => [](IInv /\ SerialInv)`, one command at a time |
| | `CapitalIsReserved` | `Spec => []OpenOrdersReserved`, one command at a time |
| | `FileIsLedger` | `Spec => IsLedger`, the refinement, one command at a time |
| `PlanningProofs` | `PlanInvariant`, `PlanTyped` | `PlanSpec => []PlanInv`, `PlanSpec => []PlanTypeOK` |
| | `SheetAlwaysFits` | `PlanSpec => []SheetFits` |
| | `SectorsAlwaysSpread` | `PlanSpec => []SectorsSpread` |
| `LiveServiceProofs` | `ServiceInvariant`, `ServiceTypeCorrect` | `Spec => []IInv`, `Spec => []TypeOK` |
| | `StatusIsTruthful` | `Spec => []StatusTruthful` |
| | `UpdatesAreKept` | `Spec => []NothingForgotten` |
| | `OperatorIsTold` | `Spec => []OperatorKnows` |
| | `ToldOnce` | `Spec => []NotNoisy` |
| `MarketCyclesProofs` | `TypeCorrect` | `Spec => []TypeOK` |
| | `PictureIsTrue` | `Spec => []PictureTrue` |
| | `ErrorsAreCautious` | `Spec => []ErrsOnCaution` |
| | `AlertsAreAnnounced` | `Spec => []AlertsHaveTransitions` |
| | `UrgencyIsAlerted` | `Spec => []UrgentIsAlerted` |
| | `FilesAreExplained` | `Spec => []FilesExplainChanges` |
| `BenchProofs` | `FileInvariant`, `FileTypeCorrect` | the invariant and the types, any writers and documents |
| | `SavesAreWhole` | `FileSpec => []AtomicAlone` |
| | `SavesOnlyReplace` | `FileSpec => SavesReplace`, an action property |
| | `AnswersHold`, `CacheTyped` | `CacheSpec => []AnswersAsSent`, `CacheSpec => []CacheTypeOK` |
| | `PolicyInvariant`, `PolicyTypeCorrect` | the invariant and the types |
| | `SwitchesAreAsTold` | `PolicySpec => []ToldIsInForce` |
| | `RequestsAreAllowed` | `PolicySpec => []PolicyHolds` |
| | `EvidenceTraces` | the invariant of the evidence |
| | `VerdictsAreEarned` | `PaperSpec => []IntactIsTrue` |
| | `PassesAreEarned` | `PaperSpec => []SmokeEarned`, away from the test stream |
| `BacktestProofs` | `EngineInvariant`, `BacktestTyped` | `BacktestSpec => []EngineInv`, `BacktestSpec => []BacktestTypeOK` |
| | `CashAddsUp` | `BacktestSpec => []CashReconciles` |
| | `SlotsSuffice` | `BacktestSpec => []SlotsRespected` |
| | `StopsKept` | `BacktestSpec => StopsHonoured`, an action property |
| | `DaysLookBack` | `BacktestSpec => LooksBackOnly`, an action property |
| | `StudyInvariant`, `FoldsTestDaysOnce` | `StudySpec => []StudyInv`, `StudySpec => []TestDaysOnce` |
| | `FoldsStayBlind` | `StudySpec => []FoldsAreBlind` |
| `DeskProofs` | `ReviewsInvariant`, `ReviewsAreTyped` | `ReviewSpec => []IInv`, `ReviewSpec => []ReviewTypeOK` |
| | `LogTellsWhatIsHeld` | `ReviewSpec => []LogTellsHoldings` |
| | `RepeatedReviewsAgree` | `ReviewSpec => ReplayAgrees`, an action property |
| | `SuggestedStopsSettle` | `ReviewSpec => AdviceSettles`, an action property |
| | `ExitsAreEarned` | `ReviewSpec => ExitsEarned`, an action property |
| | `JournalInvariant`, `JournalTellsTheRuns` | `SummarySpec => []JournalInv`, `SummarySpec => []JournalTrue` |

Assumptions: the named ASSUMEs of the modules (ids are distinct from their sentinels, the
keys of warnings from those of conditions; thresholds are positive where the
constructors check it; the unit price is positive; a replacement inherits symbol, side and
decision and is never an id a batch stages; a batch only buys, and one decision about a
symbol makes one id, since the strategies emit nothing else
(`strategy/breakout_momentum.py:564`) and the ids are hashes of it (`main.py:5988`); a
batch, a review, a set of cycles and the holdings are finite; equity and limits are in
the ranges that `main.py:4525` and `risk/portfolio_rules.py:172` accept; risks per trade and the
strengths of signals are not negative; the id of a planned order
names its symbol and its day; None is no number, position
or event, and no date; the windows of a sweep are positive (`backtest/walkforward.py:146`); a price history has a close (`main.py:8403`);
the bars of a market have positive prices and its candidates are listed once; limits, windows and commissions of a backtest are what the
constructors of its settings accept; the number of watches that
make an exit is positive (`risk/portfolio_rules.py:498`)). TLC evaluates them in the runs. The
theorems of `OrderSerialProofs` assume in their statement that there is one process:
with two, a stale save gives a reservation back and takes an order out of its final
state, which is why `order_concurrent` asks for neither. The
theorems about the policy also assume in their statement one administrator whose service
fails closed, and the last one that all services do; without the first, `pause_lost` is
the counterexample. `PassesAreEarned` assumes that the run is not on the test stream,
where the code is lenient on purpose. `StopsKept` assumes that slippage is at most
the whole price (`SlippageAssumption`); the code only refuses a negative one, and with a
larger one a sale would be filled at less than nothing.

**The argument for the orders.** None of the four safety properties is inductive: what a command
does to the file depends on the book in its snapshot and on the updates in its inbox,
which may be older than both the file and the broker. `IInv` therefore says of each
book (the file and every command's `work`) and of every update in an inbox that what
it claims about the broker *is, or was, so*: linked to the order placed for it, at
most its fills, final only if it is final. `Grows` says that the broker's side only
moves in one direction: an order's client and quantity never change, its fills never
decrease, a closed order stays closed. Hence a claim that was ever true stays true
(`RecordKept`, `BookKept`, `UpdateKept` and `CommandKept` of `OrderControlProofs`), stale books are harmless, and the
invariant never has to compare a snapshot with the file. That is also why it survives
any number of concurrent commands.

* records and books: the record helpers keep records valid and well typed, the
  reservation stays a natural number; every step of the broker keeps `GoodBroker` and
  satisfies `Grows`; good books, updates and commands survive growth; upserts,
  replacements, staging and applying an update keep a book good;
* commands: one lemma per action of `OrderControl`, then the theorems.

**The argument for one command at a time.** What `order_serial` checks is about the
file as it follows itself, so stale books must be ruled out. `SerialInv` says, of the one
command there is, that `snap` is the file until `Save`; that `work` is the file, moved for
each order along at most one arc of the life cycle (`Moves`: the composition of an arc
with the changes the same command makes later is an arc again); and that each order has at
most one update in the inbox, still to be applied to an unchanged record. Reservations are
then a claim of each book about the broker (`CoveredBook`): every order the broker can
still fill has an active record of the same quantity, with a slot and the price of each
share left, and an order not yet placed is ready to be placed. An update keeps it,
because an order it closes was closed at the broker when it was read and a partial fill
releases what was bought and no more; staging keeps it, because what it replaces was not
in the way (`NothingInTheWay`: an active order of the symbol that is not of the batch
would have been skipped when candidates were judged, and the ids of a batch differ in
symbol or decision). An order that takes part in a replacement is left out of the claim,
as it is of the property. `FileIsLedger` then has to look at `Save` alone (`OnlySaveWrites`):
`Moves`, order by order, is a step of `OrderLifecycle` (`LedgerStep`).

**The argument for planning.** What `generate-orders` computes are three loops (the
evaluations, the assessments, the queue), two sorts and five sums; each loop is a recursive
function over its turns, and a loop that broke its invariant would break it at a first
turn. The queue takes each approved candidate once (`IsPicking`), what it marks to be
ordered now costs at most the capital of the view and takes at most its slots
(`QueueFits`), and the batch is a part of that, in another order (`BatchFits`). The exposures keep
one entry per approved symbol, and each approval found its sector below the limit
(`RollKeeps`, `AssessedAre`). What remains is that the view is cautious: what it deducts covers all
that is committed. A sum is compared with another by an injection (`SumBelow`): the
shares the broker holds of a symbol are in its portfolio position or bought by its one active
order and not absorbed by it, which is `Informed` (`CommittedFits`, `OccupiedFits`). The view
clips at zero, which would say nothing of an account that is already over its limits; the proof
needs that a batch is not empty, so that at least one positive amount fitted, and
the clip was not reached. From then on `PlanInv` carries the sheet: a fill moves what an order
had reserved into shares of the same price, an end gives it back, a sale frees it, and no
step of the operator commits more (`SheetStays`), so the bounds hold until the sheet is staged.

**The argument for the service.** `StatusTruthful`, `OperatorKnows` and `NotNoisy` speak
of the moments between two iterations; `IInv` says what leads there. `InStep` ties
status, socket flag and attempt count together at every `pc` of the loop, and so shows
that every way out of `run_once` leaves them consistent. `MailInStep` says that, as long
as the disk takes writes, the delivery state is what the operator was told (the active
key is the condition announced last, the warnings seen are among the keys delivered
once), which is why restarts cannot make a notice come twice. `NoticesInStep` carries
what the operator knows of the state at the top of the iteration (`previous`) through
to its end. `NothingForgotten` is inductive once the types are known: the merge
lemmas say that the newest update of a type keeps the symbols of the older ones of its
date. One lemma per action, on top of the lemmas about buffer and mailbox and one about
`Finish`, the end that all ways out share.

**The argument for the market state.** `PictureTrue` and `ErrsOnCaution` are about moments at
which no update is under way; the invariant follows each subject through the updates.
`FileAccounted`: what the operator knows of a subject fits the current file, or the
change is owed, by a live cycle that has saved and not told, or the subject is `untold`.
`BaseAccounted` says the same of the snapshot the live service started from, but for what
others owe; a save over another's snapshot makes what differs untold. Which values *fit* depends on the route:
equal, or the snapshot is silent, if every notice goes out; no better than the snapshot
if only warnings do. The lemmas about `MarketState` say what `Changes` may leave out: a
subject whose view is the same, or one that a snapshot is silent about.
`FilesExplainChanges` needs to know that a save which has met no other has
compared with what `previous` now holds (`KeptIsPrevious`), and who has met whom
(`OverlapsCrossed`). The attempt to prove it found a gap in an earlier model, in which
`disturbed` only looked at the updates under way at the moment of a save: an update that has
come and gone in between also counts, which takes four updates to see
and could not show with the three of the instance. `crossed` is the history that closes it.

**The argument for the caches.** A cached file is an answer for exactly its key, however
many processes write it: a fetch names the request it was made for, a save takes both from
the fetch, and what a file holds is what was sent at its stamp, or a part of that; a
calendar is only served while its stamp is within its time.

**The argument for the files.** A save is safe while it is the only one that has the
temporary file open. The invariant says whose that file is: as long as `clash` is
false, at most one process is between opening it and renaming it, the inode it writes
is not the one the path names, and what it has written is what it was asked to save. A
crash leaves an inode that the next writer truncates before it writes.

**The argument for the policy.** With one administrator, a record that was loaded to be
changed is still the file when it is saved, unless a drill damaged or reset it, in which
case the answers leave both positions possible. The invariant says of the record that a settings command is about to write what
`ToldIsInForce` says of the file: each of its switches is in a position the operators
have been told of.

**The argument for the verdict.** `EvidenceTraces` says that audit log, journal and
policy file tell one story: if the policy has strayed, then there is a record that says
so, or an editor is still about to write one, or `lost` says that it was lost. Evidence is only ever added, so what a command read
while it built its summary is still there, and a clean summary means there was
nothing to find. For the smoke run, what is judged without a problem is the status its
own supervisor saved last, and that supervisor has ended.

**The argument for the reviews.** The two reviews are one action with a parameter
(`Reviews`, which `DailyReviews` and `IntradayReviews` show both to be): advise on what is
kept of other times, then keep the advice in the place of what was kept of this
time. The invariant `IInv` of `DeskProofs` says of it three things. `ToldIsKept`: the
history of what was told is what the journals hold, so that counting trailing watches in a
journal counts what the operator was told; for a report that no later one precedes,
the settled observations are those of the earlier times (`SettledIsEarlier`), and the last
`n` of them were watches (`TrailingCounts`). `RowsFollow`: the journals, with what the
last review added, still lead to its rows, because observing a time twice is
observing it once (`MergeTwice`); a second run, also one with the suggested stop,
therefore decides on the same trajectory. `LogFollows`: of every symbol that is not
`untold`, the log and the one event that is still to be appended tell what the portfolio
file says; an event that is dropped has its like in the log (`DuplicatesRepeat`). What the rules
themselves compute enters only through `SuggestedStopSettles` and `ExitCountsWatches`.
Preparing the proof found that `ExitsEarned` was false as it once stood, with two holdings
where the instance has one: a review that is made while a symbol is sold drops
its trajectory, and if the symbol is bought back and reviewed for earlier days,
what was told before the sale does not count in the code and must not in the property.

**The argument for the candidate journal.** A run gives each symbol it saw one
observation, whose rank is a place in the ranking, however the ranking was made. The
invariant `JournalInv` compares an entry with the runs since it began. An approval is not
counted again on the day of the last one counted (`CountsApproval`), which says that
every day is counted once as long as the last approval is the latest, that is while runs go
forward (`CountsOnce`); after a run for an earlier day it only says that no day is left
out (`CountsDays`). The days near the breakout grow by at most one, and only on a day
after all that were seen.

**The argument for the backtest.** The engine's day is a chain of loops, and each loop
a recursive function over the places in the order of symbols. What is proved of a loop is
proved of one turn and carried along by induction over that place, which needs no theorem
with an operator parameter: a turn keeps `EngineOK`, so the first place at which it
did not hold would follow one at which it did. `EngineOK` is the invariant. `BooksKept` says that the
cash is the starting cash and what was realized, less what was paid for the positions still
open; the sum over the positions is itself a recursive function over the symbols, and the
lemmas on `SumOf` say what adding or removing a term does to it. Cash is only negative if
some sale did not bring its commission, because an entry is sized to the cash it finds
and a sale that does bring it adds to the cash. `SlotsKept` counts what is held and what waits together, because an order
takes its slot on the day it is made; an entry moves its symbol from one set to the other, so
the count can only grow when orders are made, and that loop takes no more than are
free. For `StopsKept` the loops must be seen one after the other: `Since` compares the engine
with itself in the morning (a position is as it was, or sold at most at its stop, or
came in today at its own), and `Reached` says how far the loop has come, so that after
the last symbol no position is left that the day would have stopped out.

`DaysLookBack` is no invariant but a fact about the operators: two markets that agree up to a
day (`SamePast`) give the indicators, the candidates and so the whole `Session` of the day
alike (`SessionsAgree`), and `Day` reads nothing of a market but its session. `BlindToTests` follows: an
engine that runs up to a last day gives the same trades over the market cut at
that day, and a sweep's choice and rows are computed from such runs alone (`EvalInv`).

**The argument for the folds.** The tests so far lie side by side from the first train
window on (`FoldsLaid`), since the next train window always ends where the last test did:
an expanding one by definition, a rolling one because a test that was cut short by the
end of the market leaves no room for another (`NextFold`). When there is no room left, the
last test has reached the end (`FoldsReachTheEnd`).

The invariants `IInv`, `SerialInv`, `PlanInv`, `JournalInv`, `EngineInv`, `StudyInv` and `EvalInv` were
checked by TLC on the instances of `order_concurrent`, `live_service`, `order_serial`, `desk`
and `bench` (and that of the reviews on one of two holdings), with infinite sets cut to
those of the instance.

Only model-checked:

* `ClosedOrdersAreReleased`, `Recovers`, `FlushNotStarved` and `CommandEnds`: liveness
  under fairness is out of the proof system's reach;
* the types of summaries (a rank is at most the number of candidates): the argument for
  planning follows one preset, and the bound needs it of several and of their ranking.

The branch of staging that replaces an active order of the same decision does not occur
in the TLC instances, whose batches hold one order per decision; the proofs cover it.

## 5. Not modelled

* Universe building, sector and volatility contexts, start-up configuration: fetching,
  parsing and arithmetic whose results the modules take from small sets.
* Reports, dashboard and the read API: they format state that others own.
* Credentials, HTTP and the frames of the providers; texts, rationales and counters.
* The audit log of the order commands and the trade-feedback events of orders and
  candidates: nothing decides by them.
* The restart and transport drills, log rotation and environment overrides of paper
  validation; Sharpe ratio and yearly growth; written tables.

Hazards the code has that no property covers, because there is nothing in the code
that could keep one:

* the policy is judged when a request is loaded (`api/control_api.py:997`); a pause that
  is acknowledged after that does not stop the request;
* CLI services take the defaults for a missing control file (`api/control_api.py:735`);
* a portfolio file that does not parse ends the live service
  (`ingestion/streaming.py:458`; the action `PortfolioUnreadable`);
* the buffer is marked as flushed when a cycle's envelope is built
  (`ingestion/streaming.py:543`): a cycle that fails is not given the updates again,
  unless another message comes. `NothingForgotten` counts an update as given then;
* an update dated after midnight replaces what was waiting of the day before
  (`ingestion/streaming.py:624`);
* two routers that share a delivery file lose each other's keys
  (`notifications/routing.py:330`);
* two saves of one document at once share the name of the temporary file and can publish
  a part (`data/state_persistence.py:83`); `AtomicAlone` and `SavesReplace` hold until then;
* the lost answer to a replace request (`api/control_api.py:1382`) leaves a broker order
  no local record knows of; a sync counts it as unmatched.

What could be added: two routers over one delivery state.
