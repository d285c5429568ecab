# Formal verification of quanter

quanter is a Python platform for trading Chinese A shares by one strategy, the neckline
method. This directory holds TLA+ models of the parts of it that keep state and run next
to something else, the TLC runs that check them on small instances, and machine-checked
proofs of the properties that matter most.

| module | lines | what it is |
|---|---|---|
| `PilotLedger` | 284 | the decision rules of the live pilot as pure operators: records, purchase gates, exit rules, `absorb_reality` |
| `Pilot` | 653 | the pilot process against the counter: callbacks cut into steps, faults, the properties |
| `ExitDesk` | 42 | what the pilot promises about selling, abstractly |
| `PilotInv` | 74 | the inductive invariant of the proofs |
| `PilotProofs` | 1694 | proofs about the pilot: types, sells and the book |
| `PilotOrderProofs` | 4457 | proofs about the pilot: orders, buys, the gates, subscriptions, the refinement |
| `SumTheorems` | 273 | sums over finite sets of naturals, proved once for the proofs that add up |
| `PilotMC` | 12 | the symbols of the TLC instances |
| `ReplayTasks` | 353 | the asynchronous replay queue: table, schedulers, consumers, pools, workers |
| `TaskLife` | 30 | the life of a task, abstractly |
| `ReplayProofs` | 1271 | the proofs about the queue |
| `ReplayMC` | 14 | tasks and processes of the TLC instances |
| `Experiments` | 246 | the version store, its command line and autopromote |
| `ExperimentsProofs` | 869 | the proofs about the store |
| `ExperimentsMC` | 14 | versions and writers of the TLC instances |
| `Lake` | 316 | the daily lake: the incremental sync, the repair of holes, freshness |
| `Evening` | 182 | the evening chain over the lake: job ledger, checks with a deadline, a server that is killed |
| `EveningProofs` | 2611 | the proofs about the lake and its evening |
| `EveningMC` | 8 | the symbols of the TLC instances |
| `Deploy` | 275 | from the champion to the legs: watch, package and the stages of a deployment |
| `DeployProofs` | 534 | the proofs about the deployment |
| `DeployMC` | 9 | the champions and legs of the TLC instance |
| `Discovery` | 198 | the nightly search: seeds, Pareto front, the count of nights without growth |
| `DiscoveryProofs` | 751 | the proofs about the search |
| `DiscoveryMC` | 13 | the metrics of the TLC instance |

`PROJECT.json` has, for every definition, the lines of the source it stands for. Each safety
invariant and each action property of a passing run is also stated by a theorem, for every
value of the constants that the theorem's assumptions admit; what the provers cannot reach
is named in each section and summed up in section 10.

## 1. The system: inventory

The top-level `README.md` of the repository still describes a live engine of its own
(`trading/engine.py`); the code does not contain it any more. Orders reach the market
through one program only, the **GoldMiner pilot**, which is assembled from
`src/emquant/pilot_body.py` and a snapshot of the champion's parameters and runs inside the
terminal of the broker. Everything else prepares, evaluates, deploys or reports.

### Components with state

**GoldMiner pilot** (`emquant/pilot_body.py`). *State*: `state.pkl` (orders by client id,
positions, `placed`, `scan_done`, the dates of the last pre_open and after_close), its copy
in memory, the subscription set, the once-a-day repair latch, and at the counter the real
orders and shares. *Operations*: `bootstrap`, `reconcile` (`absorb_reality`), `pre_open`
(cancel yesterday's buys, cancel duplicates, expire positions, scan, buy, repair refused
orders), `on_tick` (catch up, reconcile, cancel or chase entries, decide the exit), the probe
job, `after_close`. *Interaction*: calls to the counter, each of which can fail; callbacks of
the gm SDK; `RISK_BLOCK.flag`; the saved file. *Hard*: the counter moves between any two
calls, `get_orders` shows an order late, a crash between an order and its save, calls that
fail after they took effect, a second `pre_open` the same day. *Correct when*: never two
sells of the same shares, never more bought than the gates allow, no order forgotten, every
held symbol watched, every day scanned.

**Replay queue** (`backtest/tasks_db.py`, `scheduler.py`, `worker.py`,
`weekly_replay.py`). *State*: the table `replay_tasks`, and per server process a scheduler
thread, one consumer thread a task, a process pool of one, cancel events and progress
queues. *Operations*: enqueue, claim, submit, report, end, cancel, sweep, reset at start.
*Hard*: threads of several processes on one table, workers that die or hang, restarts.
*Correct when*: a task is run by one worker, ends once, and always ends.

**Experiment store** (`experiment/`) and **autopromote** (`research/autopromote.py`).
*State*: `experiment_version` (status, weight) and `audit_log`. *Operations*: create,
promote, set-weight, archive, discard, rollback; autopromote is a list of these. *Hard*:
every check reads outside of the transaction that writes; a list of operations can stop half
way. *Correct when*: the ACTIVE weights never exceed the capital, the audit log tells the
table, the system is never left without an ACTIVE version.

**Daily lake** (`data/tools/sync_daily_incremental.py`, `repair_gaps.py`, `data/integrity.py`,
`freshness.py`). *State*: `a_shares_daily.parquet`, one row a day and symbol with prices
adjusted to a basis; `pending_recompute.json`, the symbols whose history is still to be
recomputed; `.repair_unfillable.json`, the days given up. *Operations*: the incremental sync
(append, detect dividends, recompute), the scan for holes, the repair, the freshness check.
*Interaction*: Tushare, by pages that fail or come back empty; the evening chain starts both
programs and believes the check. *Hard*: each program rewrites the whole file from a copy made
minutes before; sidecar and lake are two writes; a day may arrive cut short. *Correct when*:
the rows of a symbol share one basis, a day called ready has its rows, a repair only adds,
nothing the market has is given up.

**Evening chain** (`trading/orchestrate/pipeline.py`, `trading/job_ledger.py`,
`ops/data_pipeline.py`, `ops/run_data_check.py`, the table `data_ready` of
`trading/state_store.py`). *State*: a row a day in the job ledger and in `data_ready`.
*Operations*: the 18:00 chain (collect in a process of its own, verify, spawn the repair,
brief, close), the check that syncs again until 20:00, the sync at server start. *Hard*: the
server dies and its process goes on; the exit code and the freshness may disagree. *Correct
when*: what `get_ready` promises holds from then on, and a chain comes to an end.

**Discovery** (`discovery/`). *State*: the tables `trial` and `search_run`; the last row of a
snapshot carries the count of nights, the count without growth, the size of the front and the
status. *Operations*: the nightly cycle at 02:00, its catch-up at server start, `discovery
run` by hand. *Hard*: the processes are detached, may overlap and may die between the row and
its completion; the seed of a night comes from the last row. *Correct when*: the search stops
only after as many new attempts without growth as it says, and then stays stopped until the
data moves.

**Deployment** (`ops/promote_pipeline.py`, `emquant/build_pilot.py`,
`emquant/export_snapshot.py`). *State*: the champion, the snapshot in the working tree, the
commits, the built file, the package `pending_deployment.json`, and per leg `main.py` with
its chain of backups. *Operations*: the watch of every evening, the deployment of a leg in six
steps that a person starts. *Hard*: a step fails after the earlier ones took effect, and the
attempt is repeated; the champion and the package change in between. *Correct when*: a build
tells its parameters, what runs is what was shown, the way back is kept, no champion is passed
over.

**Files of the retired engine** (`trading/order_state.py`, `trading_plan.py`,
`single_instance.py`, and the tables of orders, fills, positions and attribution in
`trading/state_store.py`). Their writers have no caller left outside the tests.

**Mock broker and replay** (`backtest/mock_broker.py`, `replay.py`, `broker/`): a sequential
simulation of fills and exits. Not modelled; its exit ladder is a candidate reference for
`DecidePosition`.

**Bots, notifier, terminal guard** (`broadcast/`, `infra/notifier.py`,
`ops/gm_terminal_guard.py`): starting, watching and messaging processes. Mostly I/O; the
guard restarts the pilot, which the model covers as crash and start.

### Components without state of their own

The strategy kernel (`strategies/neckline/`) and the rest of `data/` are pure or I/O
over data frames: the outcome of a scan is a nondeterministic set of signals in the model.
The presentation server serves the stores read-only and runs the scheduler that starts the
replay queue, the evening chain, the watch and the search; the web
client, `research/`, `diag/` and `scripts/` read and report.

## 2. The pilot: `PilotLedger`, `Pilot`, `ExitDesk`

### State and steps

| code | model |
|---|---|
| `state.pkl`, `self.state` | `disk`, `mem` (both a `PilotState`: `ord`, `pos`, `sig`, `scan`, `lpo`, `lac`) |
| `self._subscribed`, `_repair_fired_date` | `sub`, `fired` |
| orders and positions of the counter | `cOrd` (with `vis`: get_orders shows it, `creq`: a cancel is under way), `cPos` |
| the running callback | `job` (which), `step` (where), `tick`, `snap`, `vol`, `todo`, `oids` |
| wall clock, calendar, `RISK_BLOCK.flag` | `day`, `phase`, `young` (placed less than 60 s ago), `blocked` |

gm runs one callback at a time, so the pilot is one thread. A callback is cut where something
else can come between: at each remote call and at each save. `order_volume` and the record of
the order in memory are one step, `save_state` is the next; the counter may fill, reject or
reveal between them and the process may die. `reconcile` is two steps because `get_orders`
and `get_position` are two queries, and the counter may trade between them.

`PreOpenQuery`, `PreOpenCancel`, `PreOpenDuplicates`, `PreOpenOverdue`, `PreOpenExpire`,
`PreOpenScan`, `PreOpenBuy`, `PreOpenRepairs`, `PreOpenRepair` and `PreOpenEnd` are the phases
of `pre_open` in their order, each cancel and each order a step of its own; `TickStart`,
`TickPending`, `TickExit` and `TickSave` those of `on_tick`; `Start` and `BootSubscribe` are
`bootstrap`; `GetOrders`, `GetPositions` and `QueryFails` are `reconcile`. `Absorb` is
`absorb_reality` in its three parts: orders known to the counter, orders it does not show,
positions.

Two failures are degradations the code accepts in its own words. A `subscribe` that raises is
noted and left to the next of the three points that subscribe (`pilot_body.py:1685`): with the
fault `subscribe` a held symbol may be unwatched until then. A calendar that comes back empty
gives up expiry and scan and keeps the mark of the day (`1817`); the days an entry has waited
or a position was held then count as none (`Today`). The code keeps the empty answer for the
day of the process, the model lets each use of the calendar fail on its own, which includes
that.

Prices are levels (the stop, two targets, `cancel_on`, the chase limit), quantities are lots,
the entry price is one unit of money a lot. Which symbols signal is any set. Each of these
keeps the order comparisons the code makes and nothing else. The market throttle (phase 4b)
is one more way to have no signals.

### Assumed about what is outside

* Shares bought today are not sold today (T+1), fills are in lots, a refused order has no
  fill, a cancel takes effect some time or the order fills first.
* gm calls one callback at a time, and a second pilot does not run on the account.
* `get_orders` shows an order within 60 s, the grace `absorb_reality` allows
  (`_ABSORB_RACE_GRACE_SECONDS`); with the fault `lag` it may take that long.
* Orders end with the day unless the fault `overnight` is on.

`Faults` selects what the environment may do; a run names its faults, and the theorems say
which must be absent.

### Properties and runs

| run | faults and bounds | shows |
|---|---|---|
| `pilot_crash` | crash (1), reject, refuse, calendar; 1 symbol, 2 days, 3 orders, four price levels, inverted targets, positions that expire | `TypeOK`, `SellsCovered`, `OneEntry`, `BookWithinAccount`, `NoForgottenOrder` through partial sells, evening sweep, expiry and a restart at any step; that held symbols are watched (`HeldIsWatched`); the inductive `SellInv`; and that the pilot implements `ExitDesk` |
| `pilot_lost` | lost, query, overnight, reject, cancel, flag, subscribe; 1 symbol, 2 days, chase on | `PreOpenSparesToday`, `MarkedIsScanned` |
| `pilot_caps` | lag, query, calendar, subscribe; 3 symbols, 3 days, one order a day, room for two, positions that expire | `OneWorkingBuy`, `DailyLimit`, `ExposureCapped` |

That the sells stay covered while queries fail, and that one buy works through failing cancels,
refusals and orders that survive the night, is shown by the theorems below and by no run.

*Why the bounds are enough.* One symbol suffices for whatever is a relation between the
orders and the shares of one symbol: no rule looks across symbols except the two purchase
gates, which `pilot_caps` gives three symbols. An entry of two lots can be partly filled,
partly sold and left with a rest. Three orders let an entry be followed by two sells, or by
two repairs. Two days are needed for a sale (T+1) and for what survives a night, three for a
third purchase to meet the capital bound when the limit is one a day. `MaxHolding = 0` makes
every position of yesterday overdue, so that expiry, partial sells and a crash meet within two
days. One crash can hit every step; a second would
meet a state the first one leaves. `CHECK_DEADLOCK FALSE` in every run of the pilot: days,
orders and crashes are bounded, so a run ends.

`TypeOK` and the safety properties use no fairness. The pilot promises nothing that must
happen: when no tick comes, nothing is done.

### What is proved

`PilotProofs` is checked for every set of symbols, number of orders, lot size, price levels,
days and crashes:

* `TypeCorrect`: `Spec => []TypeOK`, for all faults.
* `SellsAreCovered`: `GoodFaults` implies `Spec => []SellsCovered`: at most one sell of a
  symbol works at the counter, for no more than the account holds.
* `BooksAreRight`: `GoodFaults` implies `Spec => []BookWithinAccount`: a symbol without a
  working sell is never booked with more shares than the account holds.

They rest on `LedgerAssumption` and `PilotAssumption` (the constants have their types, the
set of symbols is finite and not empty) and on `GoodFaults`: no `lag`, no `lost`, and not `crash`
together with `query`. Each is needed. With `lag` or `lost` TLC finds a second sell. With
crash and query a restart whose queries fail decides on a state file older than the sell.

*The argument.* `SellsCovered` is not inductive: it speaks of the counter, while the pilot
decides by its memory. `SellInv` adds what connects them. `Tracked`: once the pilot has
reconciled after its start, every sell that works at the counter is live in memory, so
`_has_open_sell` sees it. `Booked`: a symbol with no known working sell is booked with at
most what the account holds, so the quantity a new sell takes from the book is there.
`SnapInv` keeps the answer of `get_orders` usable while the pilot waits for `get_position`: a
sell cannot start in between, and an order that still works was live in the answer. `Matches`
ties a record to the order of its number, in memory and on disk, because after a crash the
disk becomes the memory. `TodoInv` and `EntryInv` say what the loops of phase 2 and of
`on_tick` may count on half way. `FreshInv` covers runs without crashes, where no
reconciliation has to succeed at boot. The step lemmas follow the code: `SellCounter` (fill,
close, reveal), `SellAbsorb` (the end of a reconciliation), `SellExpire`, `SellBuy`,
`SellCancel`, `SellOverdue`, `SellPending`, `SellExit`, `SellProcess` (start and crash) and
`SellQuiet` for the steps that touch neither side.

`PilotOrderProofs` adds the properties about orders, each under the assumptions of its line.
`GoodFaults` is the assumption above.

| theorem | property | assumed |
|---|---|---|
| `TodaySpared` | `PreOpenSparesToday` | nothing: all faults |
| `MarkedDaysAreScanned` | `MarkedIsScanned` | no crash, no calendar |
| `BooksAndSells` | `SellInv` | `GoodFaults` |
| `NothingForgotten` | `NoForgottenOrder` | `GoodFaults` |
| `HeldIsSeen` | `HeldIsWatched` | `GoodFaults`, no query, no subscribe |
| `SellsAsADesk` | `SellsLikeADesk` | `GoodFaults` |
| `OneBuyEach` | `OneWorkingBuy` | `BuyFaults`: no lost, no chase, not crash with query, no lag with crash or overnight |
| `OneEntryEach` | `OneEntry` | `EntryFaults`: `BuyFaults` without lag, query and overnight |
| `LimitIsKept` | `DailyLimit` | `TodayFaults`: `BuyFaults` without crash, `CancelPx = 0`, `MaxWait >= 1` |
| `CapitalIsKept` | `ExposureCapped` | `CapFaults`: `TodayFaults` without overnight |

Every other fault may happen in each of them, `calendar` and `subscribe` included. Where the
code is known not to keep a property outside of an assumption, section 8 has the
counterexample: crash for `MarkedIsScanned` (18), lost for `HeldIsWatched` (19), chases for
`OneWorkingBuy` (17). `calendar` for `MarkedIsScanned` and `subscribe` for `HeldIsWatched` are
the two degradations above: the theorems say that nothing else leaves a day unscanned or a
holding unwatched. The others of an assumption are what the proof uses, and no claim is made
about what lies beyond.

*The arguments.* All of them go by the same two views of a step. `Turn` is a step in which a
callback asks to cancel the orders of `C` and places those of `N`, at most one, and says why it
may (`MayCancel`, `MayPlace`); `Still` is a step that moves neither orders nor records. The
rest are `CounterStep`, `NewDay`, the end of a reconciliation, start and crash. So a property
has one case per view and not one per action.

* `MarkInv` follows a pass of `pre_open` from the mark to the scan; `Where` says which callback
  can be at which step.
* `Known`: what works at the counter is live in memory while the pilot is inside a callback or
  idle. `WatchInv` keeps everything that is held, or may fill before the next subscription
  point, in `sub`.
* `DeskInv` adds `Unsold` to `SellInv`: the working sell of a symbol is the only one, and it is
  not sold yet. `OfferIs` replaces the sum over the working sells, with which `ExitDesk` is
  instantiated, by that one order, and each step is an offer, a sale, an end or a stutter.
* `BuyInv` is the counterpart of `SellInv` for buys: a working buy is live in the state
  (`KnowsBuys`), the answer of `get_orders` shows it unless it is young (`Shown`, `SnapBuys`),
  and the symbols that phase 5 still has to buy have none (`BuyTodo`).
* `TodayInv` counts. Each buy the counter counts for the day has a record that `check_caps`
  counts (`Dated`, `Untouched`), the records of a day are numbered above those before it
  (`Numbered`), and what phases 1 and 1' go through to cancel are orders of earlier days and
  duplicates (`Passing`).
* `EntryOnce` adds shares to `BuyInv`: a buy at work and what is held of its symbol fit in one
  order (`Fits`), also in the answer the pilot works from (`SnapOnce`), and a symbol that
  memory believes free is free (`FreeIsFree`).
* `CapInv` compares sums. What the account holds plus what its buys may still spend is
  `Exposure`; the gate adds the value read when the phase begins to the open amounts of the
  state. A lot that fills in between moves from one side to the other, so the second sum never
  falls behind the first (`Reckoned`). The sums are compared term by term with `SumTheorems`.

`SumTheorems` defines the sum of `f` over a finite set as the number of pairs `<<x, i>>` with
`1 <= i <= f[x]` and shows that whatever satisfies the recursion of `MapThenSumSet` equals it,
by a least counterexample among the subsets. That replaces the induction which is out of
reach, and the theorems of `FiniteSetTheorems` about cardinalities do the rest.

*Only model-checked*: nothing of the pilot beyond the proofs. `Pilot` has no liveness.

## 3. The replay queue: `ReplayTasks`, `TaskLife`

`row` is the table; `pc`, `claimed` and `doomed` are the scheduler thread of each process
(`Poll` claims, `Register` makes the event, `Submit` hands over to the pool, `SweepList` and
`SweepMark` are `_sweep_stale`, which lists first and marks one by one); `queue`, `wk` and
`broken` are the pool; `msgs` and `cons` the progress queue and the consumer thread, which
checks the status, waits for a report and writes it in three steps. `Age` lets the heartbeat
of a task grow stale, `Die` kills a worker (which breaks the pool for good), `Down` and
`Start` are the end and the start of a server, `OrphanEnds` a worker that outlives its server.
Each statement on the table is one step: sqlite serialises them.

| run | faults and bounds | shows |
|---|---|---|
| `replay_life` | death, down; 2 tasks, 1 process, 1 restart | `TypeOK`, `Cancellable`, and that the table implements `TaskLife` |
| `replay_shared` | slow, death, down, orphan; 1 task, 2 processes, 1 restart | `OneHand`, and `EveryTaskEnds` under `FairSpec` |

*Fairness.* Weak fairness of the scheduler thread of each process: its loop catches every
exception and polls again. Weak fairness of `Start`: an operator starts a stopped server
again. Weak fairness of `Age`: time passes. None for the worker, which may hang for ever, and
none for the consumers. *Bounds*: two tasks are enough for one to wait behind the other; two
processes for two claims to race; one restart to meet a row of the run before. The runs end
when all tasks are over, hence `CHECK_DEADLOCK FALSE`.

`TaskLife` is PENDING, RUNNING, one end, with the interruption by a restart as a failure of
RUNNING. `replay_life` leaves out `slow` and `orphan`, since the code does not keep it then
(`OverIsOver` below).

*What is proved* (`ReplayProofs`), for any number of tasks, processes and restarts:
`TypeCorrect`, `OneHandEach` (`OneHand`) and `CancelReaches` (`Cancellable`) for all faults, and
`LivesAsStated` (`LivesOnce`, the refinement of `TaskLife`) under `QuietServer`: one process, no
fault `slow` or `orphan`. `OneHand` speaks of workers only; `HandInv` speaks of every place a
task can be in, which are the claim of a scheduler thread, a pool, a worker and the orphans.
What is in one of them was claimed and never goes back to PENDING (`Started`), two processes
never have the same task (`Spread`), nor does one process have it twice (`Within`). `ArmedInv`
adds that a task past its registration has its cancel event while its row is RUNNING.
`LifeInv`, for the refinement, adds that who has a task runs it and is not silent (`Alive`), and
that a sweep gives up only what nobody has (`Given`). *Only model-checked*: `EveryTaskEnds`,
which is liveness.

## 4. The experiment store: `Experiments`

Writers are processes: the command line does one operation a run, autopromote a list. An
operation is three steps, `ReadRow`, `ReadActives` (when a weight is at stake) and `Write`:
Python's sqlite3 begins the transaction at the UPDATE, so the two reads are outside of it and
another writer may commit in between. The row and its audit entry are written in one
transaction. `Confirm` is the second phase of autopromote (archive the baseline, full weight
to the candidate), `Gray` the first (make room, promote at a small weight); `soft` marks the
operations whose refusal autopromote tolerates. `Kill` ends a writer anywhere. Weights are
whole parts of the capital.

| run | bounds | shows |
|---|---|---|
| `experiment_alone` | 2 versions, 1 writer at a time, killed anywhere, 5 runs, 2 parts | `TypeOK`, `BudgetConserved`, `LastActiveStays`, and `AuditTells`: the audit log ends with the status and the weight of the row |

Two versions are enough to exceed the capital together and to be baseline and candidate.
Creations are not counted; five runs promote both, hand over by both phases of autopromote and
roll back. `CHECK_DEADLOCK FALSE` because runs are bounded. No fairness: nothing has to happen.
That the log tells the table between several writers is a theorem.

*What is proved* (`ExperimentsProofs`), for any finite set of versions: `TypeCorrect` and
`AuditAgrees` (`AuditTells`) for any number of writers; `BudgetKept` (`BudgetConserved`) and
`LastStays` (`LastActiveStays`) under `Alone`, one writer at a time, which may be killed
anywhere and followed by another. With two writers the code does not keep the budget
(`BudgetConserved` in section 8). `AuditTells` folds over the log; the proof states it by the
place of the last entry of each kind (`Tells`). `BudgetInv` says that what a writer has read is
what the table says, and that the weight it found to fit still fits (`Fresh`); what
`validate_weight_sum` adds up is compared before and after a write with `SumTheorems`. `LastInv`
has the shape of the lists autopromote makes (`Shaped`): it archives only before it gives all
to a version that is ACTIVE.

## 5. The lake and its evening: `Lake`, `Evening`

A row is abstracted to its basis, the adjustment factor its price was divided by: 0 for no row,
1 and 2 for the factor before and after the symbol's dividend. `lake`, `pending` and
`unfillable` are the three files. `sync` and `repair` are the runs of the two programs, each
with the copy of the table it works on (`new`).

`SyncRead`, `SyncFetch`, `SyncSave` and `SyncWrite` are `sync_daily_incremental`: read the
whole file, append the new days on the basis of the last of them, recompute the history of the
symbols whose factor changed (`Divided`) or that wait in the sidecar, write the sidecar, then
the lake. `Divided` compares the factors of the last day of the lake with those of the calendar
day, and only of symbols (`seen`) that have both. `SyncFails` and `SyncEmpty` are its other
ends, and `Cut` a day that arrives short because an empty page is taken for the last. `Gaps` is
`scan_integrity`; `RepairFetch`, `RepairMark`, `RepairWrite` and `RepairFails` are
`repair_gaps --auto`, which fetches the missing days until one raises, rows and factors apart,
gives up the days of a hole in which no tried day brought a row, and rewrites the file.
`Fresh` is `check_freshness` with its comparison of the last two days.

`Evening` composes this with the chain. `Begin`, `Collected`, `Verify`, `Brief` and `Close` are
`pipeline_then_eod`, cut where it waits or writes; `PipeCollected`, `Check` and `PipeAgain` are
the process it starts; `Kill` ends the server and leaves that process alone (`PipeOrphan`);
`Restart` may sync at start (`sweep_stale_on_startup`). No lock keeps that sync from the chain's
own or from a repair: with the fault `overlap` it is a second run of the same program, `boot`,
beside the others (`Boot == INSTANCE Lake WITH sync <- boot`).

*Faults.* `page` (a fetch raises), `recompute` (the history of a symbol cannot be fetched),
`halt` and `exlost` (a company does not trade on a day, or not on its ex-date), `noadj` (a sync
has not the factors it compares), `thin` (pages of a repair come back empty), `down` (the server
is killed), `overlap`.

*Assumed.* A repair, limited to thirty minutes, and a sync end before the next day. A sync is
not killed between its two files. `suspend_d` explains no hole, and the row guard of
`safe_overwrite` lets a day through. `Firm` are the single companies that may halt or go ex;
without the others a day is visibly short (nine tenths), so one symbol stands for the bulk. At
most `MaxCuts` days arrive short from a sync.

| run | faults and bounds | shows |
|---|---|---|
| `evening` | page, recompute, halt, down; 2 symbols, 4 days, 1 short day | `TypeOK`, `OneBasis`, `ReadyIsTrue`, `UnfillableIsEmpty`, `RepairKeepsRows`, and `EveryChainEnds` under `FairSpec` |
| `evening_overlap` | page, down, overlap; 3 days, 1 short day | `OneBasis`, `UnfillableIsEmpty` with two syncs and a repair on one file |
| `halted_dividend` | halt, exlost; 4 days | `OneBasis` violated: see section 8, which also has what noadj, thin and overlap break |

`OneBasis` survives the repairs although a repair knows nothing of the basis of the other
rows: a recomputation refills the whole history of its symbol, so a hole that can still be
filled dates from after the last one. It survives an overlap of programs as well, as long as no
recomputation fails: the last of them to write decides the whole file. With `overlap` and
`recompute` together it does not, since two runs write one sidecar; nor does `ReadyIsTrue` with
`overlap` and a short day, when the sync of a start, which got less of the day, writes its copy
over the one that was called ready. These two are the lost update of a repair (Divergences) again.
`ReadyIsTrue` needs the short day to be one: after two in a row the comparison of neighbours is
content (Divergences).

*Bounds.* Four days give a history, a dividend with the day before it, and a day after it on
which a failed recomputation is tried again or a hole lies between two rows. Two symbols are
the bulk and the exception; no rule compares symbols otherwise. Three days are enough for a
dividend that two syncs append at once. *Fairness.* Weak fairness of the chain, the process and
the two programs (what has begun goes on; each call to Tushare has a timeout) and of the clock.
None for the market, which may never publish, and none for the restart and its sync.
`CHECK_DEADLOCK FALSE`: the days are bounded.

*What is proved* (`EveningProofs`), for any set of symbols and number of days:

* `TypeCorrect` for all faults.
* `GivesUpNothing` (`UnfillableIsEmpty`) under `PagesWhole`: the pages of a repair come whole or
  raise, no fault `thin`; all other faults, overlaps included. A day given up is over, and
  nothing is published for it any more (`GivenUp`).
* `RepairLosesNothing` (`RepairKeepsRows`) under `Alone`: no fault `overlap`. Only the sync of a
  start is assumed away. That the chain's own syncs and its repair never meet is proved: the
  repair is spawned by a chain that has seen its process end, and the row of the day in the job
  ledger, running or done, keeps a second chain out (`Apart`). So the copy of a repair is the
  lake with rows added until it is written (`Adds`).
* `OneBasisKept` (`OneBasis`) under `Alone`, `PagesWhole`, `DividendsTrade` (no fault `exlost`:
  the rows of an ex-date are there) and `FactorsThere` (no fault `noadj`). Outside of the
  sidecar, the rows of a symbol have the basis of the last day of the table, *and so has any row
  that may still be put between them* (`InSeries`). Without the second half a repair breaks the
  invariant. Which of the tables is in this order depends on how far the run has come
  (`Series`): between the sidecar and the lake it is the copy of the sync and not the file.
* `ReadyMeansThere` (`ReadyIsTrue`) under `Alone` and `OneCut`: at most one day arrives short.
  Every table lacks rows of the bulk on one day at most (`Thin`), so the comparison of
  neighbours that the check makes finds it. `Grown` makes a sync keep the rows it replaces.

`PagesWhole` for the first, `DividendsTrade`, `FactorsThere`, `Alone` and `OneCut` are needed:
section 8 breaks each theorem without them (`Alone` of `OneBasisKept` with
`recompute`). `PagesWhole` of `OneBasisKept` is what the proof uses. *Only model-checked*:
`EveryChainEnds`, which is liveness.

## 6. Deployment: `Deploy`

A champion stands for its parameters. `params` is the snapshot in the working tree, `commits`
the committed ones, a stamp a position in that sequence (`Unknown` for the build that got no
answer from git, 0 for an installed stamp that could not be read, which the code names `pre`);
`art` and `kept` are the built files in the tree and in git, `main` and `bak` the directory of a
leg, `ran` what it was started with. `WatchDetect` compares the champion with the snapshot and
notes the stamps, `WatchExport` writes the snapshot, asking the store again, `WatchPack` leaves
the package, and `WatchFails` ends the watch before the snapshot is written or after. The
deployment is `CommitConfig`, `Build`, `CommitBuild`, `Replace`, `Write`, `Relaunch` in the
order of the code; `DeployFails` ends it, and the next attempt starts from the beginning under
the package in force, possibly a newer one. `Write` may leave a file half written, and
`Checkout` is the person who gives a package up.

*Faults.* `export` and `pack` (the export fails before it writes the snapshot, or it or the
watch after that), `probe` (a stamp cannot be read), `git` (a build is stamped unknown),
`commit`, `build`, `keep`, `replace`, `write`, `relaunch` (that step raises), `torn`,
`checkout`, and `overlap`: the watch and a deployment at the same time, which nothing in the
code keeps apart.

| run | faults and bounds | shows |
|---|---|---|
| `deploy` | export, commit, build, keep, replace, write; 2 champions, both legs, 3 commits | `TypeOK`, `OldKept`, `PlanTells`, and `ChampionIsPrepared` under `FairSpec` |
| `deploy_faults` | pack, probe, git, torn, checkout; 2 champions, the exp leg, 3 commits | `StampTells`: a stamp that names a commit names the right one |

What the faults overlap, relaunch and pack break is in section 8.

*Assumed.* Nobody edits the snapshot otherwise, one deployment runs at a time, and a champion is
replaced, never withdrawn. *Bounds.* Two champions and three commits let the champion change and
change back between two attempts; two legs let one be ahead of the other, and what
`StampTells` is about happens in one leg. *Fairness.* The scheduler runs the
watch every working day, whatever else goes on (strong fairness, since a deployment may be under
way when it would run), and not every export fails; a deployment begun ends. Deadlock is checked.

`PlanTells` is about the package in force: each watch that finds a difference rewrites
snapshot and package together, so a deployment takes the newer of both. With `pack` or
`checkout` an older package is in force over another snapshot, and the code installs what the
package does not describe. `OldKept` breaks with each of `relaunch`, `git`, `probe` and `torn`,
for one reason: the file moved aside takes a name that is not its own, and lands on another.

*What is proved* (`DeployProofs`), for any champions and legs: `TypeCorrect` for all faults;
`StampsTell` (`StampTells`) under `TakeTurns` (no fault `overlap`) with every other fault;
`PlansTell` (`PlanTells`) under `PackagesHold` (`TakeTurns`, no `pack`, no `checkout`);
`OldIsKept` (`OldKept`) under `NamesHold` (`TakeTurns`, none of `git`, `probe`, `torn`,
`relaunch`). `StampInv`: every build has the parameters of the commit its stamp names, if it
names one (`BuildsRight`), and `Staged` says what the steps done so far have established for the
next ones. A package in force describes the snapshot except between an export and its package
(`Described`). `KeptInv` adds that the name of a backup is the stamp of what it holds (`Named`)
and that the stamps in a package are those of the legs now (`Recorded`), so a file moved aside
lands on no other (`Held`). *Only model-checked*: `ChampionIsPrepared`, which is liveness under
strong fairness.

## 7. The nightly search: `Discovery`

`yield` gives the metrics of the group that each seed draws on the current snapshot of the
data, `trials` the seeds whose trial is kept, `latest` the last row of `search_run` and `author`
whose it is. `proc` are the detached processes: `Begin` reads the row and derives the seed,
`Evaluate` keeps the trial unless it is there, `Judge` reads the front, `WriteRow` writes the
bare row that closes `run_search`, and `Complete` adds what the daemon knows, the count of the
nights and the verdict, to that row of its own, whether it is still the last one or not: two
commits, two steps. `Die` ends a process anywhere, `Refreeze` moves the data. `MissedLastRun` is
the question the server asks at start; since it compares a UTC stamp with local time
(Divergences), a catch-up may come on any night. The low-power schedule is modelled: one group a
round and no TPE stage.

*Faults.* `eval` (the evaluation of a group raises, this time or every time: no trial, and the
seed is spent), `torn` (a death between a row and its completion), `overlap` (a process starts
while another is at work).

| run | faults and bounds | shows |
|---|---|---|
| `discovery` | eval; cron and catch-up, 3 metrics, K = 2, 4 seeds | `TypeOK`, `StagnationIsReal`, `NotOverBefore`, `ConvergedStays` |

What torn and overlap break is in section 8; that no search is over before its rows are written
holds under them as well, which is a theorem.

*Bounds.* Two metrics that neither dominates and one that dominates both make the front grow,
stay and shrink; with K = 2 four seeds hold a start, growth and two nights without. No
fairness: a search that never runs promises nothing. Deadlock is checked.

*What is proved* (`DiscoveryProofs`), for any metrics, seeds and K: `TypeCorrect` and
`OverTakesRows` (`NotOverBefore`) for all processes and faults; `StagnationCounts`
(`StagnationIsReal`) and `OverStays` (`ConvergedStays`) under `OneByOne`: the cron job and the
catch-up one after the other, which complete the rows they write, with evaluations that fail
and deaths before the row. Both parts are needed (Divergences), and so is the absence of the
search by hand. `SearchInv` rests on `Begun`: a process at work has read the last row, the
front it measures is that of the trials, and while a bare row waits for its completion the row
before it is still true; `Sound` is what a row says, with the trials of the seeds up to its own
and perhaps the next. For `OverTakesRows`, `Ledger` bounds the count in every row, read or
written, by the rows there are. Nothing here is only model-checked.

## 8. Divergences

Found while modelling, each a disagreement between the code and a sentence of its own
documentation. The first is a run that expects a violation, `halted_dividend`. Of the others,
those that name a property are stated in the modules under "What the documents say and the code
does not keep", or are the property of a run under other constants. TLC refutes each of them when
the cfg that checks the property, or else the first of the section, is given the constants named
here (for the pilot, `pilot_crash`); a list of faults replaces the `Faults` of that cfg. The rest
were read in the code.

*The lake and its evening*

1. Two bases (`OneBasis`). The step is headed "除权检测（adj 在 [d0, today] 变化）→ 全量重算历史 qfq
   基线" (`sync_daily_incremental.py:336`). Run `halted_dividend`: a company suspended on its
   ex-date has no new row then, and when it trades again the factor of the day before is already
   the new one (`341`). With the fault noadj: today is the calendar day, and a sync on a closed
   day, or before the factors of the day are there, finds none (`340`), leaves `div_syms` empty and
   appends the rows on the new basis; d0 then moves past the ex-date. Neither is in the sidecar.
2. `ReadyIsTrue` with `MaxCuts = 2`. The check compares with the day before
   (`freshness.py:129`): a second short day in a row counts as whole. A short day is not synced
   again either, since its date is there (`sync_daily_incremental.py:273`).
3. `reset_stale_running` (`job_ledger.py:150`) exists so that a killed job does not block its
   day; nothing calls it, and `pipeline.py:174` skips a day whose row is running.
4. A failing exit code fails the chain although the check's own sync has made the lake fresh
   (`pipeline.py:204`), and the message it records is overwritten with "未预期异常" by the
   handler around it (`pipeline.py:266`).
5. The brief goes out before the row is done (`pipeline.py:257`), so `get_ready` says in it
   that the day is not ready.
6. Empty pages of a repair, with the fault thin alone. `UnfillableIsEmpty`: the page ends the
   fetch without an error, the day counts as asked for, and its gaps are marked as rows that do
   not exist (`repair_gaps.py:400`), although "标记必须建立在完整实证上" (`360`). `PricesAreThere`: the
   factors come back empty while the rows came (`370`), and the rows go into the lake with NaN
   for prices, which the comment at `365` says cannot be.
7. `RepairKeepsRows` with faults down and overlap. The sentinel that keeps syncs from each other
   (`data_service.py:13`, `239`) keeps out neither a repair nor the chain. A server that starts
   while a repair works on its copy syncs the lake, and the repair then replaces the file.

*Deployment*

8. "三方一致" (`promote_pipeline.py:132`) compares the champion with the snapshot only; the
   stamps of the legs are read and not compared (`98`). After a deployment of one leg, which
   uses up the package (`269`), nothing reminds of the other. `ChampionIsPrepared` with
   fault pack: an export that fails after it has written the snapshot
   (`export_snapshot.py:392`), or a watch that fails before its package (`171`), leaves snapshot
   and champion equal, and no package is ever made for that champion. An export made by hand,
   which the message of a failed watch recommends (`155`), does the same. `PlanTells` breaks with
   pack or checkout: an older package is in force over another snapshot.
9. `OldKept` with fault relaunch. A restart that times out leaves the package, and the next
   attempt moves the new `main.py` over the backup of the old one (`257`); `169` says the chain
   of backups leads back. The same comes of a stamp that cannot be read (fault probe), whose
   file is moved to `pre` (`255`), of two builds stamped unknown (git), and of a file half
   written (torn). A failure between `258` and `259` leaves no `main.py`, and every later
   attempt raises at `258`.
10. `StampTells` with fault overlap. The watch may export into the working tree between the
    commit of a deployment and its build (`build_pilot.py:139`), which then carries the stamp of
    other parameters. The package names the champion read by `detect_divergence` and again by
    `active_champion` while the export asks a third time (`promote_pipeline.py:130`, `137`): a
    promotion in between makes it name one and describe another.

*Discovery*

11. `StagnationIsReal` with fault torn. A row that the daemon has not completed has count
    0: the next night takes seed 43 again, every trial is there already, and the nights without
    growth add up, which `daemon.py:121` calls 伪收敛. A search by hand ("hand" in `Who`) and two
    processes at once (overlap) do the same. `ConvergedStays` with fault overlap: of two
    processes at once the one that began earlier writes its bare row after the other's converged
    one, and the search begins again, although `main.py:622` says it is not run again.
12. `_discovery_missed_last_run` asks whether last night's run was missed. `started_at` is
    written in UTC (`store.py:53`) and compared with 02:00 of the day before in the time of the
    host (`main.py:309`). On a host in UTC+8 the row of one night counts as missing from the next
    midnight on: a missed night is made up for, but a server that starts between midnight and
    02:00 brings a catch-up next to the run that is still to come. On a host in UTC that row does
    not count as missing, and one missed night is not made up for. Apart from that, the
    size of the front is compared (`daemon.py:136`), not the front: one that moves without
    growing counts as standing still. `pareto.frontier_grew` compares the sets and has no caller
    here. `coverage.py:7` calls the coverage a veto over the count; the daemon converges without
    asking it.

*The pilot*

13. `EntryIsDated` (no faults). A fill between `get_orders` and `get_position` reaches
    `absorb_reality` as a position without an order's fill: part 3 books it with `entry_date`
    None (`pilot_body.py:1279`). The next reconciliation counts the fill but leaves the date, so
    `max_holding` never applies. The docstring has "entry_date 用 state 订单的 date".
14. `SellsCovered` with fault lag alone. The 60 s grace reads `placed_at`
    (`pilot_body.py:1259`), which sells are recorded without. A sell that `get_orders` does not
    show yet is marked CANCELLED and sold again by the next tick.
15. `ReentryIsDated` (3 days, one lot, no faults). A sold position keeps its record, and a new
    entry of the symbol only adds to it: it carries the date and flags of the first one
    (`pilot_body.py:1250`).
16. `RepairsRefused` with `CancelPx = 3`, no faults, 1 day. An entry that `on_tick` cancelled
    by `cancel_on` (`2408`) is placed again the same day by the repair stage
    (`pilot_body.py:2138`), whose comment (`2118`) describes refused and lost orders only. With
    `CancelPx = 0` an entry that waited for too long (`MaxWait`) cannot be met the same day.
    The snapshot in the repository has `cancel_thresh_mult` null, which switches `cancel_on`
    off.
17. `OneWorkingBuy` with `ChaseEntry`, `MaxWait = 1`, fault overnight. A chase does not wait for
    its cancel (`pilot_body.py:2385`): a reconciliation before the cancel takes effect revives
    the entry, and the next tick chases it again. A chase asks neither `check_caps` nor the
    block flag.
18. `MarkedIsScanned` with fault crash alone. `reconcile` saves the mark of the day before the scan
    (`pilot_body.py:1734`, `2577`): a crash in between loses the scan.
19. `HeldIsWatched` (3 symbols, fault lost, one lot, `MaxNew = 2`, `KeepTop = 2`). A buy that
    the counter took although its call failed is unknown; when it has filled, a tick of the
    other symbol reconciles and books it, but `on_tick` is none of the three points that
    subscribe (`pilot_body.py:1642`; the docstring has "缺任何一层都有一段巡检失明窗口"). The position is
    without a stop until the next `pre_open`.

*The replay queue and the experiment store*

20. `OverIsOver` (1 task, fault slow). `mark_success`, `mark_failed` and `mark_cancelled` look at
    no status (`tasks_db.py:191`): a task the sweep has failed is revived by its worker's end.
21. `QueuedIsKept` (2 tasks, fault slow). A task that waits behind a long one in the pool of one
    has nobody to beat for it and is failed by the sweep (`scheduler.py:154`).
22. `SuccessIsFull` (2 tasks, no fault). A consumer writes an old report over the 100 of
    `mark_success` (`scheduler.py:135`).
23. `BudgetConserved` with two writers. Two promotions both pass the weight check and together
    exceed 1.0 (`store.py:131`; `models.py:13` calls the sum a red line).
24. `ActivePromoted` (1 writer). `rollback` accepts a DRAFT (`store.py:225`): a version goes
    ACTIVE that nobody has promoted.
25. `NothingByHalves` (3 versions, 3 parts). With a third ACTIVE version autopromote archives
    the baseline and is then refused the weight of its candidate (`autopromote.py:311`).

## 9. Not modelled

* The files of the retired engine: no live writer.
* The mock broker, the strategy kernel, the other data sets, indicators and factors: sequential
  arithmetic over price data, to be tested rather than model-checked.
* The generated pilots: `pilot_body.py` with a snapshot of the parameters.
* Broadcasts, notifier, terminal guard, web client, research, scripts: I/O and reports.
* In the pilot: the audit CSV, the price arithmetic of targets and trailing stops (the levels
  are constants, so a trailing stop that moves during a run is not), pruning of history by
  calendar days. In the queue: `delete_task`, which nothing calls. In the store: notes and the
  statistics of the gates of autopromote. In the lake: prices and volumes, the row guard, the
  manual modes of the repair. In the evening: the amihud step, the morning check, the sync of
  the other data sets. In the deployment: messages and the dry run, two
  deployments at once, the way back by hand from a backup, `universe.json` beside the snapshot (a
  build made after only one of the two was written mixes them). In the search: TPE, several
  groups a round, the outer evaluation, the publication of drafts.

## 10. Plan

Done: the models and runs of the pilot, the replay queue, the experiment store, the lake with
its evening, the deployment and the search; and for each of them the proofs named in its
section. What is left, in this order:

1. Assumptions that a proof uses and no counterexample demands: `DailyLimit` and `ExposureCapped`
   with crash, `ExposureCapped` with overnight, `OneEntry` with query. TLC on
   the instance first; then either the invariant without the assumption or a divergence. Likewise
   `OneBasis` with thin.
2. `LivesOnce` for several processes, `BudgetConserved` for several writers of which only one
   asks for weight.
3. What holds of the lake when programs overlap, beyond `OneBasis` and `UnfillableIsEmpty`: that
   the next repair or sync brings back what a lost update took, which is liveness.
4. Models of what is still left out and has state: the order and plan files if they get a
   writer again, the exit ladder of the mock broker as a reference for `DecidePosition`.

What stays with TLC: `EveryTaskEnds`, `EveryChainEnds` and `ChampionIsPrepared`, since liveness
under fairness and ENABLED are out of the prover's reach, and the run that expects a violation.
Induction over data is avoided where a fold occurs (`SumTheorems`) and nothing recursive is
claimed beyond it.
