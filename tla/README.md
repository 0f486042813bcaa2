# OpenHamster: specification, model checking and proofs

OpenHamster (`src/`) researches trading strategies for one market, keeps a pool of strategy
proposals of which at most one is active, and lets the active one trade on a paper ledger.
Nearly all of its logic is in `src/src/openhamster/api/services.py` (`services.py` below),
in one function: `sync_agent_state`, the pipeline that the scheduler, the API and the
startup thread all run.

This directory holds TLA+ models of that logic, TLC configurations, and proofs.

    Governance ──┬── GovernanceReview ──── MCGovernance      EvaluationProofs
                 └── StrategyPool ──────── MCStrategyPool    StrategyPoolProofs
    ActiveSeat ──────────┘ (what StrategyPool implements)
    SyncRuntime                                              SyncRuntimeProofs
    PaperLedger ─────────────────────────── MCPaperLedger    PaperLedgerProofs
    MacroEvents                                              MacroEventsProofs
    AgentStages ─────────────────────────── MCAgentStages    AgentStagesProofs
    MarketCache ─────────────────────────── MCMarketCache     MarketCacheProofs
    ResearchRuns ────────────────────────── MCResearchRuns    EvaluationProofs
    Universe ────────────────────────────── MCUniverse        UniverseProofs

To run: `tlc -config MCStrategyPool.cfg MCStrategyPool`, `tlapm StrategyPoolProofs.tla`. The
module of each configuration is in the table of runs below.

## 1. The system

### Components, state, operations

| component | code | state | operations |
|---|---|---|---|
| Governance rule | `services.py` `_governance_action` 4195-4343, `risk/reviewer.py`, `market_profile.py` | none | decides ACTIVE, CANDIDATE or REJECTED for one proposal and lists the reasons |
| Strategy pool | `services.py` `sync_agent_state` 6404-6892 and what it calls | table `strategy_proposals`, `risk_decisions` | triage, recovery, health check, review of blueprints, replacement, retention, swap over a mock, slot assignment |
| Sync runtime | `services.py` 745-962, `api/app.py`, `runtime/scheduler.py`, `runtime_state.py`, `watchdog/` | process lock; runtime status row in a key-value file; scheduler task; launchd jobs | start a sync from four triggers, report stages, conclude, detect a stall, restart |
| Paper ledger | `services.py` 1500-2660 | orders, positions, NAV of a slot, in two SQLite files; audit records in the main database | snapshot, first trade, execution cycle, drawdown |
| Macro events | `events/providers.py`, `services.py` 3025-3340 | `event_records`, digests, macro status | provider chain, last-known context, daily digests |
| Run jobs | `services.py` 6895-7060, `api/app.py` | `backtest_runs`, `experiment_runs`, `research_batches` | queue, run, complete, fail |
| Backtests | `backtest/` | positions and cash of one run | signals, trades, metrics, walk-forward, grid search |
| Strategies | `strategy/` | none | indicators, registry, regimes |
| Risk managers | `risk/risk_manager.py`, `risk/enhanced_risk_manager.py` | peak, trades of the day, trailing highs | size, stop, veto |
| LLM gateway | `llm_gateway.py`, `llm.py`, `services.py` 965-1018 | provider and status in the key-value file | invoke with retry and mock fallback, switch the provider |
| Market data | `data/source_manager.py`, `data/cache.py` | OHLCV cache | provider chain, range cache |
| Universe | `data/hk_universe.py`, `services.py` 2659-2898 | stored selection, failure memory | select, refresh, fall back |
| Knowledge base | `services.py` 315-560, 4477-4640, `strategy/knowledge.py` | sources, observations, suggestions | seed, observe, suggest, assess |
| Live readiness | `services.py` 5216-5650 | snapshots | derived reports |
| HTTP API | `api/app.py`, `api/schemas.py` | none | two handlers start syncs; the rest read and format |
| Database, configuration, frontend, scripts | `api/db.py`, `api/models.py`, `config/`, `apps/web`, `scripts`, `deploy` | schema | |

### How they interact

* A **sync** is the unit of work. `_PIPELINE_SYNC_LOCK` (6400, 6410) lets one run at a time
  in the process. Four callers want it: the startup thread and the scheduler task of the
  lifespan handler, `POST /runtime/sync` and `PATCH /runtime/llm`.
* A sync writes to **four stores that do not commit together**: the main database (one
  session, committed at stage boundaries), the key-value file of the runtime status
  (committed at once), and the two ledger files (each committed at once). An exception in
  the pipeline reaches the `except` branch (6859-6892), which *commits* the session instead
  of rolling it back.
* The **strategy pool** decides who is active; the **paper ledger** trades for that strategy
  and reports a drawdown, which the pool's health check turns into a pause or a rollback.
* The **governance rule** reads the active strategy, the backtest gate, the knowledge
  assessment and the macro status.
* A sync begins with the **universe** and the **macro events**, asks the **agents' stages**
  for blueprints, and reads **market data** throughout. GET handlers call the same functions
  in threads of the same process and write what they write: the stored selection, event
  records, digests, the bar cache, the failure memory. Only syncs take the lock.
* **Run jobs** are background tasks of a POST and share the bar cache with the syncs.
* The **watchdog**, another process, reads the runtime status over HTTP and restarts the
  service. `POST /runtime/sync` and `PATCH /runtime/llm` read the same status to refuse or
  to skip a job.

### What is hard

Partial failure between commits; a session that sees more than the database holds; ORM
objects that are stale after an assignment; stamps with and without a timezone; an operation
cut off between two files; a status that outlives the process it describes; a thread that
hangs with the lock; and a rule whose decision and explanation are computed twice. Section 6
lists where each of these bites.

### What makes each component correct

* Governance: the decision and its reasons agree; the documented conditions hold; a better
  situation is not a worse outcome.
* Pool: one active strategy; the seat is won only by merit, kept for the cooldown, and lost
  only to a better strategy or to a pause; a rejection is final; retention spares what
  waits.
* Runtime: one scheduler job; the status speaks of the running sync; the watchdog leaves
  working syncs alone and ends hanging ones; requests are served.
* Ledger: audit records are true; the files agree or are brought together again; nothing is
  sold that was not bought; a strategy answers for its own losses only.
* Macro events: a digest names what is stored, and what is stored reaches its digest,
  whoever folds at the same time.
* Agents' stages: a mock is marked as one; a cohort counts what its provider was asked for;
  a completed batch is whole.
* Run jobs: a run ends; its book balances; its test windows tile the dates.
* Cache: no hole without a cause; a call returns what it was asked for.
* Universe: a failing symbol is left alone for a while and selected last; a sync works on
  one selection.

## 2. The modules and the code

### Governance.tla, GovernanceReview.tla

`Governance` translates `_governance_action` as operators: `PromotionBlockedReasons`,
`CandidateBlockedReasons`, `PromoteAllowed`, `CandidateAllowed`, `GovernanceStatus`,
`CooldownRemaining`, `ReplacingMockActive`, `CanChallengeActive` and `LifecyclePhase`.
Scores are integers in tenths, as the code rounds them. A backtest gate is one of the six
classes of outcome that the rule tells apart. The bottom line's other three members are
constants of the evidence pack, which is why `BottomLinePassed` reads the backtest only.
`GovernanceReview` puts one proposal in front of the rule, with every combination of inputs
as initial state, and lets the situation improve step by step; its specification is
`ReviewSpec`.

### StrategyPool.tla

One action per stage of `sync_agent_state`:

| action | code |
|---|---|
| `Begin` | lock, universe, events, snapshot, research batch |
| `TriageForced`, `TriageRecover`, `TriageHealth`, `TriageEmpty` | the four branches after `archive_out_of_scope_strategy_proposals` (6526-6583), with `recover_active_strategy` |
| `HealthFirst`, `HealthLast` | `evaluate_active_strategy_health` (5784-5907) |
| `Agents` | the stage commit in front of the strategy agents |
| `Insert`, `FinishSymbol` | one blueprint, and the end, of `materialize_proposals_and_decisions` (6034-6243) |
| `Prune`, `PruneRaises` | `prune_strategy_proposals` (6319-6397); the second is the TypeError of a sort that meets an aware and a naive stamp |
| `PromoteExisting` | `_promote_existing_real_candidate_over_mock_active` (5909-5999) |
| `AssignSlots`, `Finish` | ranking of the slots and stage commit; last commit |
| `FailCommitting` | the except branch |
| `LoseSession` | death of the process, or a failed flush |

`pool` is the session's view of the table and `db` the committed one: `Commit` is `db' =
pool'`. A row keeps status, symbol, source, score, creation and promotion stamps, and phase
and stamp of the last decision on it. A stamp is (day, tick), so that several events of a
day are ordered and the day counts of cooldown and ages are exact. Python's sorts and `ORDER
BY` clauses with ties become choices. `recast` and `born` carry the two ways in which the
session differs from a fresh load: an already loaded `decisions` collection, and
timezone-aware stamps. A row that was archived and never promoted is read by no query any
more, so its identity is used again; that bounds the table without bounding the syncs.

Inputs left open: the research batch, what a review comes to, the drawdown, `force_refresh`,
the macro status.

### SyncRuntime.tla

State is the status row as the readers see it (`state`, `bootstrap`, `age`, `due`,
`succeeded`), the lock and the stage of the running sync, the jobs that wait for the lock,
the scheduler task, and the watchdog's timer. `CurrentState` is
`get_pipeline_runtime_status` (745-822). Time is discrete; one unit is the watchdog's
period, and only ages and remaining times are kept. `Watchdog(answered)` is `run_watchdog`:
it restarts the service on a status that is failed or stalled, and also when /healthz or the
command endpoint does not answer in time or answers without a status, whatever the sync has
reported; `WatchdogFails` is a restart that launchctl refuses. `Urgent` names what takes no
time in comparison (boot, taking a free lock, the first status write, the final commit); a
stage of a sync may take any time or hang. `Tick` stands for the clock and has no code of
its own.

### PaperLedger.tla

The primary slot through whole syncs, with the research reduced to its outcome (who is
promoted, recovered or paused). `write` marks an operation that has committed the runtime
file and not yet the paper file; `WriteRuntime` and `WritePaper` are its two halves.
`session` and `stored` are the audit records and the seat as the session sees them and as
committed. `ReadNav`, `ReadQty`, `ReadCash` translate the fallback of `fetch_paper_data`,
which takes each table from the paper file when the runtime file has no row of the slot, and
the `or default` that turns a cash balance of zero into the default capital. `AssignSlots`
keeps the relationship that is stale after the assignment. Quantities are lots, money is in
prices of a lot. `snaps`, `boots`, `net` are history variables that count what was written.

### ActiveSeat.tla

What the pool promises to those who read the committed table, without stages, sessions or
rows: a seat that is empty or holds one strategy, the strategies that have held it, and the
bench of those that the health check took out of it. Its steps are `Appoint` (good enough,
and for a real holder the cooldown and the margin), `Return` (a former holder recovers the
empty seat, or one held by a mock no better), `RollBack`, `Pause` and `Forget`. It models no
code itself. `StrategyPool` instantiates it with `Seat(db)`, `Former(db)` and `Benched(db)`,
read off the committed table, and `ImplementsSeat` is its specification. There is no step by
which a refresh, a change of symbol, retention or a failure empties the seat.

### MacroEvents.tla

| action | code |
|---|---|
| `SelectUniverse`, `Purge` | the stored selection; `purge_out_of_scope_event_history` and the commit after it |
| `FetchLive`, `FetchFails`, `StoreEvents` | `sync_event_stream` with a provider of the chain that answers, or with the fallback to the last known context; its commit |
| `FoldDigests`, `WriteDigests` | `sync_daily_event_digests`: reading records and digests, then the commit |
| `LatestDigest`, `Get` | `_latest_digest`, in a sync and in the GET handlers that build a market snapshot; without a digest it fetches and folds by itself |
| `Tick`, `Publish`, `Crash` | time, a new observation, the death of the process |

Each actor has a session `sess[a]`, whose additions become visible with its commit; a commit
that meets a taken unique key, or an update of a row that is gone, fails as a whole. One
series is fetched. An event is its observation and the fallbacks it went through, which is
how the code names it.

### AgentStages.tla

The language model in a sync: `StartCall`, `Answer` and `FailAttempt` are
`LLMGateway.invoke_json` for any caller (the market analyst, one strategy agent per symbol
in a thread of its own, debate and judgement); `BeginSync` to `EndSync` are the stages that
ask and what they store (proposals, knowledge observations, suggestions, research batches);
`SwitchTo` and `RecordSwitch` are the two writes of `set_runtime_llm_provider`, the
key-value file first and the audit records later. `Windows` translates
`_provider_cohort_windows`. Time is counted in committed switches, which is what the windows
tell apart. `answered` and `astray` are history variables.

### MarketCache.tla

`OHLCVCache.fetch_or_load` for one symbol, one action per SQL transaction (`ReadRange`,
`ReadBounds`, `LoadFirst`, `LoadHead`, `LoadTail`, `Reread`), with the chain of
`DataSourceManager` as an answer with any of the dates asked for (the first frame that is
not empty is taken, and providers drop the rows they cannot read), and the ways its callers
use the result (`Use`, `LoadDirect`; `Quote` for `fetch_latest_quote`). Days pass while a
call is under way. A bar is its date. `whole`, `dropped` and `raced` are history variables:
a call whose own answers were complete, the dates an answer left out between its own or next
to stored ones, and two callers that filled the empty cache at once.

### ResearchRuns.tla

A run from its POST (`Create`) through its background task (`Begin`, then `Backtest`,
`Optimize` or the walk-forward steps `Parse`, `Window`, `Search`, `Bar`, `WindowEnds`) to
the final commit (`Succeed`, `Fail`). Any commit of a task may fail (`Loses`): the first one
lies outside the try block, and the except branch does not roll back, so that the task ends
and the row keeps its status. The lengths of windows and steps are any integers, as the
schema has no bounds for them; a date outside the years of `pd.Timestamp` raises (`IsDate`).
`AddMonths` is `_add_months` with real calendar arithmetic, `Traded` is a bar of
`Backtester`, in units in which the commission is a whole number. Which parameters score
best is left open, and so are prices and signals.

### Universe.tla

`fetch_hk_universe_candidates` with the failure memory (`LoadMemory`, `Skip`, `Ask`,
`Truncate`, `Save`, `Rank`) and `get_universe_selection` with its stored result (`Refresh`
of a sync, `Read` by everybody else). `Truncate` and `Save` are two steps because
`write_text` empties the file first. The order among candidates of one class is left open.

An operator whose name ends in `Bug` is a plausible mistake in the definition that follows
it; no specification uses it.

## 3. The runs

Bounds have names that begin with `Max` or `Last`. Where `BoundReached` makes the end of the
bounded model a stutter, and in `MacroEvents` and `MarketCache`, whose actors go on for
ever, a deadlock is an error. `MCGovernance`, `MCAgentStages`, `MCMockObserved`,
`MCResearchRuns` and `MCUniverse` switch the deadlock check off: a proposal whose situation
cannot improve has no successor, a run that ended stays as it is, and the number of syncs is
bounded.

### Runs that pass

| run | module, cfg | distinct states | shows |
|---|---|---|---|
| governance | MCGovernance | 252,288 | `RefusalIsExplained`, `OnlyMockBypassesReasons`, `RunbookConditions`, `NeverWorse`, for the HK profile and all inputs at its edges |
| strategy_pool | MCStrategyPool | 1.9 million | `AtMostOneActive`, `PromotedMeetsThreshold`, `RejectedStaysOut`, `RealActiveKeepsItsSeat`, `ProtectedSurvivesRetention`, and the refinement `ImplementsSeat` |
| sync_runtime | SyncRuntime, MCSyncRuntime.cfg | 126,000 | `OneSchedulerJob`, `StatusFollowsTheSync`, `WatchdogSparesProgress`; `SyncsGoOn`, `StallIsRepaired`, `RefusalEnds`, `RequestsAreServed` |
| paper_ledger | MCPaperLedger | 6.2 million | `AuditMeansWritten`, `RuntimeFileLeads`, `OnceUnlessCutOff`, `FilesAgree`, `SalesAreCovered`, `ExecutionHealsTheFiles` |
| macro_events | MacroEvents, MCMacroEvents.cfg | 532,000 | `DigestsNameStoredEvents`; `EventuallyDigested` |
| agent_stages | MCAgentStages | 3.7 million | `MockIsMarked`, `CohortsAreTrue`, `CompletedBatchIsWhole` |
| market_cache | MCMarketCache | 5.3 million | `HolesHaveACause`, `LoadedIsWhole` |
| research_runs | MCResearchRuns | 520,000 | `BooksBalance`, `TestWindowsTile`; `RunsEnd` |
| universe | MCUniverse | 4.1 million | `FailuresAreSpared`, `OneSelectionPerSync`, `FailedIsLastResort` |

Why the bounds are enough.

* *governance*: the scores are the two thresholds, a point below and above, and pairs that
  differ by less, exactly and more than the minimum advantage of 25; the days go past the
  cooldown of 4. The rule compares, so these are all its cases.
* *strategy_pool*: three proposals are an active one, its challenger and one more (a
  previous stable one, or a second blueprint of the same call). The reviews are a real one
  at the threshold, one that beats it by the margin, one that is kept but not promoted, and
  a mock. Two symbols, in batches of one and of two, make rows leave the scope. Up to three
  syncs follow each other on a day and gaps of two days equal the cooldown and exceed the
  ages. Proposals are symmetric: no action tells one from another, and no liveness is
  checked here.
* *sync_runtime*: two faults (deaths of the process, failures that are not recorded, checks
  that go unanswered, restarts that fail), two jobs of each trigger and an interval of two
  watchdog periods; of the three stages the first comes before the sync takes its
  `current_time` and two after it, and in each the sync may stay for any time. Ages are
  counted up to the value beyond which no guard tells them apart.
* *paper_ledger*: three syncs, because the seat and what the slot does for it are two syncs
  apart (assigned in one, traded in the next); two strategies of one symbol; one exception
  or crash at any point. The two files see orders to buy and sell, and several operations
  per sync. One price is enough for properties that speak of quantities and of files: the
  drawdown pause still happens, because a successor's first trade starts from the default
  capital and so from another NAV.
* *macro_events*: one sync lane and one GET handler, one failure of the chain, one crash,
  and two instants, each of which is a trade date. The interference is between one fold and
  one commit, so two actors show it; two symbols let the selection move away from the symbol
  of an event that was just stored; `MaxAge` and `FallbackLimit` are such that a fallback
  finds one record to reuse. The initial records of another market are what the purge has to
  remove.
* *agent_stages*: two symbols are two threads that can disagree about the provider; one
  retry separates an attempt from a call; two syncs and two switches put a switch before,
  during and after a sync, and the windows hold up to three cohorts. One crash.
* *market_cache*: two callers, because a hole needs one that stores between another's bounds
  and its answer; four days of which one is no trade date, so that a hole has a stored date
  on both sides and an answer may skip one in its middle; a tolerated gap of 1 is smaller
  than the largest possible gap.
* *research_runs*: runs share nothing, so one run of any kind is all of them. Start dates
  lie at the ends of long months, across a year's end and February with and without a leap
  day. The lengths of windows and steps are zero, negative and positive; steps are shorter
  and longer than the test window and equal to it, and one test window is longer than the
  years left. Years end a little after the dates, so that windows that roll for ever reach
  the end of `pd.Timestamp` within the model. One fault. Four bars allow two purchases and
  two sales at two prices.
* *universe*: two candidates of which one is asked for its history, so that one is left out
  of the enrichment; a sync, a second sync and a GET; a memory that lasts one instant of
  three.

### Runs that end in a violation

Each checks one statement of the documentation, and TLC shows how the code departs from it.

| run | statement | what the code does |
|---|---|---|
| two_active | `AtMostOneActive` (ARCHITECTURE.md:40) | An exception between the insertion of a promoted proposal and the archiving of its predecessor is committed by the except branch: two ACTIVE rows. Same model as strategy_pool, with `RaisesMidSwap = TRUE` |
| paused_resumes | `PausedNeedsFreshDecision` (`resume_conditions`, 5835; RUNBOOK.md:73) | After a pause there is no active row, so the next scheduled sync *recovers* the paused strategy, without a review; since its last decision is a pause, the health check ignores it from then on |
| mock_observed | `SuggestionsCountReal` (services.py:482; LLM_PROVIDER_MIGRATION.md:70-74) | The fallback of a call that failed is a mock by its `source_kind` and carries the status of the provider: the knowledge base observes it, and a suggestion counts it as a real proposal. No switch and no crash are needed |

### Other places where code and documentation differ

These are not runs; the models reproduce the behaviour.

* The swap over a mock active strategy (5919) reads neither macro status nor backtest gate;
  RUNBOOK.md:114-119 asks for both (`StrategyPool!PromoteExisting`).
* The next run is announced from the sync's start while the scheduler sleeps from its end
  (6810): a healthy pipeline is reported `stalled` for a moment (RUNBOOK.md:49).
* The health check takes the seat from a strategy and leaves the reasons stored with it,
  none, as they were: it qualifies for a challenger slot at once (5868-5877, 7125-7137).
* The watchdog restarts a service that does not answer in time, also under a sync that makes
  progress (110, 149): `WatchdogSparesProgress` names it.
* What a provider drops inside an answer, or next to stored dates, the bar cache never asks
  for again (`source_manager.py`:116, `cache.py`:155-190): `HolesHaveACause`,
  `LoadedIsWhole`.
* A run whose commit fails stays queued or running in a process that lives (6904, 6955,
  6967, 7047): `RunsEnd`.
* The drawdown is taken over all NAV rows of the slot (5796), those of earlier strategies
  included.
* After a replacement the slot's stale relationship makes the replaced strategy trade once
  more (6777; ARCHITECTURE.md:40).
* A sale of the last position cut off between the two files is sold again from the second
  (1538; ARCHITECTURE.md:51). `SalesAreCovered` therefore speaks of ledgers without a fault.
* Each fallback stores copies of old events as events of now, which the next fallback reuses
  (3062): `fallback_max_age_days` does not end the reuse of the last known context.

## 4. Fairness and liveness

`SyncRuntime`: `SyncsGoOn`, `StallIsRepaired`, `RefusalEnds`, `RequestsAreServed`. Its
`Spec` assumes

* `WF(Boot)`: launchd's KeepAlive restarts a dead service (`com.openhamster.api.plist`);
* `WF(Watchdog)`: launchd runs the watchdog every 300 s (`com.openhamster.watchdog.plist`);
* `WF(Wake)`: the event loop runs the scheduler task when its sleep is over;
* `WF(\E t : Enter(t))`: a free lock is taken by *some* waiting thread. `threading.Lock` has
  no queue, so which one is left open; a request is served by any sync that begins after it,
  not by its own job;
* `WF(Report \/ FailUnrecorded at stage 0)` and `WF(End)`: straight-line code at the two
  ends of a sync;
* `SF(Tick)`: time goes by. It is strong because requests can make something urgent again
  and again; real time does not wait for them.

No stage of a sync is assumed to end, nor to succeed. A hanging sync is ended by the
watchdog, and that is what these properties are about. Faults are bounded; a system that
crashes for ever makes no progress.

`MacroEvents`: `EventuallyDigested` assumes `WF(SyncStep)`, that is, syncs go on. This is
what `SyncRuntime` shows of the pipeline (`SyncsGoOn`), with the same bounded faults.
Nothing is assumed of GET handlers: no request has to come, and one may stop halfway.

`ResearchRuns`: `RunsEnd` assumes `WF(Work(r))` for each run: a thread of the pool runs a
task to its end, as long as its process lives. The property names the cases in which a run
does not end. Its process died, or a commit of its task failed: nothing takes the row up
again. Or it is a walk-forward whose train and step months do not point the same way:
`step_months` 0; `train_months` 0 while searches find nothing, because the next training
then begins where the test would have; or one of them turns back what the other advances. A
walk-forward whose train and step months are both negative does end: it runs out of the
years of `pd.Timestamp` and fails.

The other modules state no fairness; their properties are safety.

## 5. What is proved

The proofs hold for every value of the constants that the named assumptions
(`GovernanceAssumption`, `ReviewAssumption`, `PoolAssumption`, `RuntimeAssumption`,
`LedgerAssumption`, `MacroAssumption`, `StagesAssumption`, `CacheAssumption`,
`RunsAssumption`, `StartsAssumption`, `UniverseAssumption`) admit: any number of proposals,
syncs, callers, symbols, retries and faults, any thresholds, prices and dates. Every
invariant and every action property that a passing run checks is the conclusion of a
theorem.

* **EvaluationProofs** has the two components that judge a strategy. Of `GovernanceReview`:
  `RefusalsExplained`, `ReasonsEnforced`, `RunbookConditionsHold`, `DecisionIsMonotone`. The
  invariant is the type of the inputs. The first goes over the conjuncts of `PromoteAllowed`
  and shows that each one that fails puts a reason on the list; monotonicity has one lemma
  per kind of improvement.
* **EvaluationProofs**, of `ResearchRuns`: `TypeInvariant`, `BooksAreBalanced`,
  `WindowsTile`, `SerialCountsDays`. `BookInv` says of each book that its cash is the
  capital less what was spent and with what was earned, that it holds shares after an odd
  number of trades, and that its cash is not negative; `TradeKeepsBalance` has the
  arithmetic, in which `WholeShares` says that rounding down leaves a purchase affordable,
  commission included. The lengths are any integers and the years unbounded: what
  `AddMonths` gives is a day of the calendar (`Calendar`) whether or not `pd.Timestamp` can
  hold it. `WalkInv` ties the end of the last test window to the start of the training that
  preceded it. Its step is calendar arithmetic: the next test window begins where the start,
  moved by the step and then by the training months, lies, and the last one ended at the
  start moved by training and then test months. With step and test months equal the two are
  the same months added in two orders; `EndsMeet` shows that the month is the same and that
  only the cuts at the end of a short month differ, by at most three days. `Serial`, the
  number of a day by which the property measures this, is not taken on trust:
  `SerialCountsDays` proves that it numbers the days of the calendar one by one.
* **StrategyPoolProofs**. `TypeInvariant`; `SingleActiveStrategy`, for instances with
  `RaisesMidSwap = FALSE` (the run two_active shows that the hypothesis cannot be dropped;
  `OnlyMidSwapDoubles`, below, shows that nothing else is to blame); `NoWeakStrategySeated`;
  `RejectionIsFinal`. `AtMostOneActive` speaks of the committed table and is not inductive.
  `SeatInv` adds that the session has one active row outside a swap (`promoted = None`),
  that every active row is `prev` or `promoted` while the sync works with these locals
  (`PreviousActiveTracked`), and that the row promoted in this call is active, of the call's
  source and of this day (`SwapInProgress`). The last is what keeps a second blueprint of
  the call from being promoted as well: it would have to beat a strategy whose cooldown
  starts today (`NoSecondPromotion`), and it is of the same source, so the exception for
  mocks does not apply. `MeritInv` states the two other properties row by row, of both views
  of the table.

* **StrategyPoolProofs**, with the same hypothesis: `PoolImplementsSeat`: every behaviour of
  the pool is one of `ActiveSeat`. A step that commits has to be one step of the seat, so
  the invariant `RefInv` relates the session's table to the committed one: at the places
  where nothing is decided they agree on every holder, former holder and waiting row; where
  a decision is pending, they are one step of the seat apart (`SeatStep`); and in the middle
  of a call the promoted row was fresh and fair to the committed holder (`SwapIsFair`). This
  is inductive because commits come often enough: no stage changes the seat twice before it
  commits. `HeldInv` says that holders are dated and have a source. Each stage has a lemma
  about what it does to the rows and one about the step that this is.
* **StrategyPoolProofs**, with no hypothesis: `OnlyMidSwapDoubles`, `RealActiveIsSafe`,
  `RetentionSparesProtected`. An exception in the middle of a replacement is committed, and
  from then on `SeatInv` is false: the sync may work with two ACTIVE rows. Two things
  survive. `SessionInv`: `previous_active`, where the sync relies on it, is ACTIVE in its
  session, and missing only if nothing but the row promoted in this call is
  (`PreviousIsActive`). And a sync that starts from one committed active row, or commits
  one, is back in `SeatInv` (`DoubleInv`; `SeatRestored`), as every step but that exception
  keeps it (`SeatKept`). `RealActiveIsSafe` needs two more facts: in the middle of a call
  the promoted row beats the `prev` it will archive after the cooldown and by the margin
  (`RivalsFair`), and a committed real active row is archived in the session nowhere but
  there (`RealInv`): the health check demotes it to CANDIDATE, and the next commit comes
  before the next stage that archives candidates. That `prev` is ACTIVE is also why the
  archiving of `prev` never hits a protected candidate. No run states `OnlyMidSwapDoubles`:
  *strategy_pool* leaves these exceptions out, so that it would hold there for want of
  cases, and *two_active* stops at the first.
* **SyncRuntimeProofs**. `TypeInvariant`, `StatusIsOfTheSync`,
  `SchedulerNeverOvertakesItself`, `WatchdogIsPatient`. Each is inductive with the type
  invariant; the last is a step property of what an answered check reads, with unanswered
  checks as its stated exception.
* **PaperLedgerProofs**. `TypeInvariant`, `AuditsAreTrue`, `RuntimeLeads`,
  `RepetitionNeedsFault`, `FilesAreEqual`, `NothingIsSoldShort`, `ExecutionHeals`. Types
  need `WorkInv` (what is left to do, for whom, and what the pending write is). The next
  three follow from one invariant per kind of operation and strategy, `EntryInv`, which
  counts the rows of the operation in the two files against the audit record, the pending
  write and the faults. The last three follow from `FilesInv`: without a fault the runtime
  file is the paper file with the pending write posted to it (`MirrorInv`); what is pending
  is what the runtime file holds (`PendingInv`); and the slot holds no more of a symbol than
  the trades in its file bought (`NetInv`).

* **MacroEventsProofs**. `TypeInvariant`, whose invariant types what each session has yet to
  write like what is stored; `DigestsAreTrue`. A digest is written from a fold that was made
  of records read earlier, so the invariant says the same of the fold in every session
  (`FoldInv`): what a fold names is stored, and stays so, because no step deletes a record
  of the home market (`FoldStaysTrue`); the purge deletes only those of other markets.
* **AgentStagesProofs**. `TypeInvariant`, `MocksAreMarked`, `CompletedBatchesAreWhole`,
  `CohortsHold`. The invariants say what a call in each step may hold (only an answer makes
  one valid), which callers have a call in which stage, and that a symbol of the batch that
  is not pending any more has its proposal. For the cohorts, `CohortInv` ties the three
  records of a switch together: as long as nothing goes astray, the stored provider is that
  of the last recorded cohort, or of the PATCH whose records are not committed yet; a call
  that is ready was stamped in this cohort; and a call past asking, or a proposal, is a mock
  exactly when the cohort of its stamp is the mock's. A stamp in cohort 0 says so only while
  no switch is recorded. A step changes nothing in what is known of the past (`PastStands`),
  and each window is open as long as one cohort (`WindowsAreCohorts`).

* **MarketCacheProofs**. `TypeInvariant`, `HolesAreCaused`, `LoadsAreWhole`. `CacheInv`
  says, apart from the property itself, what a caller is about to store: the bounds it holds
  are stored and stay so (`BoundsAreStored`), so that its answer for the time before or
  after them joins what is there but for the dates it leaves out itself, whoever has stored
  in the meantime (`AnswerJoins`), and who fills the empty cache is alone in that
  (`FirstIsAlone`). `WholeInv` says of each stage of a call which part of the dates that it
  owes is already in the cache.
* **UniverseProofs**. `TypeInvariant`, `SyncsAgree`, `FailuresSpared`, `FailedComesLast`.
  `OneSync` ties the selection a sync uses to the stored one and to its place: a second
  fetch of the same sync means that the first had no factors. `Tracked` holds while no two
  fetches overlap and no process dies: at most one fetch is at work, its memory knows every
  recent failure, so does the file unless that fetch has something to save, and the class of
  each candidate says whether it failed. `FailedComesLast` follows from the ranking: its
  first is of the best class that any candidate has (`FirstOfARanking`); with true classes,
  a first that failed means that all did.

Only model-checked: the liveness properties `SyncsGoOn`, `StallIsRepaired`, `RefusalEnds`,
`RequestsAreServed`, `EventuallyDigested` and `RunsEnd`, as temporal reasoning under
fairness is out of the prover's reach.

## 6. Assumptions, omissions, hazards

* In `StrategyPool`, `RaisesMidSwap = FALSE` excludes an exception in one window only: after
  a promoted row was inserted and before the call ends. Everywhere else exceptions and
  crashes are in. Only `SingleActiveStrategy` and `PoolImplementsSeat` are proved, and only
  *strategy_pool* and *paused_resumes* are run, under it.
* A `minimax` row of `StrategyPool` always has `provider_status` ready, and all blueprints
  of one call have one source, as `run_strategy_agent` builds them. `AgentStages` has one
  blueprint per answer and one knowledge family.
* In `PaperLedger` a sync stays on one calendar day and the slot has fewer than 120 NAV rows
  (the window of the health check, 5792). Challenger slots are left out: they have rows of
  their own in the two files, and which strategy is seated there depends on reasons stored
  with earlier reviews. `min_holding_days` can only turn a sale into a hold, which the free
  choice of the signal covers.
* In `SyncRuntime` a check that goes unanswered counts as a fault, and faults are bounded: a
  service that is never reached is restarted for ever, and nothing is claimed of it. The
  watchdog's history and its warnings, which start nothing, are left out.
* `MarketCache` does not tell a bar that was stored before its day closed from a final one.
  `Universe` keeps the failure memory below its limit of 512 entries and leaves out the
  static mode.
* The conditions in properties (`~astray`, `~raced`, `~crossed`, `dropped`, `faults = 0`)
  are history variables for events that do break the conclusion; each property's comment
  names them. They are part of what the check shows: no other cause does.

Not modelled, and why:

* *Strategies, regimes, risk managers, metrics, scores*: floating-point computations without
  state across calls. The models take a signal, a score or a ranking as an input.
* *Live readiness, acceptance reports, DTOs, most GET handlers, the frontend*: they derive
  and format what the other models own, and nothing reads it back.
* *Single data providers, scripts, settings, schema*: I/O and parsing. Settings are the
  constants of the modules; what a commit and a unique key mean is part of each model.
* *Wording* of prompts, answers, reasons and audit records.

`PROJECT.json` lists the hazards of the code with their lines and the properties that would
catch them. A note says why a hazard, or a part of one, has no property. Most such cases are
what a model reproduces and a property names as its exception: the second sale after a cut
(1538), a run that is lost (6895, 7047) or goes round for ever (`walk_forward.py`:161),
callers that fill the empty cache at once and answers with gaps (`cache.py`:155,
`source_manager.py`:116), fetches that overlap (`hk_universe.py`:81) and a GET between two
readings (3438). Others are reproduced, and no document says what is meant, so that no
property speaks of them: equal stamps of two decisions (5743), a stall reported on time
(6810), the successor's capital and positions (2585), the zero balance (1978), the stale
slot relationship (6777), the drawdown over the rows of several strategies (5796), the
fallback copies (3062), a batch left running (6490). The challenger slots (7137) are not
modelled.

## 7. What could come next

1. A composition of `SyncRuntime` with `AgentStages`, in which a provider switch asks for a
   sync while its records are not committed yet.
2. The challenger slots: the reasons stored with a row in `StrategyPool`, and the rows of a
   second slot in `PaperLedger`.
3. `EnhancedRiskManager`'s peak, day and trailing state, in integer prices.
