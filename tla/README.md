# Verification of investment_manager

TLA+ models, TLC runs and TLAPS proofs for the `investment_manager` package
(`src/src/investment_manager`, about 70 000 lines of Python). Paths below are
relative to that package unless they start with `docs/`.

## 1. The system

One loop runs for one portfolio: Evidence, State, WorldModel, Forecast,
PortfolioTarget, RiskDecision, Execution, Account/Outcome, Evaluation
(`docs/ARCHITECTURE.md`, section 3). Almost everything is an append-only ledger
in PostgreSQL; the processes that write them are Temporal workflows and
activities, long-running services and a CLI.

| component | state it keeps | operations | talks to | what makes it correct | modules |
|---|---|---|---|---|---|
| Execution group (`execution/group`) | one group per planned trade group: legs, status, revision | `start`, `run_once`; optimistic `save` | order venue, order ledger | a leg is recorded as ended only if its order is; HEDGED is complete; reversals never exceed fills; every started group ends; the account follows the orders | `GroupContract`, `ExecutionGroup`, `GroupOutcome`, `AccountProjection`, proofs |
| Order venue (`execution/venue`) | orders by client id, order observations | `query`, `submit`, `cancel`; `record`, `history_for_groups` | group engine, account projection | idempotent by client id; the latest observation is what the venue last said | `ProductVenue` |
| Planner (`execution/planning`) | trade plans | `TradePlanner.plan` | risk decision, account | legs lead from the account to the approved target and no further | `CapitalCycle`, `PortfolioChoice` |
| Scheduling (`scheduling`) | trigger plan revisions, trigger events, outbox, call admissions; the coordinator's pending set, frozen batch, timers | `apply_patch`, `record_trigger`, outbox delivery, batch, retry, fail, admit | every source of events; decision cycle | a committed trigger is judged, then batched, expired or trimmed; admitted calls are spaced; a batch waiting for input stays the same batch | `TriggerRules`, `TriggerOutbox`, `TriggerCoordinator`, `BatchDispatch` |
| Decision cycle (`decision_cycle`) | one receipt per portfolio and cause | build dispatches; consume, observe, protect, recover | forecast, portfolio, risk, execution | one capital disposition per cause over crashes, retries and releases | `BatchDispatch`, `CapitalCycle` |
| Portfolio (`portfolio`) | targets, account snapshots, valuations | decide; project the account | forecast, risk, execution | account history never goes back; one product per exposure; a target is bound to the account it was computed from | `CapitalLedger`, `PortfolioChoice`, `AccountProjection` |
| Risk (`risk`) | risk decisions | approve, reduce, reject; protect | portfolio, market | what is approved may be held; protection only reduces | `PortfolioChoice`, `CapitalCycle` |
| Forecast (`forecast`) | contracts, slots, assignments, forecasts, outcomes; Codex account leases; product projections | reserve, execute, close, settle; route calls to accounts; project products | state, AI processes, market | every assigned slot ends once, with one joint answer; a lease holds while it lasts; a projection counts the fundings ahead | `CodexRouter`, `CodexSession`, `ContextPosterior`, `PriorCadence`, `ProductForecast` |
| State (`state`) | facts and their revisions, states and deltas, packets | ingest, revise, project, prepare, select | information, market | a revision never hides a later one; states form one chain; a packet keeps its causal channels | `FactFeed`, `StateHistory`, `PacketSelection` |
| Information (`information`) | raw payloads, events, official records, calendars, metric snapshots | fetch, collect, deduplicate, revise, wake | external sources | nothing new is stored silently; a calendar mirrors its source; a document says the same twice | `FactFeed`, `InformationFeed`, `CalendarLedger`, `MetricSeries` |
| Market (`market`) | quotes, trades, bars, states, rules, fundings | stream, fetch, detect shocks, read as of an instant | venue data | an instant once read reads the same for ever; the analysis is not flooded | `MarketFeed`, `MarketStore` |
| Governance (`governance`, release commands) | releases, authority, evaluations | activate, cut over, supervise, recover; replay capital value | every service | one writer of the fact database at a time; cached evidence is what a replay gives | `ReleaseControl`, `CapitalIncrement` |
| Research (`research`) | frozen datasets and artifacts | collect, check, freeze; offline studies | files, sources | a dataset of the catalog is whole and true | `FrozenHistory` |
| Entry points (`entrypoints`), `web` | none of their own | CLI, dashboard, streams | every component | read models only | - |
| Kernel, platform, settings | none | ids, clocks, locks, Temporal client | every component | | - |

The behaviours that are hard to test are listed, each at its line, in the
`hazards` of `PROJECT.json`, with the property that would catch each one. Real
ones that the list does not repeat, and no property covers:

* the coordinator sleeps for the delay of an ordinary event only, so that a
  wakeup due earlier is heard late, and one whose window closes meanwhile is
  consumed unseen (`scheduling/workflows.py:176`; no document promises the window);
* a caller of a group that was overtaken by another, which compensated, can still
  place a target order after its leg was reversed (`execution/group/engine.py:177`):
  no document speaks of two callers of one group;
* only the last 5000 trigger ids are remembered (`workflows.py:492`);
* two patches of one revision, which the row lock and the revision check keep
  apart (`scheduling/repository.py:314`): a transaction is one step here;
* a panel may lapse between a decision and its retry (`decision_cycle/capital.py:601`;
  `EntriesHaveLivePanels` of `CapitalProofs`);
* an immediate trigger while ordinary events wait out their cooldown
  (`scheduling/models.py:633`; `OrdinaryKeepsCooldown` of `Trigger_timing.cfg`);
* a replayed batch that names an earlier batch's target is rejected
  (`capital.py:573`), and `_finish` refuses a batch after an observation executed
  another cycle's target (`capital.py:508`): the model reaches both as rejections;
* one receipt per cause is promised across releases, while the constraint also
  names the pipeline (`portfolio/tables.py:151`).

## 2. Modules

There are three kinds of modules. The two cores, execution groups and triggers,
and the capital cycle that joins them are models of their own. The other services
meet only in tables and files that each reads from its own side; each has a
module of its own, and an MC module takes several of them in one run: `part` says
which one a behaviour is of, and the others stay where they begin.

`GroupOutcome` states what a group promises to the account; `ExecutionGroup` is
checked to implement it and `CapitalLedger` uses it in place of the reconciler. A
batch that `TriggerCoordinator` builds is a batch that `BatchDispatch` executes
and `CapitalCycle` consumes; its frozen, failed and repeated builds are
`InputMissing`, `GiveUpExecution` and `WorkerDies` there, and `frozen`, `dropped`
and `Rerun` here. The slot that `BatchDispatch` freezes a packet for is the slot
`ContextPosterior` reserves.

### Execution groups (`MCExecutionGroup`)

| module | stands for |
|---|---|
| `GroupContract` | the group value and its rules: legs, statuses, unhedged notional, what the store lets follow what (`execution/group/models.py`, `repository.py`) |
| `ProductVenue` | orders by stable client id, partial fills, expiry, and the append-only observation ledger (`execution/venue`); the mock venue's atomic answers |
| `ExecutionGroup` | `ExecutionGroupEngine`: one runner is one call of `run_once`, each venue call and each save is a step |
| `GroupOutcome` | the abstract promise: open, then HEDGED with all targets filled, or FLAT with nothing held |
| `ExecutionGroupInvariant` | the inductive invariants in named parts: `RaceInvariant` for any number of callers, `SoloInvariant` for one |
| `ExecutionGroupProofs` | the proofs for any number of callers |
| `ExecutionGroupSolo` | the proofs for one caller, and the step simulation of `GroupOutcome` |

`group` is the row in `execution_groups`; `run[r]` holds what a call keeps in
memory: the group as it read or saved it (`base`), the one it works on (`draft`)
and the legs to go. `Decide`, `Stopped`, `Reverse`, `Reversed` and `Flatten` end
in `save` with the revision of `base`, which does nothing if another caller was
faster. `Crash` forgets a runner. Lost responses are actions of their own
(`QueryLost`, `SubmitAcceptedLost`, `SubmitNeverArrived`, `CancelLost`,
`RecheckLost`). A leg stands for its identity; identity hashing is left out.

### Triggers (`MCTriggerCoordinator`)

| module | stands for |
|---|---|
| `TriggerRules` | pure functions of `scheduling/models.py`: rules, priorities, expiry, coalescing, cooldown, the members of a batch |
| `TriggerOutbox` | `scheduling/repository.py` and the dispatcher of `runtime.py`: plan revisions, triggers, outbox rows, delivery in order, marks |
| `TriggerCoordinator` | the workflow of `workflows.py`: signals before and after `run`, due wakeups and heartbeats, waiting, building, frozen batches, continue-as-new; the inductive invariants `DeliveryInvariant` and `OnceInvariant` |
| `TriggerProofs` | the proofs |

Workflow code between two awaits is one activation: `Pass` finishes it before a
signal or time. A worker that dies replays its history, so there is no crash of
the coordinator; the dispatcher dies or fails through `DeliveryFails` and by not
marking. A transaction may commit up to `MaxLate` after the timestamp it wrote,
so rows appear behind later ones.

### Capital cycle

| module | stands for |
|---|---|
| `CapitalLedger` | the ledgers: panels, accounts with their reviews, intervals, targets, approvals, plans, groups, receipts; the queries on them |
| `CapitalCycle` | `decision_cycle/capital.py` and `portfolio.py`: one step for each transaction of `consume`, `produce`, `review`, `_observe`, `protect`, execution, `_finish`; the inductive invariant `CapitalInvariant` |
| `CapitalProofs` | the proofs |

`pc` names the next transaction of the attempt, `run` what it holds in memory.
`Interrupt` drops `run` and starts the same batch again; `Rerun` is the batch
coming back after a missing quote (`frozen`) or after a later part of the
activity was deferred (`done`). A row that exists is kept if the attempt
reproduces it and refused otherwise (`IntegrityError`, then a comparison): what
an attempt decides is chosen anew on every attempt, so both are explored. A
`ValueError` becomes a permanent failure and ends the batch (`rejected`). A cycle
id is the panel it decides (`PanelCycle`) or the instant it observes
(`WatchCycle`), as the source hashes them.

### Forecasts (`MCForecast`)

| module | stands for | state and actions |
|---|---|---|
| `CodexRouter` | `forecast/codex/router.py`, `capacity.py`, `repository.py` | rows `leases` and `audit`; per router a memory `mem` and a run. `StartRun` probes and refreshes, `Select`, `Acquire` (a sweep and an insert in one transaction), the executor's outcome, `Finish` or `FinishUnrecorded`, `Failover`, `Crash` |
| `CodexSession` | one execution of `protocol.py` | the server works, says what it does, may not send its end, may die; the client reads, waits out a grace, asks for the turn, judges |
| `ContextPosterior` | `decision_cycle/trigger.py`, `forecast/context/posterior_*.py`, `executor.py`, the ledger | process 0 is the dispatch builder, 1, 2, ... are the executions of the activity: Temporal gives one up (`GiveUp`) and a thread runs on until it ends or its worker dies |
| `PriorCadence` | `forecast/program/prior.py`, `settlement.py`, `governance/evaluation/outcome_service.py` | batches of prior slots one transaction at a time, quotes that arrive late, settlement in batches; both may stop anywhere |
| `BatchDispatch` | `decision_cycle/trigger.py`, `forecast/context/verification.py`, `scheduling/repository.py` (admissions) | threads that run the activity under `_build_lock`: `FreezePacket` settles the tests of the world model it finds, `AdmitCall` admits, defers or repeats the call |
| `ForecastProofs` | the proofs about these five modules | |

### What is recorded (`MCRecords`)

| module | stands for | state and actions |
|---|---|---|
| `FactFeed` | `information/official/source.py`, `information/coverage.py`, the ingestors of `state`, `state/facts.py`, `scheduling/fact_triggers.py` | one source and one fact: conditional fetch, observation, projection, end of poll, triggers of recent revisions; a collector that dies between them; `feed` runs over the kinds of ingestors, which differ in coverage, giving up and triggering |
| `StateHistory` | `state/decision/application.py`, `state/projection.py`, `state/repository.py` | preparations of one scope that overlap: read the predecessor, record the state, assemble the packet |
| `InformationFeed` | `information/collector.py`, `publications.py`, `models.py`, `repository.py` | one document over a fast and a slow route, read in parallel and stored one after the other |
| `CalendarLedger` | `information/official/repository.py` and the calendars | a poll reads the calendar at once and stores one event per transaction, the withdrawn ones last |
| `MetricSeries` | `information/official/metrics.py`, `metric_history` | a document as dated rows; every parser of the module as one of the kinds in `MetricStreams`: what it refuses, its level, its lags, how it treats gaps, future dates and zero |
| `PacketSelection` | `state/decision/packet.py` | selection under limits, removal, refilling, and re-fitting after the previous context has grown |
| `MarketFeed` | `market/runtime.py`: the stream and the shock detector | windows per symbol, one episode per scope, a sink that may fail, reconnections |
| `MarketStore` | `market/repository.py` and its writers | one instrument and one kind of fact per behaviour; the writers fetch, put, meet a fact again, correct it; `ReadAsOf` records what an analysis was shown |
| `RecordsProofs` | the proofs about these eight modules | |

### What decides and controls (`MCControl`)

| module | stands for | state and actions |
|---|---|---|
| `PortfolioChoice` | `portfolio/decision.py`, `risk/portfolio.py`, the plan's rounding | value, choose, size, value again; approve under the limits; execute any part; protect; the market moves |
| `ReleaseControl` | `entrypoints/cli/release_commands.py`, `governance/release/deployment.py` | each invocation of `operate_release` is a supervisor with its locks; services are groups that survive it |
| `ProductForecast` | `forecast/product` | projections of one perpetual in every direction, one transaction each, and their settlement |
| `CapitalIncrement` | `governance/evaluation/capital_increment.py`, `producer_capital.py`, `logical_account.py` | answers of two producers, evaluated and settled over time; `Read` replays both and caches |
| `FrozenHistory` | `research/dataset.py`, `quote_dataset.py`, `economic_series.py` | commands that page, check, write two files and rename, at once and killed anywhere |
| `AccountProjection` | `execution/group/accounting.py`, the trading cost of `portfolio/evaluation.py` | orders of two products in sleeves are reported late and in parts, fundings are collected late; `ProjectAccount` sorts, books, nets and marks what is visible, or raises |
| `ControlProofs` | the proofs about `PortfolioChoice`, `ReleaseControl`, `ProductForecast`, `CapitalIncrement`, `FrozenHistory` | |
| `AccountProofs` | the proofs about `AccountProjection` | |

## 3. What the runs check

| run | instance | distinct states | shows |
|---|---|---|---|
| `group_single` | 2 legs of quantity 2 and 1, one runner, 1 fault, time to 2 | 1.5 M | no leg is recorded ended against the venue; the ledger is complete at the end; the store never refuses the engine; `GroupOutcome` is implemented |
| `group_race` | 1 leg of quantity 2, two runners, 2 faults | 0.7 M | the inductive invariant, and that revision check and client ids alone bound reversals |
| `group_live` | 2 legs of one unit, 1 fault | 49 k | a started group ends |
| `trigger_delivery` | one event, patches, pauses, wakeups, heartbeats, late commits, continue-as-new after every batch | 1.8 M | nothing committed vanishes; plans are kept; a plan is delivered before the trigger it emits; generated triggers are made once |
| `trigger_live` | one event, one patch, one fault | 88 k | a recorded event is settled |
| `trigger_frozen` | two events with a failing retry | violation | finding 1 |
| `capital_retry` | 2 batches, 2 panels, one dying attempt per batch | 3.2 M | exposure, measured decisions, one receipt |
| `capital_idempotent` | the same | violation | finding 2 |
| `forecast` | the five modules of `MCForecast` | 1.0 M | the making of forecasts |
| `records` | the eight modules of `MCRecords` | 1.5 M | what is recorded of the world |
| `control` | the six modules of `MCControl` | 1.0 M | what decides and controls |
| `release_writers` | two supervisors, one kill | violation | finding 3 |

`capital_retry` checks that the exposure stays a position the sleeve may hold
unless an attempt died inside an execution (`InRangeUnlessInterrupted`); that a
target rests on an account whose performance interval exists
(`DecidedOnMeasured`); and that one receipt decides a target while all others
repeat it (`OneDecisionReceipt`).

The properties of the three compositions, each of one module:

| property | module | what several actors would have to do to break it |
|---|---|---|
| `LeaseHolds` | `CodexRouter` | a late release, or a sweep with an older clock, takes a running execution's row |
| `CooldownIsShared` | `CodexRouter` | one router fails, another or its own restart does not know |
| `AcceptedTurnIsWhole` | `CodexSession` | the end notice is lost and a turn is taken for done that goes on |
| `OneJointAnswer` | `ContextPosterior` | two executions, one of them given up, mix their answers in one seed |
| `NoSlotSkipped` | `PriorCadence` | a batch stops between two contracts and the next begins after the slot |
| `CallsAreSpaced` | `BatchDispatch` | two activities of overlapping batches are admitted by different clocks |
| `StreaksAreEarned` | `BatchDispatch` | one observation is counted in two packets |
| `LedgerFollowsObservations` | `FactFeed` | a release is given up twice, or after its value, across crashes |
| `DeltasJoinNeighbours` | `StateHistory` | a state is recorded against a predecessor that is no longer the last |
| `EveryPartWasNews` | `InformationFeed` | the slower route of a document stores a part that woke nobody |
| `CalendarMirrorsSource` | `CalendarLedger` | a poll breaks off and a time returns that an older revision had |
| `SnapshotsAreReproducible` | `MetricSeries` | a repeated reading takes its own snapshot for history |
| `PacketKeepsItsBaseline` | `PacketSelection` | several sound removals together lose a causal channel |
| `ShocksAreSpaced` | `MarketFeed` | urgent moves, reconnections and failed reports reopen an episode |
| `ReadsAreStable` | `MarketStore` | a fact met again or fetched late changes a past instant |
| `OneProductPerExposure`, `ApprovedIsHoldable` | `PortfolioChoice` | a switch executed by halves, or scaled limits, leave a portfolio that may not be held |
| `OneRecordedGroup` | `ReleaseControl` | a supervisor recovers beside processes that a killed one left |
| `FundingIsCounted` | `ProductForecast` | a market state older than the funding it tells of |
| `IncrementStands` | `CapitalIncrement` | the ledger grows between the replay and the use of its key |
| `FrozenIsTrue` | `FrozenHistory` | concurrent commands, kills, revisions and a bar that is still forming |
| `AccountFollowsFacts` | `AccountProjection` | partial and late fills of several sleeves that cross zero, fundings learned late and days without a projection make equity, sleeves, daily results and trading cost disagree |

`StreaksAreEarned` assumes that packets are frozen in the order of their times
(`inOrder`); without it `Earned` fails, see section 6. `OneRecordedGroup` assumes
that somebody looks for what a killed supervisor left (`lost`).

**Further configurations**, checked by hand with `tlc -config <cfg> <module>` and
passing. They hold the type invariants, the inductive invariants of section 5, so
that each was checked on a small instance before it was proved, and properties
that need no run of their own:

| configuration | invariants of the proofs | further properties |
|---|---|---|
| `Forecast_more.cfg` | `RouterInvariant`, `SessionInvariant`, `JointInvariant`, `ClosingInvariant`, `CadenceInvariant`, `SpacingInvariant`, `StreakInvariant` | `PublishedAfterTerminal`, `PriorsReadThePast`, `ReportedAsRecorded`, `UnavailableHadItsGrace` |
| `Records_more.cfg` | `FeedInvariant`, `HistoryInvariant`, `InformationInvariant`, `CalendarInvariant`, `MetricInvariant`, `MarketInvariant`, `StoreInvariant`, `PacketInvariant`, `NewsInvariant` | `ReportedOnceUnlessLost` |
| `Control_more.cfg` | `PortfolioInvariant`, `SwitchInvariant`, `ReleaseInvariant`, `FundingInvariant`, `FrozenInvariant`, `SettlementInvariant`, `IncrementInvariant` (with a slot of two contracts), `AccountInvariant`, and `AveragesAreWhole`, the hypothesis of a theorem | `SwitchIsNotUndone`, `SettlesTheOverdue` |
| `Trigger_timing.cfg` (3.0 M states: two events, a heartbeat and a wakeup) | `TriggersAreTimed`, `OnePlanIsKnown` | `InternalOnce`, `OrdinaryKeepsCooldown` |

`SoloInvariant` holds with the constants of `ExecutionGroup_single.cfg`,
`CapitalInvariant`, `AccountsInOrder`, `StartedWhenDecided` and
`EnterOnlyOnLivePanel` with those of `CapitalCycle_retry.cfg`,
`DeliveryInvariant` and `OnceInvariant` with those of `Trigger_delivery.cfg`, and
so do `PlanReachesCoordinator` and `FrozenEnds` (with `FairSpec`) with those of
`Trigger_live.cfg`.

**Bounds and why they are enough.**

* Groups: two legs are a carry, the multi-leg plan of the source, and the uneven
  quantities make partial fills and unhedged notional occur. Two runners suffice
  for a stale save: what a third could do to one of them a second does. Two
  reversal attempts contain a replaced one; in the last one of a bounded behaviour
  the venue does not fail, as the source has no last attempt. One or two faults at
  every place cover each single failure and its combination with a second.
  `group_race` uses one leg since what a stale save can break is per leg; the
  proofs hold for any legs.
* Triggers: two plan revisions contain an overtaken one; batches of two from at
  most three pending triggers contain selection, trimming and leftovers; a
  continued execution after one or two batches stands for 500.
* Capital: two batches, two panels and a panel life of two contain a batch that
  finds the panel of an earlier one half decided, a newer panel in between, and one
  that lapses. A group left open once (`MaxAdvances`) contains pending accounts and
  recoveries.
* `forecast`: two routers and two accounts contain failover and contention (routers
  are symmetric); a lease longer by one unit than the timeout, a clock of three
  values; two targets and three executions contain a seed half written by one and
  finished by another; two contracts and four times a skipped slot of one of them;
  two threads and a window of two minutes the overlap of an abandoned execution
  with its successor.
* `records`: two versions of a source contain a revision, three instants a deadline
  between two polls, one crash every place of a crash; two preparers and one event
  an overlap; two entries and three days a withdrawal beside a listing; four dates
  a gap, a lag of two and a later day; three facts and two events every kind of
  removal and refilling; two symbols and a span of two an episode shared and
  ended; two writers every reordering of observation and storing.
* `control`: two products of one exposure and one against it contain a switch and a
  net limit; three supervisors a predecessor, a successor and a third that recovers;
  two forecasts, one ending first, with a funding interval shorter than the maximum
  age of the rules; three slots, two of them at one time; two commands with pages
  of two and months of three; a carry filled in two parts, closed past zero by a
  later group, beside a trend whose spot leg is reversed, over three moments of
  three days.

Deadlock is not checked where the clock, the revisions or the batches run out:
all runs but the group runs end there. In the group runs it is checked.

Some branches of the source cannot be taken in the model and are kept as written
because the reason lies elsewhere: `run_once` refusing an older instant in
`Execute` (recovery refuses first), reuse of an execution account in
`ProjectExecution` (a retry finds the chain settled first), a performance record
that is not the latest (`Account` refuses first).

## 4. Fairness

* Execution: every capital cycle calls `recover_pending` before anything else and
  the heartbeat brings capital cycles, with a later `as_of` each time; so a
  runner that can go on does (`Progress`) and `Tick` is fair. Orders are market
  orders, and the venue fills a reversal that works.
* Triggers: the leader fetches, signals and marks while it runs, and Temporal
  runs the workflow's activations. A build ends since the activity has a
  schedule-to-close timeout and bounded attempts; children end by their own.
  Fairness is on `Fetch`, `SignalCoordinator`, `Mark`, `Run`, `Pass`, `BuildEnds`
  and `ChildrenDone`; nothing is assumed of recording, patches or faults, and
  faults are bounded. After `LastBusy` time passes only when all is quiet: a
  bounded clock must not run out under work that is still enabled.
* All other modules have safety properties only. What must come to an end there
  is stated of the end: `SettlesTheOverdue`, `CalendarMirrorsSource` and
  `NoSlotSkipped` say what is true once a pass, a poll or a batch is over.

## 5. What is proved

Every theorem holds for all values of the constants under the assumptions the
modules state; `tlapm` checks each proof to its leaves. "Run" is the run that
shows the same property on a small instance.

| theorem | says | run |
|---|---|---|
| **`ExecutionGroupProofs`**: any number of callers, crashes and lost answers | | |
| `TypeCorrect`, `RaceSafe` | the state is well typed; the inductive invariant `RaceInvariant` holds | `group_single`, `group_race` |
| `NeverOverReversedHolds` | the account stays between nothing and the plan in every leg | `group_race` |
| `HedgedIsHedgedHolds` | a HEDGED group holds the plan and has no reversal | `group_race` |
| `EndedReversalsAreTrueHolds` | a reversal recorded as ended is ended at the venue with that fill | `group_race` |
| **`ExecutionGroupSolo`**: one caller at a time | | |
| `SoloSafe`, `EndedLegsAreTrueHolds` | what the caller stores of a leg or an order is what venue and ledger say; a leg recorded as ended is ended with that fill | `group_single` |
| `NeverRefusedHolds` | the store's validators refuse no save of the engine | `group_single` |
| `LedgerAgreesHolds` | when a group has ended the order ledger agrees with the venue | `group_single` |
| `OutcomeImplemented` | refinement: each step of the engine is a step of `GroupOutcome` or a stutter | `group_single` |
| **`TriggerProofs`** | | |
| `TriggersDoNotVanish` | a committed trigger is in the outbox, held, judged, or in a batch that was dispatched or failed | `trigger_delivery` |
| `DeliveredPlansAreKnown`, `PlansComeFirst` | an acknowledged plan, or a later one, is in force; a held trigger's plan is held | `trigger_delivery` |
| `InternalsAreMadeOnce` | action property: no heartbeat or wakeup whose batch was dispatched or failed is made again | `trigger_delivery` |
| `CooldownsAreKept` | action property: an ordinary event enters a batch only when the cooldown of its rule, counted from the last batch, is over | |
| **`CapitalProofs`**: any number of panels, batches and interruptions | | |
| `CapitalSafe`, `CapitalTypeCorrect` | the ledgers are ordered and built forwards, an attempt knows them truly | |
| `RetriesStayInRange` | exposure stays a position the sleeve may hold, unless an attempt dies in the execution itself | `capital_retry` |
| `TargetsAreMeasured`, `TargetsAreDecidedOnce` | a target rests on a measured account; one receipt decides it | `capital_retry` |
| `AccountsStayInOrder`, `GroupsStartWhenDecided`, `EntriesHaveLivePanels` | the account ledger is in order; a group starts when its target is decided, and enters only on a live panel | |
| **`ForecastProofs`** | | |
| `RouterTypeCorrect`, `LeasesHold`, `CooldownsAreShared` | an execution holds its row while its lease lasts; a cooldown binds every router | `forecast` |
| `AcceptedTurnsAreWhole` | only a whole turn is accepted | `forecast` |
| `AnswersAreJoint` | forecasts of one seed are one answer, over any number of overlapping executions | `forecast` |
| `ToldAfterTerminal`, `ReportsAreRecorded` | capital is told of a world model when every target of its seed has its result; what a workflow reports stands in the ledger for the whole seed | |
| `NoSlotIsSkipped`, `PriorsKeepToThePast`, `GraceIsGiven` | recovery takes up every slot; priors count what was settled; nothing is unavailable before its grace | `forecast` (the first) |
| `CallsStaySpaced` | admitted calls of two batches are an interval apart | `forecast` |
| `StreakInvariantHolds`, `StreaksStayEarned` | a streak counts that many different observations that answered the test so, while packets are frozen in order | `forecast` |
| **`RecordsProofs`** | | |
| `LedgerIsOrdered` | a fact's revisions are its observations in order, given up first or never | `records` |
| `StatesFormAChain` | each state is compared with the one before it | `records` |
| `NewsIsNotRepeated` | an event is the news of one state only, a revision of another only where a state between lacked the whole fact | |
| `NothingIsStoredSilently` | each stored part of a document was in an event that woke the analysis | `records` |
| `CalendarsAreMirrored` | an ended poll leaves the calendar it read | `records` |
| `SnapshotsStand` | a document read again gives the snapshot it gave, for every kind of feed | `records` |
| `MarketTypeCorrect`, `ShocksStaySpaced` | ordinary shocks of a scope are a span apart | `records` |
| `SettledReadsAreStable` | a settled instant reads the same for ever | `records` |
| `PacketSafe`, `BaselinesAreKept` | a packet holds all a trigger points to, names what it omits and, without a previous context, keeps the risk factors of the metrics selected | `records` |
| **`ControlProofs`** | | |
| `ReleaseSafe`, `OneGroupRuns`, `ReleaseTypeCorrect` | locks, record and processes agree; one recorded group writes | `control` |
| `SettlementSafe`, `OverdueAreSettled` | a settlement that ran to its end leaves nothing overdue open unless it was full of outcomes | |
| `FundingsAreCounted` | a projection expects each funding after its decision and within its horizon, once | `control` |
| `PortfolioSafe`, `ExposuresStaySingle`, `PortfolioTypeCorrect` | two products of one exposure are never held together | `control` |
| `SwitchSafe`, `SwitchesStand` | a product left for a better one is not taken back while the market stands still, however far its exit got | |
| `ApprovalsAreHoldable` | what risk approves is within every limit of the next review, to the rounding of sizes | `control` |
| `FrozenSafe`, `FrozenStaysTrue`, `FrozenTypeCorrect` | every dataset of a catalog is complete, true and without a gap where it must be | `control` |
| `IncrementSafe`, `IncrementKeepsStanding` | evidence kept under the key a reader computes is what a replay would give now; both paths end at one time over the same slots | `control` |
| **`AccountProofs`** | | |
| `AccountSafe`, `AccountTypeCorrect` | what is recorded of an order only goes on; the daily results make up the result so far | `control` |
| `SleevesAndDays` | action property: the sleeves of a projection own what it holds and the daily results add up, whatever the fills | `control` |
| `ProjectionFollowsFacts` | action property, where averaging loses nothing: equity is what the orders paid and would bring, in whatever order they were taken; the trading cost matched lot by lot is that of the account | `control` |

### Along which argument

No property is inductive as it stands; for each the invariant says what some actor
still remembers truly.

* **Groups, many callers.** The properties speak of the stored group, but a save
  writes what a caller computed from a group it read many steps ago. So
  `RaceInvariant` carries, for every runner, what its `base` and `draft` still say
  truly of the venue and of the stored group however old they are (`Known`: a fill
  never exceeds the order's; a terminal reversal is terminal with that fill; an
  attempt is not beyond the stored one). Because venue facts only grow and the save
  compares revisions, these survive the steps of others. `OrdersMatchLegs` ties
  orders to stored legs, `ReversalsBounded` bounds what reversals ask by what the
  target filled, `PositionBooked` makes the account the sum of the fills.
* **Groups, one caller** (hypothesis `Solo`: two runners are one). Nobody overtakes
  the caller, so `SoloInvariant` adds equalities: `base` is the stored group
  (`StoredTrue`), a leg recorded as ended has no live order, its fill and the
  ledger's (`LegTrue`), and each place of the engine has the group its code relies
  on (`CallTrue`). The hypothesis is needed: with two callers `EndedLegsAreTrue`
  is false (see the hazards), and the deployment has one leader. The refinement
  maps each action; crashes and lost answers stutter.
* **Triggers.** `DeliveryInvariant` says where each committed row is on its way,
  that what was told to a coordinator is in force in every execution that follows,
  and that the plan a trigger came from travels before it (`PlanTravelsAhead`, over
  the order of the outbox and of each snapshot of it). `OnceInvariant` says that a
  wakeup is consumed when it is made and that an anchor of a heartbeat in hand or
  finished lies behind the clock and, between batches, behind the last anchor.
  A cooldown is kept because a pass waits for the longest one of the rules it
  applies: that the plan it asks is the one in force (`OnePlanIsKnown`) and the times
  it compares are numbers (`TriggersAreTimed`) is the invariant, the rest are lemmas
  on `ReconsiderAt`.
* **Capital.** `CapitalInvariant` has the order of the ledgers (`LedgerInOrder`,
  `GroupsInOrder`, `ReceiptsInOrder`), what an attempt has read and written at each
  `pc` (`RunInOrder`), that approvals, plans, groups and accounts come only after
  what they rest on (`ChainSoFar`), and whose account tells the exposure
  (`ExposureIsKnown`), which only a death inside the execution spoils.
* **Forecasts.** Router: a run past selection holds a fit account (`ChoiceIsFit`).
  Session: what the server said is in the pipe or read, its end last. Posterior: an
  execution that may still write answers for the first target of its seed, which
  fixes the others; it goes past a target only when the result it writes stands
  there, and no result is taken back (`ClosingInvariant`). Cadence: what a batch left is still to come (`NothingLeftBehind`).
  Spacing: the clock read under the lock is not before any admission. Streaks: world
  models are numbered in turn, the batch in hand is of the past, and each recorded
  observation was the source's latest at its time.
* **Records.** Each invariant says that a reader's memory between two of its steps
  is still what the store gives: the predecessor in hand is earlier than the state
  to be recorded, the poll's rows not yet stored are on its list, a preparation
  for a later time has read what an earlier one came for (`CausesAreRead`), a memory
  of an episode names a shock that opened it, a settled instant has no fact on its way.
  Packet: its facts are candidates, each of which has a position of its own, so
  that a removal takes one fact and a redundant one leaves its factors to others;
  that the recursive selection exists and takes candidates only is proved first.
* **Control.** Release: each group of processes has a supervisor that knows of it,
  in its hands, in the record or in what it waits for. Portfolio: of one exposure
  only one product is held, aimed at or planned; approval scales sizes down, from
  which lemmas on sums over finite sets give every limit. A switch is priced from
  what is held, and an exit changes that: the invariant keeps for every product
  left (`StaysLeft`) the one it was left for, the size it was left at, and that at
  this size the switch paid. With less held the product itself is worth less and
  its exit costs a smaller part (`NetGrows`, `ExitRatio`), so the switch still pays
  (`NotTakenBack`). Frozen data: a
  collection is true and covers what it read, wherever it is between two pages.
  Settlement: a
  pass has all that is overdue in hand or is full of what is as late. Capital value: what a key stands for is panels of the past, one for each slot of
  a producer (`KeyIsOfThePast`), so that markets that agree until now
  (`AgreesUntil`) give one replay; that the replay exists, takes each panel once in
  order and, while it is open, ends at the mark is proved first.
* **Account.** The books are a fold over the orders in the order of their keys, what
  they must agree with is a sum over the same orders. A fold in key order is
  unfolded at its last element (the keys of different orders differ), and what holds
  of the empty books and survives one more order holds of the books of every
  initial part of the order, so of all. What survives is, for each product and each
  sleeve, that a quantity is the sum of the signed fills, and that cash plus
  average times quantity of the perpetual is what was paid: an opening, a growing, a
  reduced and a reversed position each keep it (`RealizedIsMoved`). The books of a
  funding are taken from the increments of the orders, whose sum is what was
  filled by then. The trading cost books unit by unit; that the open units of
  one product in one sleeve are all on one side is what makes the last one the
  one to close, and what is not matched plus what is makes the cash flow.

### From which assumptions

Each `ASSUME` is named in its module and evaluated by TLC. Those that say more than
"a bound is a natural number":

* `LegsAssumption`, `QuantityAssumption`, `PriceAssumption`: a group has legs,
  finitely many, of positive quantity and price, as the constructors of
  `execution/group/models.py` demand.
* `PlansAssumption`, `CoordinatorAssumption`: plans, rules and times have the ranges
  of their validators; a rule asks for at most an hour (`scheduling/models.py:209`),
  so that of any set of rules there is a longest one.
* `CadenceAssumption`, `ProductAssumption`: there is a contract and a direction,
  and a slot can be made before its horizon ends.
* `PortfolioAssumption`: there is a product, with a side, a margin and limits.
* `PacketAssumption`: a state shows finitely many facts, each with an identity of its
  own, which is the last part of their rank in the source too.
* `IncrementAssumption`: the slots are finitely many and in an order, the one that
  `panel_id` gives to panels of one time.
* `ReleaseAssumption`: "no release" and "nobody" are not among them.
* `HistoryAssumption`: the identity of an event is none of the words that name the
  other causes of a recorded state.
* `AccountAssumption`: client ids of different legs differ, as hashes of group, leg
  and attempt; bids are positive.

`ProjectionFollowsFacts` has a hypothesis on the states, `AveragesAreWhole`: an
order was paid a whole average and a position that grows has one. The source
divides `Decimal`s of 28 digits, the model whole numbers; with an average that was
rounded the equality holds to the rounding only. TLC checks that it is true of
every state of the instance (`Control_more.cfg`); `SleevesAndDays` needs none.

### Only model-checked

* Liveness (`EventuallyEnds`, `EventuallySettled`, `PlanReachesCoordinator`,
  `FrozenEnds`): liveness under fairness and `ENABLED` are out of reach.
* The bound of the streaks in the type invariant of `BatchDispatch`.

The induction theorems of the library take an operator and cannot be used; what is
proved here by induction (over times, lengths, sizes of sets) is proved by a least
counterexample instead (`WFMin`). No module declares a recursive operator.

## 6. Findings

With a run of their own:

1. **A frozen batch thaws** (`trigger_frozen`). A transient failure while a
   frozen batch is retried clears the mark (`scheduling/workflows.py:210`); the
   triggers form a new batch with a later `created_at`, or expire.
   `docs/ARCHITECTURE.md:405` and `decision_cycle/trigger.py:630` require the
   same frozen batch.
2. **A retried capital decision trades twice** (`capital_idempotent`). After a
   crash between the start of a group and its execution account, the retry
   recovers the group and then reuses the account from before, because it has the
   same `as_of` (`capital.py:983`).
3. **A second group of writers** (`release_writers`). The supervisor starts its
   core services before it records them (`release_commands.py:619`); killed in
   between it leaves services that no record names, and the next invocation starts
   others. `docs/ARCHITECTURE.md:341` promises one group.

Refuted without a run in the manifest; each can be reproduced by giving the named
property to the module's own specification with the constants of the composition's
configuration, or those given:

| property | module | counterexample |
|---|---|---|
| `EachOnce` (constants of `Trigger_delivery.cfg`) | `TriggerCoordinator` | after continue-as-new a plan signal can arrive before `run` restores the seen ids; a redelivered trigger behind it is batched again (`workflows.py:102`) |
| `DecisionGetsReceipt` (constants of `CapitalCycle_retry.cfg`) | `CapitalCycle` | after a crash between plan or group and `_finish` the retry is a review, since nothing is pending any more (`capital.py:137`), and a review of an empty account writes no receipt |
| `OneExecutionPerAccount` | `CodexRouter` | a probe or a slow step delays the execution, so its lease (`router.py:232`, counted from `now` of the run) ends before it does and another router enters; `docs/OPERATIONS.md:84` promises one execution per account |
| `ResultIsUnique` | `ContextPosterior` | an abandoned execution inserts its Forecast after the slot was closed with NO_ESTIMATE, by way of different tables |
| `ObligationsAreClosed` | `ContextPosterior` | a builder dies after it recorded the obligations of a material event (`cause = "MATERIAL"`) and no later batch comes back to them |
| `RecoveryRebuildsTheSlot` | `PriorCadence` | a quote observed before the boundary reaches the database after the slot was recorded: the rebuilt slot has another cutoff quote and is refused |
| `Earned` | `BatchDispatch` | a batch is built again after a later packet was frozen: its tests look ahead to observations of that packet, or count one twice (`verification.py:39`, comment at 102) |
| `CurrentMeansStored` | `FactFeed` | the source client keeps the validator of a document before it is stored; after a failure the next poll is "unchanged" and coverage says CURRENT (`information/coverage.py:47`) |
| `GivenUpMeansUnread` | `FactFeed` | a value is read but not projected when its release is given up; the mark is later than the value, so the value is refused for good (`docs/WORLD_COGNITION_DESIGN.md:85`) |
| `ReportedOnce` (`MaxNow = 4`, `Events = {}`) | `StateHistory` | a preparation that read before the first revision of a fact was committed records behind a state that has it (`_require_state_dependencies`, `state/repository.py:360`, looks only for what a state references); the next state reports that revision again. `ReportedOnceUnlessLost` is what holds |
| `DismissedWasAnalysed` | `StateHistory` | a state recorded for another cause carries an event into the history without a packet; its own preparation then finds nothing material |
| `WakesForNews` | `InformationFeed` | the slow route is dated by the start of the collection and does not see the fast one, stored first |
| `PageStaysShown` | `InformationFeed` | a title-only reading after a restart replaces the richer text in what is shown (`information/models.py:249` says it must not) |
| `ValidatedIsStored` | `InformationFeed` | a validator is remembered although the event was not stored |
| `DetailsDoNotBreakPolls` | `CalendarLedger` | only the details of a buyback row change: its record reuses a revision of another observation, and every later poll of the calendar is refused (`information/official/repository.py:303`) |
| `OneDayIsADay` | `MetricSeries` | the change of a fund's page is against the last day read, whatever lies between |
| `RetainedEventsStay` | `PacketSelection` | removal does not know which events the previous context still holds active |
| `UnreportedAreMadeUp` | `MarketFeed` | a shock the sink could not record opened its episode all the same |
| `PastIsStable` | `MarketStore` | a fetch observed before an instant puts its facts after it was read; hence `ReadsAreStable` speaks of settled instants |
| `PanelsAreWhole` | `ProductForecast` | with two directions, a recording that died leaves half a panel that the evidence counts (`forecast/product/repository.py:255`; `docs/ARCHITECTURE.md:193`) |
| `FundingAgrees` | `ProductForecast` | a funding exactly at the end is expected and not counted, one at the start counted and not expected (`market/repository.py:1042`) |
| `ReadNeverRaises` | `CapitalIncrement` | a slot closed after its own end, or two panels available at one time, make the reader raise |
| `NoEstimateIsCompared` | `CapitalIncrement` | after one settled NO_ESTIMATE of the prior the reader awaits a forecast for ever (`docs/ARCHITECTURE.md:317`) |
| `LateFundingIsCharged` | `CapitalIncrement` | a funding observed after the step that follows it lies in no later window (`producer_capital.py:286`) |
| `ProjectionSucceeds` | `AccountProjection` | a spot target and its compensation of one `run_once` are observed at one instant; `_latest_orders` and `_incremental_fills` order them by their client ids, which are hashes, and if the sale comes first the projection raises (`accounting.py:379`, `465`, `506`), although `_visible_order_history` has them in order |
| `StoringAgainSucceeds` | `FrozenHistory` | two commands store one dataset at once; quotes and series collected again later have the same id and another manifest (`quote_dataset.py:121`, `economic_series.py:153`) |
| `AllowedWindowIsCovered` | `FrozenHistory` | `requested_end` may lie past the last bar collected (`dataset.py:217`) |

`PanelsAreWhole` and `FundingAgrees` need `Sources = {1}`, `Available = <<0>>`,
`HorizonEnd = <<3>>`, `Cutoff = <<0>>`, `Directions = {1, 2}`, `BatchSize = 2`,
`MaxRuleAge = 9`; `LateFundingIsCharged` needs `Slots = {1, 2}`,
`SlotAt = <<0, 1>>`, both of the cadence, `Contracts = <<{1}, {1}>>`, `Lag = 1`,
`Horizon = 2`, `FundingAt = {1}`, `LastInstant = 3`; `ObligationsAreClosed` needs
`Causes = {"MATERIAL"}`.

Seen in `ReleaseControl` without a property: a planned stop of a first release, or
of a restart of the same one, leaves a record in STOPPING with nothing to fall back
to, and every later `operate-release` is refused for it (`release_commands.py:601`);
a candidate that waits on a stale record overlooks a group its predecessor
recovered to, if that predecessor is killed.

## 7. Abstractions and limits

* Execution: prices are equal and constant, attempts and faults bounded, orders
  accepted atomically as the shipped venue does. `as_of` values are ticks.
* Triggers: ids do not tie, seen ids are not dropped after 5000, `stop` is never
  sent, a patch has one operation, reading a plan and starting the coordinator is
  one step, admissions appear as deferrals of a build, and being behind schedule
  is counted up to two intervals.
* Capital: one sleeve of one unit, so targets and trades are 0 or 1 and a partial
  fill shows as either; a batch is its `created_at`, which is also its cause; an
  attempt does not overlap another, which `_build_lock` and the single release
  writer give; only the coordinator of `owner_symbol` reaches the service; the
  policy is enabled and equity positive; quotes are fresh and aligned, as missing
  ones defer the batch before. Which target, approval or review comes out is a free
  choice within the rules that bind them, and made anew on a retry: rows visible at
  one `as_of` may still be committed after it. The manual production with a later
  `decision_at` is not modelled.
* Forecasts: an answer is the execution it came from; the ranking of accounts is a
  free choice; a world model has one mechanism with one test of one source. A
  time is a cadence period in `PriorCadence`, a minute in `BatchDispatch`.
* Records: a version, a text, a row or a price is a small number or a set of
  fragments; parsing of pages and claims is left out except for what makes a parser
  refuse a document or choose a row. Months, years, windows and counts are scaled
  down. How often a trade is persisted does not matter to the detector.
* Control: sizes are quantity steps, values basis points times size, compared by
  cross multiplication as the source divides; stress scenarios are left out. The
  engine scales all loads alike and rounds each size down, so that rounding on one
  side may leave the net over its limit by less than one step for each exposure of
  that side; `ApprovedIsHoldable` allows just that. In the run one exposure is
  against the other, where the allowance is nothing and the limit is met exactly.
  Product quote, market state and spot quote have one maximum age and are one feed.
  The capital algorithm of a replay is taken at its simplest. A path is what it
  held and was charged, without prices. A crash of a command leaves its temporary
  directory, which no reader sees. In `AccountProjection` money is whole and the
  bids of the instance divide by what is averaged: the source divides with 28
  digits, so that the exact comparison of `portfolio/evaluation.py:335` can fail by
  the last of them. The trading cost is taken of all fills, not only those of ended
  groups; high water, slippage and the loss of compensations are left out.

**Not modelled**, with the reason in `components` of `PROJECT.json`: numeric
optimisation and stress scenarios; contracts of prompts and
answers, statistics of evaluation; parsing; external I/O; read models and the
dashboard (`entrypoints/dashboard`), command parsing; research studies
(`research/reference.py`, `carry.py`) and reference selection; table definitions
and migrations; settings. What remains of the package outside the map is of these
kinds: frozen value classes with their validators, SQL expressions, rendering.

## 8. Plan

What could be added: `PriorCadence` and `ContextPosterior` as the source of the
capital cycle's panels.
