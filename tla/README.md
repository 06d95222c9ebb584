# A verification project for SolanaMemecoinBot

The repository is a paper-trading laboratory for Solana memecoins: a live
collector writes on-chain trades to a SQLite database, a strategy (FirstPullback)
watches each mint, and a restart-safe runtime enters and leaves *paper* positions
under a locked cost model.  What makes that runtime hard is not arithmetic. It is
a chain of small stores, each with its own `commit()`, which must agree after a
crash at any line, while every source item is delivered at least once and every
module *fails closed* (raises, for ever, because the same item is delivered
again) when it finds rows it did not expect.

The modules below model that chain, what feeds it (the live collector), what owns
it (the phase 6 collection) and what watches it (the phase 5 shadow sidecar).  TLC
checks them on small instances, and TLAPS proves the safety of the entry, the exit, the
binding, the collection, the sidecar and the collector for every value of their constants.
Paths are relative to the repository; `phase4/` stands for `src/phase4/`, and so on.

## 1. Inventory

| Component | State it keeps | Operations | What is hard | What makes it correct |
|---|---|---|---|---|
| Live collector (`scripts/live_pump_collector_v0_3_4.py`) | observations, `pump_events`, confirmation, deep and gap jobs; *in memory*: pending gap, last slot, the stop flag | insert events, reconnect, confirm, enrich, reconcile a gap, drain at the end | gap forgotten by a restart, notification or block cut off by a crash or an exception, an error taken for the end before the cluster confirmed one, queues that starve, workers that leave while another waits for their queues | what a broken stream missed is recovered or owed; launches enriched when settled; a clean report leaves nothing |
| Market source v0.1/v0.2 (`phase4/paper_continuous_market_source_*`) | rowid cursor, registry cache | `read_batch`, `latest_p1_rowid` | rows appended between two reads, cache staleness | no row skipped, none twice |
| FirstPullback strategy and clock (`phase2/strategy_first_pullback_v0_2.py`, `strategy_clock_v0_2.py`) | phase of each mint and role | evaluate, finish at deadline | clock against row at the deadline | one outcome per run |
| FirstPullback binding v0.1–v0.5 (`phase4/paper_continuous_firstpullback_binding_*`) | durable rowid cursor, plans of inputs, runs, winner lock, evaluation ledger, outbox, prepared timers | `process_next_batch`, `prepare_clock_tick`, `execute_prepared_timer`, `drain_and_execute_prepared_timer` | batch rollback, timers racing rows, crash between delivery and its mark | the runner sees the causal order, once |
| Continuous runner v0.1/v0.2 (`phase4/paper_continuous_runner_*`) | committed source cursor, signal contexts | `process_source_item`, restart | at-least-once delivery, healing of the audit | outcome independent of crashes |
| Entry router v0.1/v0.2 and deadlines | routes, per-track deadline ledger | route candidate, expire, settle, heal | expiry racing settlement on one observation, half-written tracks | each track ends once, inside its window |
| Paper lifecycle store | orders, positions, events | create, mark, fill, reject, request exit, close | replay with another instant raises | state machine never goes back |
| Exit orchestrator, bridge v0.3, fill executor | track states, intents, exit routes, attempts | bind, observe, clock, apply, attempt, finalize, recover | marks written before what they decide | the exit rule's decision survives crashes |
| Audit store, observability binding v0.1/v0.2 | evaluations, terminal decisions, marks, equity | append, determinism check | decision and route are separate commits | audited exactly once |
| External observability registry | runs, heartbeats, terminal record | register, heartbeat, terminal | heartbeat after the terminal record | terminal is irreversible |
| Multi-hour harness (`scripts/phase4_continuous_firstpullback_multihour_run_*`) | loop state | poll, tick, watchdog, stop | watchdog races a late row | a stall is noticed |
| Shadow execution (`phase5/shadow_*`) | append-only requests, lineages, two source cursors, call journal, inventories, comparisons | bridge entries and exits, execute, materialise inventory, compare, classify after a restart | three commits per row, replayed verdicts, starving backlog, exits before their entries | each paper event shadowed once, with the verdict of its journal |
| Frozen OOS collection (`phase6/frozen_oos_collection_lifecycle_v0_1.py`) | journal of segments, claims, owner; lock, stop and handoff files | arm, launch, claim, turn, catch up, record, end, status, stop, resume, extend, finalize | claim deadline races the worker, a killed process in a locked section, state and handoff in two writes, a finalize that saves a stale journal without the lock | one writer, a journal that verifies, timers inside the window |
| Cost and impact models, trade accounting, phase-3 exit engines | none (pure) | integer arithmetic, offline rules | rounding, overflow of caps | equal to a rational reference |
| Replays, outcome analysis, research and audit pipelines, OOS evaluation | none while running | batch programs | — | out of a model checker's interest |

How they interact: the collector appends rows to a database the binding only
reads.  The binding turns rows and prepared timers into an outbox whose event
sequence numbers *are* the runner's source cursors, and delivers it item by item.
The runner dispatches an item to the entry router, then to exit orchestrator,
bridge and executor, records the audit and commits its cursor last.  All the
stores share one paper database.  Under the bindings v0.1–v0.4 every `commit()`
of every store is real; under v0.5 the connection of a batch of market rows
swallows them and the batch commits as a whole, while timers still commit
statement by statement (`phase4/paper_continuous_firstpullback_binding_v0_5.py`
lines 60–136, 249–279).  Phase 5 reads the paper database after the fact; phase 6
owns the worker process that drives the binding.

`PROJECT.json` lists every component with its status, and 40 hazards with the
line where each bites and the properties that would show it going wrong.

## 2. Modules

| Module | What it is |
|---|---|
| `EntryPromise` | what paper entry promises: a track expires alone, or is settled with all open tracks by one observation inside their windows |
| `EntryRouter` | runner dispatch, entry router v0.2, deadline ledger, orders, route, audit decision, crashes and restarts |
| `EntryRouter_proofs` | the theorems about `EntryRouter`: safety, refinement, what `EntryEnds` rests on |
| `LeastNumber` | two lemmas: a nonempty set of naturals has a least element, a finite one an element at every place |
| `ExitPromise` | what paper exit promises: every position leaves once, for its rule or its fallback, and is closed later than the latency |
| `ExitTracks` | exit orchestrator, exit bridge v0.3, fill executor, positions, with and without the batch transaction |
| `ExitTracks_proofs` | the theorems about `ExitTracks`: safety, refinement, what `FallbackEnds` rests on |
| `FencePromise` | what a timer promises: after every row up to its watermark, before any row beyond |
| `FirstPullbackBinding` | cursor, plans, winner lock, evaluations, outbox, timers and fences; bindings v0.4 and v0.5; two drivers of timers |
| `FirstPullbackBinding_proofs` | the theorem that every timer and row keeps the fence |
| `FirstPullbackLedger_proofs` | the theorems that nothing is lost, that no check raises, that a mint has one winner, that the runner sees the causal order, and what `DrainEnds` rests on |
| `OOSLifecycle` | phase 6: launchers, worker, journal, lock, stop, handoff, window |
| `OOSLifecycle_proofs` | one writer, journal, window, handoff, why a record fails a run |
| `ShadowExecution` | phase 5: both source lanes, the cycle, journal, inventories, comparisons, restarts |
| `ShadowExecution_proofs` | the bridged rows, exits against their entries, and how far an intent is along its pipeline |
| `LiveCollector` | the collector: stream, confirmation, enrichment, gaps, ends |
| `LiveCollector_proofs` | the theorems about `LiveCollector` |
| `MC*` | small instances for TLC |

### Convention shared by the modules

*One action is one committed transaction.*  The code's loops re-read the database
on each pass, so the only volatile state a handler needs is `stage` (and, for the
exit, `turn`; for the binding, `input`, `limit` and `request`).  `Crash` may fall
between any two actions and throws that state away; `Restart` is what the
constructors do.  A fail-closed check of the code is a guard of the action it
protects, and its negation is stated by `NeverRaises`: a state where the check
would raise is a violation (and in `ExitTracks`, where deadlock is checked, also a
deadlock).  Each module has "Mistake" operators next to the definition they
distort; they are the plausible bugs against which its properties were tried, and
nothing else uses them.

### EntryRouter

One candidate, followed by the market row it came from, then any market
observations and clock ticks.  `order` is the lifecycle's order table; `fill_order`
fills the order and opens the position in one transaction, so a `FILLED` order is
an order with a position.  `ledger` is the deadline ledger, `route` the entry
route, `context` the signal context, `audit` the terminal decision, `committed` the
runner's cursor; `item` is the item in flight, which is delivered again after a
restart because the cursor is committed last.  `InsertRoute`, `CreateOrder`,
`MarkEntryPending`, `RouteEntryPending` and `InsertDeadline` are the commits of
`route_candidate`; `RejectExpired`/`RecordExpired` the two commits of `_expire_due`
for a track; `SettleOrder`/`RecordMarketTerminal` those of a settlement;
`FinishExpiry`/`FinishSettlement` end the two loops with `_finish_terminal_route`;
`RecordDecision` heals the audit; `CommitCursor` ends the item.

Notes on faithfulness.  Every table is keyed by the candidate's route, so one
candidate is a projection of any number of them.  Item 2 is the candidate's own
market row, which the code skips by its `ingest_seq` guard.  Nothing orders the
instants of the source, neither here nor in the code.  A price is abstracted to the
verdict of the cost model: fills, exceeds the slippage cap, or unusable (gap
recovery or a foreign price identity).  `expected` is a history variable: what the
committed items decide by the rules when nothing crashes.  `RunnerRestart` selects
which constructor restarts the process: `FALSE` the router's (which heals the
route), `TRUE` the runner v0.2's as well, which rebinds the exits and refuses to
start when a position's route is not `FILLED`; the latter is the finding
`entry_rebind`, so the passing run and the proofs about what the router guarantees
under repeated crashes use any value, and TLC `FALSE`.

### ExitTracks

The opened positions of one candidate.  `position` is the lifecycle's row, `track`
the orchestrator's (bound, last seen mark, last fresh mark, trail active, peak),
`intent` the exit intents, `exit` the executor's routes, `attempt` the last
execution attempt.  `BindTrack` … `Bound` is `bind_signal`; `Ignore`,
`FireFallback`, `SeeObservation`, `SkipUnusable`, `RecordFresh`, `ExitByRule`,
`MoveTrail` and `Hold` are the branches of `on_market_observation` and `on_clock`;
`RequestExit` is the bridge; `OpenRoute`, `PersistAttempt`, `StageSelectedFill`,
`ClosePosition` and `FinishRoute` the executor's commits; `Recovered` and
`Rebound` its recovery and the runner's rebinding.

`Atomic` chooses the binding: `FALSE` is v0.1–v0.4, `TRUE` is v0.5.  With `TRUE` a
crash during a market item rolls back to `saved`, and the source may then deliver
*any* rows, more than the code allows (there the rows after the cursor are the
same): the properties hold for the larger set.  A market item may continue the batch or
begin a new one; a clock item begins after a commit.  `SourceEnds` lets the bounded
source stop, so that a deadlock is a handler that raised.

### FirstPullbackBinding

One mint.  `source` is the collector's table and grows at any time (rowids are
dense); what the strategy says of a row (`WAIT`, `SIGNAL`, `FINISH` for each role)
is the row's own data, so the model explores every strategy and every price path.
`inputs` is the plan of each row and timer, `runs`/`won` the runs and the winner
lock, `unaudited` the evaluation ledger, `outbox` the outbox, `timers` the prepared
timers, `accepted` the runner's committed cursors in their order.  `PlanRow` and
`PlanTimer` are the one transaction of `_persist_input_and_events`; `ReplayRow` and
`ReplayTimer` find a plan made before a crash; `DeliverEvaluations`,
`RunnerAccepts` and `MarkDelivered` drain it; `CompleteRow` moves the durable
cursor.  Skipped rows go through the same stages with no evaluations and no events.

`atomic` is chosen in `Init`: `FALSE` is v0.4, `TRUE` is v0.5, whose batch keeps
what it would be rolled back to in `saved`.  `Driver` is who drives a prepared timer:
`DRAIN` the binding's own active drain, which heads for the least active fence and
runs the timers there in key order; `GRACEFUL` the loop of the phase 6 worker, which
heads for its own timer only.  `TickAgain` requests a timer that is still
incomplete again, as after a restart.  The timer keys of the callers sort in the
order of preparation, and the model takes them so; with keys that sort otherwise a
timer interrupted after its plan would fall below the runner's cursor
(hazard at `…binding_v0_4.py:328`).

### OOSLifecycle

One run.  `state` is `lifecycle_state.json` (life, target, cursor, watermark, row
count, coverage, the active process, the segments), `handoff`, `lock` and `stop` the
other files, `paper` and `source` the two databases as far as the lifecycle reads
them.  An action is what runs between two points where another process may intervene:
a section under the lock, a commit, a write of the stop file, or a read acted on later.
`PrepareSegment`, `Spawn` and `GiveUp` are a launch; `ClaimSegment` the worker's first
section (`Resume`, `ClearStop` and `PrepareSegment` are apart, because the launcher
holds the lock for the last only); a turn of the worker reads (`SeeRows`, `SeeCatchUp`, `SeeEnd`, into `seen`),
drives (`MainWork`, `CatchUpWork`, `DrainFinal`) and records (`Record…`) as separate
actions; `RemoveStop` unlinks the stop file and `EndSegment` and `FailedStartup` close the
segment.  `Status`, `RequestStop` (which writes its file any time after its status found a
process), `Extend` and the finalize (`WriteHandoff`, `Freeze`) are the operator.  A finalize
that finds a handoff takes no lock: `ReadForAdoption` (:1595) puts the journal it read into
`copies`, and `AdoptHandoff` (:1603) saves one of these copies at any later time, whatever
status, resume, claim or extend have written in between; `AdoptLocked` is the same under the
lock (:1607).  `copies` is a set, so any number of such commands may be under way, and one
that dies simply never saves.  A lock that stays busy ends the command (`LauncherBlocked`) or
the worker (`WorkerBlocked`: a record raises, a claim or an end is given up).
`Killed`, `LauncherDies`, `WaiterDies` and `FinalizerDies` kill a process anywhere, with
the lock in its hand (`STUCK`) or not; `WorkerFails` is an exception in the worker.  Time is in whole periods of the window, so that every
comparison of the code with the target can go either way.  A drain is one step here:
its inside is `FirstPullbackBinding`.

### ShadowExecution

One action is one commit of the shadow database, or a read the cycle acts on later.
`contexts` and `exitRows` are the paper database, which grows at any moment; `lineage`,
`cursor`, `evidence`, `exitCursor` the two lanes; `hist`, `kept`, `answer`, `failure`,
`integrity` what is persisted of an intent; `work`, `inventory`, `heads` the sidecar's
own book.  `Pipeline(i)` is the sequence of steps that the answers so far determine
for an intent; an intent is executed by running that sequence from its start, and a
step that is durable already changes nothing (`Pending` are the others).  That is how the
code resumes (its
`persist_*` calls are idempotent and its journal returns what it recorded), and why a
restart can come to a verdict twice.  Questions to the network are answered by any
member of `Answers`, among them an actor read whose accounts do not decode (`malformed`,
:307–319: a `ReplayConflict`) and one that allows no plan (`unplannable`, :320, :356).
`Compare` stands for two commits, the comparison (:459–461) and the advance of its scan
(:474–475): the first is idempotent, so a crash between them repeats it.  `Crash` falls between any two actions, `Mishap` is an exception
that is nobody's answer; `abort` remembers the exception that left the last process.

### LiveCollector

Four tasks in one event loop: an action is what a task does between two awaits.  A
process may die inside it after any of its commits (`Dies`), and an exception may cut it
off there without ending the process: in a notification the listener takes it for a
disconnect (`Interrupted`), in a block the gap job is put back (`FailInBlock`), in a
batch of statuses all its jobs are (`Statuses`).  `cut` remembers the signatures left
half handled.
`Chain` is what the cluster processes, with forks (a signature that lives nowhere, or
at another slot) and failures; `tip` is how far it has confirmed, which moves by a whole
slot at a time.  `pending`, `last`
and `next` are the listener's memory; `observed`, `event`, `enriched` the tables;
`confirm`, `deep` and `gaps` the job queues, `created` their order; `asked`, `fetching`,
`reading` what the workers await.  A gap job reads its slots one by one, so a block may be
confirmed, or another worker may act, in between.

The queues are served as the code serves them.  A job put back is `RETRY` until it is due
(`ConfirmationsDue`, `LaunchesDue`, `GapsDue`: it is `PENDING` again), for a delay has no
length here.  `Batch` is the `BatchSize` oldest confirmations that are due, and the answer
settles a signature as failed for an `err` at whatever commitment (`Erring`, `Told`);
`premature` remembers those settled before the cluster confirmed an end.  The deep worker
takes the oldest launch that is due and puts it back when its confirmation is open
(`PutBack`); `Patience` is how many it can put back before the first is due again (2 s
against 0.25 s per launch, so 8 in the code).  When the run ends each worker leaves by
itself, as soon as no job of its queue is due (`ConfirmerLeaves`, `EnricherLeaves`,
`ReaderLeaves`), and the run is over when all have `left`.

`missed`, `abandoned`, `overlooked`, `cut` and `premature` are
history variables: they name the exceptions that the code really has, so that
`GapsCovered` and `CleanMeansComplete` can be exact about the rest.  `JobsFinish` names
the jobs nobody finishes by what starves them: `Unanswered` are those of dropped
transactions, those behind a full batch of them, and all once the confirmation worker has
left; `Unfetched` likewise.

## 3. Runs

| Run | Shows | Instance | States |
|---|---|---|---|
| `entry_router` (pass) | eight properties of the entry, with three crashes | 3 tracks with the code's pattern of windows (two equal, one shorter), 6 items, instants 0–5 | 21,880 |
| `entry_rebind` (violation) | the runner cannot be constructed after a crash between the first fill and the terminal route | 3 tracks, 3 items, 1 crash | — |
| `exit_atomic` (pass) | under v0.5 no crash loses or moves a trigger or a fill; the fallback ends every holding | a take-profit and a trailing track, 3 items, instants 0–4, 2 crashes | 489,587 |
| `exit_statements` (pass) | under v0.1–v0.4 no check raises, a close is that of its accepted attempt, the exit promise is kept | the same | 860,200 |
| `exit_lost_trigger` (violation) | under v0.1–v0.4 a crash loses a take-profit | the same, 1 crash | — |
| `exit_lost_fill` (violation) | under v0.1–v0.4 a crash loses an accepted fill | the same, 1 crash | — |
| `binding_drain` (pass) | causal order, nothing lost, one winner, fences, drains end | 2 roles, 2 rows of 4 kinds, 2 timers of 2 kinds, batches of 2, 2 crashes, v0.4 and v0.5 | 255,122 |
| `binding_worker` (violation) | the phase 6 drain polls for ever behind a timer of a dead segment | the same, v0.5, 1 crash | — |
| `oos_lifecycle` (pass) | one writer, a journal that verifies, the handoff agrees, timers inside the window, the one way to fail without a fault, dangling segments resolved; stale saves included | 2 launchers, 2 segments, 2 rows in batches of 1, 1 extension, 1 mishap (a kill or an exception), any number of stale copies | 1,053,657 |
| `oos_catch_up_stop` (violation) | a stop during the catch-up makes a healthy run `INVALID` for ever | 1 launcher, 2 segments, 2 rows, nothing fails | — |
| `shadow_execution` (pass) | cursors tell what is bridged, verdicts follow the journal, exits follow their parents, exceptions are explained, everything observed | 2 entries, 2 exits, all answers for the first, cycles of 2, 1 crash, 1 mishap | 956,311 |
| `live_collector` (pass) | gaps covered or owed, enriched only when settled, clean reports are complete, jobs and runs end but for starved queues and hung ends | 4 inclusions of 3 signatures, batches of 1, patience 1, span 2, backlog limits 1 and 0, 2 faults (breaks, exceptions, ends, bad answers) | 432,483 |

Why the bounds are enough.  *Tracks*: the code has three; windows differ in two
values, so that one track can expire while its siblings settle, and two behave
alike.  *Items*: after the candidate and its own row four items remain, enough to
expire one track, settle the others and go on with items that must change nothing;
for an exit, one item triggers, one fails or fills, one comes too late.
*Instants* cover before ready, ready, inside the short window, its deadline, its
expiry instant, and past every window.  *Crashes*: the second falls on a replay of
the first, the third on a replay of that; all the handlers are idempotent loops,
and a further crash meets only states seen before.  *Binding*: two rows and two
timers give a fence before, between and after rows, two timers at one watermark
and at different ones; it was also run with three rows and one crash
(966,166 states).  `MaxTime`, `MaxItems`, `MaxRows`, `MaxTimers`, `MaxCrashes`,
`Returns`, `Feed` and `Ticks` are the only bounds of these modules.

*Collection*: two launchers race for one claim, a second segment resumes what the
first left, two rows make a batch that is not the last one, one extension moves the
target once after it was read.  A second mishap meets a journal that a first one left,
which every command starts by reconciling.  *Shadow*: two entries and two exits give
both orders of bridging and an exit whose parent failed; the second intents have fewer
answers because what they decide is only whether the first one's exit may run.
*Collector*: the chain has a launch that fails on a fork and succeeds later, a launch the
cluster drops in between, and a trade that ends the gaps.  A batch of one job stands for
64, so that one dropped signature starves every younger confirmation or does not; a
patience of one for 8; limits 1 and 0 stand for 128 and 8, so that one dropped
signature stalls or does not stall the gap worker; the span of 2 makes one gap too wide.
Two faults give a break and what a second one, an exception, a late answer or an end of the
process does to its gap.  Starving by launches put back needs two dropped launches older
than a third, and is out of this instance.  The module was also run with a fifth inclusion,
which shares its slot with another: the safety properties with two faults (1,632,006
states), `JobsFinish` with one fault and a patience of 1 and of 0 (129,199 and 129,644).
`BatchSize`, `MaxSegments`, `MaxRows`, `MaxExtensions`, `MaxMishaps`; `NumEntries`,
`NumExits`, `Answers`, `CycleLimit`, `MaxCrashes`; `Chain`, `BatchSize`, `Patience` and
`MaxFaults` are the bounds.

Deadlock is off for the entry, the binding, the collection and the collector, whose
bounded sources simply end; for the exit and the shadow sidecar it is on.

Fairness.  `WF(Handler)`: a process that has begun an item runs its handler to the
end unless it crashes, as sequential Python does.  `WF(Restart)`: the operator starts
the process again; the documents of phases 4 and 6 rely on it.  Nothing obliges
the source to deliver, the collector to append, the clock to tick or the host to
crash, and crashes are bounded, so the liveness properties begin with an item already
in flight.  For the binding only the handler is fair: `DrainEnds` lets a crash end
a cycle.  For the collection, live workers and launchers go on, the deadline of a
claim passes, a launcher gives up waiting, and the operator keeps asking for the
status, which is what closes a dangling segment (the lifecycle document says "on the
next status/resume operation"); `DanglingResolves` excepts the lock of a dead holder.
For the sidecar and the collector the process is started again after it ends, their
tasks go on, and the cluster goes on processing, so that a slot it began ends and is
confirmed or dropped.  Each worker of the collector is a task of the event loop that
runs on, and so are its delays: a job put back is due in the end.  That a worker whose
queue has only retries left finds none due when it looks, and leaves, is fair in the
strong sense (`SF(Leaving)`), for a retry that is never settled is due and waits in turn;
more retries than a worker gets through before the first is due again give it no such
moment, which `JobsFinish` counts as a run that hangs.  The delays are taken to be
longer than the calls of the RPC, as they are unless these are very slow.

## 4. What disagrees with the documents

Five runs are expected to end in a violation; `PROJECT.json` quotes the lines.

1. `entry_rebind`.  The runner's constructor requires the route of every position to
   be `FILLED`, but the route is written after the last track.  A crash in
   between makes every later construction raise, before the item can be redelivered.
2. `exit_lost_trigger`.  `last_seen` is committed before the decision, so the
   redelivered observation is an `EXACT_REPLAY` and its trigger is lost.
3. `exit_lost_fill`.  The accepted attempt is committed before the route is staged,
   so the redelivered observation is an `ATTEMPT_REPLAY` and stages nothing.
4. `binding_worker`.  `graceful_timer_drain` never runs an earlier incomplete timer
   and has no deadline: after an abrupt end of a segment the next one polls for ever.
5. `oos_catch_up_stop`.  A stop during the catch-up drains the remaining rows but records
   the row count read before that drain; the resumed segment records the same cursor
   with another count, which `record_progress` takes for a contradiction: the run is
   `INVALID` for ever.  The code migrates such a state only for one named run.

The batch transaction of the binding v0.5 removes 2 and 3 (`exit_atomic`).  By the same
reasoning it hides 1, whose writes all belong to one market row; no run composes the
two yet.  The drain of v0.4 does not have 4 (`binding_drain`).

Met while modelling, described here without a run of their own.  In the collection
(`phase6/frozen_oos_collection_lifecycle_v0_1.py`):

- a process that dies inside a locked section leaves its lock file for ever (:251), and
  with it every later command, against the recovery its document promises (:32);
- `status` or a claim after a `finalize` over a pending or dead active process thaws
  `FROZEN` to `STOPPED`; a `finalize` whose second write fails leaves a handoff with an
  unfrozen state (:1620).  `HandoffAgrees` says how far the two may differ;
- a `finalize` that finds a handoff reads the journal without the lock (:1595) and saves that
  copy later (:1603).  After a handoff over a dead owner, a `status` that thaws the run, then
  this read, then a `resume` and a claim, the save erases the segment of a live worker, which
  goes on writing the paper database until its next record raises; an extension or a failure
  recorded in between is lost as well.  The state `CutOff` names what such a save leaves, and
  `OneWriter` and `WithinWindow` hold up to it; two writers never arise, because a frozen run
  prepares no segment;
- a second concurrent `resume` removes a fresh stop request;
- coverage `COMPLETE` may be recorded although the timers were not driven to the target.

In the shadow sidecar (`phase5/shadow_lifecycle_bridge_v0_1.py`,
`shadow_continuous_execution_v0_1.py`):

- an exit row that is bridged before its entry ends the process (:1053) and heals on
  the next start; the selftest tries only the order entry, exit (:302–306);
- a crash between the commit of `COMPLETED` and its `done` mark makes the inventory
  look missing (:1408–1411), which another restart heals; the selftest expects it
  there at once (:307);
- an entry that completed with an integrity failure (:398–402) is marked as having
  its inventory and has none, so that the exit lane waits for it;
- a crash between `FAILED` and the `done` mark lets the handler meet its own terminal
  state; when what failed the intent is a `ReplayConflict` (an actor read that does not
  decode), which is a `ShadowDeterminismConflict` (:57), it is now marked as unsound too
  (:366).  Without the crash the same answers leave no mark (`VerdictFollowsJournal` says
  when it may happen, and that it happens to no other failure);
- an exception and then a crash between the `failure` record and its `done` mark raise
  `ReplayConflict` on every later cycle.  `AbortsExplained` lists these causes, and no other.

In the collector (`scripts/live_pump_collector_v0_3_4.py`):

- the gap worker waits for its backlog limits without looking at the stop flag
  (:1419–1424), while the other two leave as soon as no job of theirs is due
  (:1605–1607, :1869–1871): a gap job that is due then waits for queues nobody works on
  any more, and the drain outlasts `--drain-seconds` (help :2640) for ever;
- signatures that a fork dropped are polled for ever and count as backlog (:55).  A
  batch is the 64 oldest jobs that are due (:1057), so that as many dropped signatures
  starve every younger one, and about nine launches of them occupy the deep worker, which
  takes the oldest launch and puts it back (:1703, :1888–1897);
- an `err` settles a signature as failed at whatever commitment it is reported (:1634), be
  it on a fork: its rows are wrong until, if ever, a gap read makes them confirmed (:1526).
  `premature` names these signatures;
- an exception amidst a batch of statuses puts all its jobs back, also those it has
  settled (:1674–1680), which are asked about again;
- a gap is lost if the process ends between the disconnect and the next notification
  (:2335), the slots of the process's own downtime are never reconciled, both ends of
  a gap are left out, and slots that are unconfirmed or null when read are skipped
  although the job becomes `DONE` (:1460, :1464–1466), against the comment :49–52;
- a failed observation on a fork makes the later success a duplicate (:2209), and a
  crash or an exception between the observation and its jobs loses them (:2209–2307,
  :2330); so does one amidst a block, whose retry finds the launch row present and queues
  no deep job (:1520–1535, :1558);
- a gap of more than 512 slots is retried for ever (:1436);
- `stats['legacy_v0_2_jobs_ignored']` (:2564) is no key of the statistics, so that the
  final summary is not printed.

In the external observability: a run that fails closed never becomes durable, so that
no finalization is attempted and its row stays `RUNNING`, against
`docs/phase4/PHASE4_EXTERNAL_READ_ONLY_LIVE_OBSERVABILITY_V0_1.md`.

## 5. Proofs

All proofs are for any number of tracks, rows, timers, segments, launchers, items and
crashes, from the assumptions the modules name: constants are natural numbers, or sets
and functions of them, and `NONE` of the sidecar is none of the words it stands beside.

`LeastNumber` proves the inductions the others need: a nonempty set of naturals has
a least element, and a finite one has at every place of its order one member, which is
how `ShadowExecution` reads its work in order.  The first follows from the library's
well-foundedness of `<` on the naturals by the theorem on minimal elements, which takes no
operator; it finds the track with the longest window, and the earliest fence.

`EntryRouter_proofs` proves:

- `Invariance`: `Spec => [](TypeOK /\ Inductive)`, and its parts `TypeCorrect` and
  `InductiveHolds`;
- `LedgerAgreement`, `Determinism`, `Audited`, `FailClosedChecksPass`: the four
  safety properties of the run;
- `Implements`: every step of the router is a step of `EntryPromise` or a stutter.

Why the safety properties are not inductive: each speaks of the moment between two
items, or of the tables alone, and says nothing of an item half done.  `Inductive`
relates the tables to what the *item in flight* decides (`Fate`): `TrackInv` says
each track is either undecided and untouched, or at one of the points order written,
ledger written, cursor committed; `HalfInv` that only the first track of the
loop can be half written; `SettlingInv` that settlement begins only when nothing is
due any more, on which `FatesSound` rests; `ExpectedInv` that all market-settled
tracks share one observation; `RouteInv`, `DoneInv` and `AuditInv` tie route and
audit to the ledger.  `InductiveStep` has a lemma for each group of actions.  The proofs
do not depend on `RunnerRestart`: refusing to restart removes behaviours only.

What `EntryEnds` rests on is proved too.  `NothingTakenBack`: orders, ledger rows and the
route only advance, the context and the audit decision are written once, through every
crash and redelivery.  `HandlerNeverStuck`: as long as an item is in flight, one of the
handler's actions has its guard (`HandlerReady` lists the guards; TLC agrees that it is
`ENABLED Handler`, which the prover has no rule for).  `HandlerProgress`: every step of the
handler moves the stage on or advances a row, and rows only advance, so an item
takes finitely many steps.  `EndedAtCommit`: when an item past every deadline reaches its
commit, the entry has ended.  Only the last step, from these four and the fairness of
`Handler` and `Restart` to `EntryEnds`, is left to TLC.

`ExitTracks_proofs` proves, under either binding, `TypeCorrect`, `ChecksPass`
(`NeverRaises`) and `ClosesAreAttempts` (`ClosedAtSelected`) from one invariant, `IInv`.
Its parts: `SoundTables`, what the rows of one track say of one another (an intent is
the rule's inside the window or the fallback's at its instant, the position and the route
follow it, the fill is the accepted attempt); `Recent`, an intent's item is committed or
in flight, from which follows that no position closes at the observation that asked;
`Progress`, how far the handler has come with unrouted positions and selected fills at
each stage; `AtTurn`, what the handler knows of the track it is at; `Reversible`, that a
rollback returns to tables at rest.

When a batch is one commit it further proves `RuleFollowed` (`ExitRuleFollowed`) and
`FillsApplied` (`AcceptedExitFills`).  These speak of idle moments only; `FInv` adds what
holds in between.  `Faithful`: what the tables know of a track is what the committed items
decide, or already what the item in flight decides, and which of the two by the stage and
the turn; after a crash a clock item may have reached some of the tracks, a market item
none.  `Accepted`: an accepted attempt is selected unless the handler is just about to.
`FaithfulSaved`: the same of what a rollback returns to.  When every statement commits on
its own both properties fail (`exit_lost_trigger`, `exit_lost_fill`), and
`KeepsPromise` proves what remains: `Spec => ExitPromised`, the exit implements
`ExitPromise`.  The take-profit and activation targets are assumed positive, which the
orchestrator requires of its specifications
(`phase4/paper_exit_orchestrator_v0_1.py:54`, `:60`): with a target of 0 a trail could be
active without a peak.

For `FallbackEnds` it proves the same four facts, under both bindings: `NothingTakenBack`
but by the rollback of a batch, `HandlerNeverStuck` (also while a restarted process
rebinds), `HandlerProgress` (the round of stages and tracks, or a row that only advances),
and `LeavingAtCommit`, from the invariant `Fired`: at a tick past its fallback a track has
an intent once the orchestrator is past it and is leaving once the bridge is.  A trigger
that a crash has lost does not matter, because the fallback fires for every position still
open.

`FirstPullbackBinding_proofs` proves `KeepsFence`: `Spec => FencePromised`, that is, the
binding implements `FencePromise`, under v0.4 and v0.5 and under both drivers.  Its
invariant `FInv` says that the cursor never passes the watermark of an incomplete timer
(`Fenced`), that a rolled-back batch returns to fewer rows and the same timers
(`Reversible`), and that the limit a batch in progress has read lies beyond none of the
fences, while outside a batch the process is at a timer whose watermark is the cursor or
at nothing (`InBatch`, `OffBatch`).

`FirstPullbackLedger_proofs` proves the safety properties of the binding, each from what
the ones before it need.  `NothingLost` (`LosesNothing`): `LInv` says that the tables
agree, those in force and those a rollback returns to: what is delivered the runner has
committed, what is not belongs to a planned input.  `NeverRaises` (`BindingNeverRaises`),
under the active drain only: `HInv` says that at most one input is in hand, the row after
the cursor or the first timer that waits at it, and `OInv` that the items delivered are the
lower ones.  `TypeOK` (`TypeOKAlways`) and `OneWinner` (`OneWinnerAlways`): `WInv` says that
every candidate comes from a row, and that behind a winning one only market and clock items
stand; `RowEventsSay` and `TickEventsSay` say what a plan contains, event by event.

`CausalOrder` (`CausalOrderAlways`), again under the active drain, compares the deliveries
with a log defined by recursion along the schedule.  It needs no induction over data,
because the schedule only grows at its end: a new row comes after everything scheduled, and
so does a new timer, which captures the last row (`CollectSchedule`, `TickSchedule`).  `CInv`
therefore carries two sequences along that the program does not have: `q`, the inputs in
causal order (`Sorted`), and `f`, what the strategy has said after each of them (`Telling`),
extended by one at a time.  `Reached` says that the inputs planned are the first `m` of `q`
and that runs, winner and outbox are what `f[m]` says, in force and after a rollback.  `Done`
is why the next input planned is the one at `m + 1`: the rows up to the cursor are planned,
and of the timers exactly those executed.  The log defined by recursion is then `f`, because
a function that satisfies its equations is the only one (`CausalLogIs`, by the least place
where two would differ), and the schedule is `q` because a strict order leaves each input
the place that the number of inputs before it gives (`ScheduleIs`).  That the runner's items
are the first of the outbox, one by one, is `Own`.

For `DrainEnds` under the active drain: `NothingTakenBack` but by the rollback of a batch
(inputs and timers advance, a finished run and a winner stay, a delivered item stays
delivered, the runner takes one item more or none), `HandlerNeverStuck`, from `Driven`, what
the process knows of the timer it drives, and `DrainReady`, that short of the fence the
drain has admitted a row and at the fence the next timer is one not yet complete; and
`HandlerProgress`.  All three are stated for the active drain: `graceful_timer_drain`
never takes an earlier incomplete timer, and waits behind it (`binding_worker`).

`OOSLifecycle_proofs` proves `OneWriterAlways`, `StateVerifiesAlways`,
`WithinWindowAlways` and `HandoffAgreesAlways`.  `OneWriter` alone is not inductive: the
state file must also be well formed (`Shaped`), name at most one active segment, the last one
(`Consistent`), each worker past its claim must be the owner it names (`Writers`), and the
journal's cursor must lie behind the paper's and that behind the source's (`Behind`).  The save of
a stale copy is set apart: `Steps` are all the other steps, and a save of what the journal
still says (`Readopt`) is one of them.  Everything is first shown for `Steps` from the strong
invariant `Intact`; then that a save of anything else needs a handoff over an open segment,
and leaves `CutOff`: frozen, no process named.  From there no step but another save changes
the journal, so what does not speak of the owner (`Kept(TRUE)`: the journal verifies, one
process at most is past its claim) still holds, and `Inv` is `Intact \/ CutOff` with what both
share.  `Copied` says that every copy is itself the sound journal (`Sound`) of a stopped run,
and `Backed` that there are copies only once there is a handoff.

For the window the invariant is `Bounded`: the instant a worker read and will act on never
exceeds the target, because the target only grows between segments and a busy state is
`ACTIVE` or `FROZEN` (`Busy`).  For the handoff: once it is written over an idle run the
journal is `Settled` (no process, and frozen or under the lock), so there is nothing to
reconcile, record, fail or append, every copy says the same (`Mirrors`), and every step
leaves it `Unmoved`.  `TypeOKAlways` gives the types.

`NothingTakenBack` is the action property of the same module: a step either moves the run
forward only (`JournalForward`) or is the save of a stale copy after a handoff was written
over an open segment (`Overwritten`), and the two databases grow in any case.  Forward means:
the journal's cursor, watermark, count and target never shrink; a segment is never removed and
only goes from pending to owned to ended; an `INVALID` run, or a frozen one without a process,
keeps every field of its journal for ever; and the boundary moves only once it has passed and
while no process is named.  It needs one invariant more, `Doomed`: a run becomes `INVALID` in a
section of its own worker, as `OOS_INCOMPLETE`, so no finalizer ever holds the lock over it
and the second half of a finalization cannot freeze it.

It further proves `FailsOnlyOnStaleCountAlways`: what the fifth finding shows is
the only way the checks of `record_progress` fail a run that had no exception of its own.
Three invariants carry it.  `Launched`: a segment is spawned once and never owned before
its own process claims it, so a refused claim cannot fail it.  `Reading`: what a worker
read before its work still suits the journal when it is recorded (`ReadsAt`, place by
place), because nobody else moves the journal's numbers meanwhile (`Steady`).  `Honest`:
a failure, and an `INVALID` run, has its excuse.  `RecordReading` then leaves a single
check that can fail: the same cursor with another count.

`ShadowExecution_proofs` proves the five safety properties of the run.

`CursorsTellBridgedAlways` and `ExitsFollowParentAlways` follow
from one invariant, `IInv`, because neither is inductive alone.  `Queue` says what the rows or
intents a stage has read, and acts on one after the other, still satisfy when their turn
comes: the entry rows begin at the cursor, an entry being executed has no inventory yet, an
entry awaiting its inventory is `done`, an exit row stands right behind its cursor and no
entry awaited an inventory when it was read.  `Bridged` adds to the first property that an
exit the paper database does not have yet is unknown.  `Parents` adds to the second that
the entry of a registered exit is `inventoried`: since only entries that are not can
still become unsound, no exit that completed is ever found under an unsound entry.

`VerdictFollowsJournalAlways`, `AbortsExplainedAlways` and `TypeOKAlways` follow from
`JInv`, which adds to it how far each intent has come.  The difficulty is that the sequence
an intent is executed by grows with every answer, and that an execution begins it anew
after every crash, an intent half done having rows of its own and of its failure.  A table
(`Word`, `After`) gives the step at each place and the state after it, whatever the
answers; `PipelineTable` proves that `Pipeline`, a concatenation, is a beginning of that
table, as long as the answers decide (`Size`).  `Trail` then says that there is a number `k`
such that the answers, the history and the evidence are those of the first `k` steps and of
no other (`Answered`, `Traced`), but for the end that a failure brought about, which has its
cause in the journal (`Justified`).  `Frontier`: the step that is next is therefore the one
at `k + 1`; `NotDone`, `ToStep`, `KeepStep`: it is new, allowed where the intent stands, and
its evidence belongs there, so that none of the checks that would raise does; `Longer`: an
answer lengthens the table and leaves what was before it.  `VerdictReached` closes the
argument: the state after the last step is the verdict.  An intent that met a mishap is
excepted, as in the property.  Who is marked as unsound needs two more invariants:
`FellNow`, without a crash an intent that fell has nothing left but its work row, and
`Unsound`, which follows: only a crash lets the handler meet its own terminal state, and
then only a conflict of the replay marks it.  `Course` says what the process is at: an exception belongs to
the current intent, and while no process has crashed nothing else is open.  `Aborts` follows
from it: a failure record that says otherwise needs a crash between the record and the
replay, and a mishap, since of the causes in a journal at most one holds (`OneCause`).
`NothingTakenBack` is about every step, replays and crashes included: cursors, lineage, exit
evidence and inventories only advance, a history gains at most one row and none beyond a
terminal state, what is journaled is never replaced, and an intent once `done` is not
executed again.  What is written concerns an intent whose work is still open (the executor
and its handler), not yet claimed (the bridges) or done (the inventories).  An intent can be
marked as unsound a second time, when a crash falls after the first; `Marked` says that the
mark is then the exception in its journal, so the second one changes nothing.

`LiveCollector_proofs` proves `TypeCorrect` and the three safety properties of the run,
`NothingForgotten` (`GapsCovered`), `NoEarlyEnrichment` (`EnrichedAfterSettled`) and
`CleanLeavesNothing` (`CleanMeansComplete`), for any chain, payloads and limits, from one
invariant, `IInv` (`Inductive`).  `Busy` ties the jobs in progress to what the workers
await, which a restart undoes.  `Order` says that what the listener has not been told of
lies at or beyond every slot it remembers, so that a gap recorded later still reaches it,
and that no slot is confirmed by halves.  `Jobs` relates the rows of a signature
to its jobs: whoever may be enriched has all its events, settled or about to be.
`Covered` is the first property with the gap still in memory counted; `ReadSoFar` says of
the job being read that every slot no longer in its list is recovered or overlooked, which
is what makes `DONE` true; `Clean` that a clean report leaves empty queues.  The fold that
inserts a slot's inclusions is reasoned about as an ordered beginning
(`BeginningOrder`, `Handled`, `RecoveredInOrder`), without induction.
The step lemmas prove `Main`, the part of `IInv` the properties need; `Rest` adds that a
worker that has left is at nothing, and what kinds the other variables are.
`NothingTakenBack` needs more than the handlers' texts: a settled row is written again, by
the other worker or by a repeated answer, and keeps its status because both write the same
fate (`Jobs`), unless its signature is `premature`; even then it is never `processed`
again.  A job that is done is not queued again because what the workers move is
exactly what is in progress (`Busy`), or waits.

Only model-checked: liveness (`EntryEnds`, `FallbackEnds`, `DrainEnds`,
`DanglingResolves`, `EverythingObserved`, `JobsFinish`), which is out of the prover's reach:
it needs `ENABLED` and an induction over a measure.  The safety facts the first three
rest on are theorems, as said above.  Every safety property that a passing run checks is
stated by a theorem.

## 6. What is not modelled, and why

- Prices, costs, sizes, impact: their verdict is an input.  The arithmetic is
  planned as operators of its own.
- Several candidates of one mint in the runner, its handling of terminal skips, and
  `cancel_order`: planned with the runner's composition module and a module of the
  lifecycle store.
- The entry router v0.1 completion path and the bridges v0.1/v0.2, which the v0.2
  runner replaced; the bindings v0.1–v0.3, whose actions v0.4 keeps or overrides; the
  collectors v0.1–v0.3.3, which v0.3.4 replaced.
- Timers executed before their watermark is reached (the code answers `PENDING`), and
  the reconstruction of features after a restart, a pure function of the rows.
- Of the collection: arming (a fixed initial state), the salvage migration of one named
  run, `begin_segment` and `mark_invalid`, which only the selftest calls.
- Of the shadow sidecar: the identity, hash and schema checks of rows that never change
  once written; quote arithmetic and RPC answers, which are inputs.
- Of the collector: RPC failover and health, decoding of payloads, statistics; an exception
  inside the handling of one event (:2293), which the run's result reports as a decode
  error; a failure of the store outside the workers' `try` blocks, which ends a worker
  silently (`return_exceptions`, :2542).
- Research, audit, evaluation and replay programs: deterministic batch runs over
  frozen data, without interacting state.  They are most of the repository's lines.
- The components marked `not_modelled` in `PROJECT.json`, per the plan below.

## 7. Plan

Done: entry, exit, binding, collection, shadow execution and collector, the safety
properties of each proved.

Next, in this order:

1. **Runner composition**: the outbox as the source of several candidates of one mint,
   contexts and terminal skips; which candidate an observation reaches.
2. **Lifecycle store**: its full state machine, `cancel_order` included, with a proof
   that no transition goes back.
3. **Market source v0.2**, **strategy and clock**, **observability registry**,
   **multi-hour harness**: one small module each.
4. **Arithmetic**: cost model and price impact against a rational reference, float
   instants, and the phase-3 exit rules against the orchestrator's online ones.

Proofs: the safety of each later module as it is written.
