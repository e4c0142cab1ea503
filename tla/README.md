# AlphaSwarm: verification project

AlphaSwarm simulates a market's reaction to a rumour: a hundred LLM personas
decide in two or three rounds, each seeing its peers' earlier decisions. The
engine is one asyncio process behind a web UI and a command line. What is hard
in it is above all the coordination: who may call the model and when, what
happens to a slot, a permit, a run, a provider or a job when something fails or
is cancelled halfway, and what the screen, the graph and the files say
afterwards. Next to it there are pure algorithms that several parts compute
again in their own way and that have to agree.

This directory holds TLA+ models of both, TLC runs that check them on small
instances, and TLAPS proofs of safety properties for every instance. Paths below are relative to `src/alphaswarm/` in the repository
unless they start with `docs/` or `tests/`. `PROJECT.json` names, for every
definition that models code, the lines it stands for.

Contents: 1 inventory, 2 hazards, 3 modules, 4 correspondence with the code,
5 runs and bounds, 6 fairness, 7 proofs, 8 findings, 9 what is not modelled,
10 plan, 11 how to run.

## 1. Inventory

| Component | State it keeps | Operations | What is hard |
|---|---|---|---|
| Resource governor `governor.py`, `memory_monitor.py` | pressure state (5 values), gate, limit, slots in use, failure window and debt, monitor task, fatal error | `acquire`, `release`, monitor check, `start_monitoring`, `stop_monitoring` | one event wakes all waiters; clocks and counts cross five states; a dead monitor must be reported exactly where somebody listens |
| Rate-limit controller `inference/rate_limit.py`, `inference/retry.py` | semaphore, shrink counters, RPM and TPM buckets, shared cooldown | `acquire`, `release`, `report_wave_failures`, `note_rate_limited`, `before_retry` | cancellation in every sleep; a shrink that drains inside some caller's `acquire`; retries that must be paid for |
| Wave dispatch and worker `batch_dispatcher.py`, `worker.py` | one task per persona in a TaskGroup | `dispatch_wave`, `agent_worker` | hard stops cancel the siblings; a slot must come back exactly once; the cause of a hard stop has to survive the group |
| Run lifecycle `web/simulation_manager.py`, `simulation.py`, `services/runtime.py`, `seed.py` | lock, task, shock slot, phase and error on the StateStore, the cycle's status in the graph | `start`, `stop`, `inject_shock`, the run's coroutine, the done callback | about twenty awaits, each of which may fail or be stopped, some of them twice |
| Round engine `rounds.py`, `simulation.py`, `peers.py`, `metrics.py`, `influence.py` | the outcomes of the finished rounds, the round's wave and citation pairs | `run_round`, peer selection, abort check, persistence, influence, metrics | order of shock, dispatch, persistence and influence; what a failure between two writes leaves in the graph |
| Graph store `graph/`, `export.py`, `cli.py cycles` | Agent, Cycle, Decision, episode, shock and influence records | the transactions of a run; seeding and pruning by every command; delete, export; the reads of report, replay, history, interview and advisory | commands of any version run next to a run without a lock; a delete is a sequence of statements |
| Measures and statistics `metrics.py`, `consensus.py`, `influence.py`, `evaluation.py` | none | flips, scores, majorities, agreement, attention, ranks, calibration, verdicts | the same quantity is computed in up to five places; failed answers and ties |
| Evaluation `eval/` | fixtures, labels, registered defaults, cycles, baseline records | build, label, register, run a batch, sample baselines, score | processes that run for hours, are killed and started again, next to each other |
| Stored configuration `inference/config.py`, `web/routes/settings.py`, `services/runtime.py` | the file and its temporary, the runtime's cache | update (merge and save), test, cached read | a save interrupted at any step; readers with awaits between their reads; keys that belong to an endpoint |
| Ollama server and models `ollama_models.py`, `inference/ollama_provider.py` | the resident models, those asked to leave | load by chat, unload, `ensure_clean_state` | an unload is acknowledged before the memory is free; others load meanwhile |
| Interviews `interview.py`, `web/routes/interview.py` | the session table, an engine and a lock per entry, the history of a conversation | `ask`, clearing at run start | a provider is built across awaits while a run start clears the table |
| Replay `web/replay_manager.py` | replay store, `_starting`, lock | `start`, `advance`, `seek`, `stop` | must never overlap a live run, not even while it still reads |
| Orchestrator jobs `services/jobs.py`, `services/report.py`, `services/advisory.py`, `web/guards.py` | job statuses on the StateStore, tasks, failure codes | `start`, `record_refusal`, `_on_done` | one orchestrator for runs, advisories and reports; the routes await between check and start |
| Post-run pipeline `services/post_run.py` | its task in `_bg_tasks` | `on_complete` | must follow every completed run, must not be overtaken by the next one, must not trip over its own job |
| Providers and budget `inference/openai_provider.py`, `anthropic_provider.py`, `ollama_provider.py`, `budget.py`, `factory.py`, `schema.py` | schema and seed support flags, spend meter | `chat`, retry loop, budget gate, preflight, placement of a role | a flag learnt in one call and used in another; spend checked before and booked after a call; what is local is decided in six places |
| Replies and prompts `inference/structured.py`, `parsing.py`, `worker.py`, `prompts/` | none | find and validate an object in a reply, build the messages of a prompt | two parsers, three tiers, text that looks like an instruction |
| Market context `market_context.py`, `ingestion/`, `context_formatter.py`, `security/sanitize.py` | none across runs | resolve tickers, fetch, clean, cut to a budget, anonymize | late and failed symbols in one batch, ambiguous names |
| Advisory `advisory/` | none | evidence, question, reply, report | the portfolio must stay private; the report has to be about what is held |
| Failures and codes `errors.py`, `web/errors.py`, `cli.py` | none | from an exception to an agent's decision, a wave's end, a code | overlapping classes; several errors at once |
| Broadcast `web/broadcaster.py`, `web/connection_manager.py`, `web/routes/websocket.py` | the last key sent, the registry of clients and writers, one queue of length one per client | `broadcast_tick`, `connect`, `disconnect`, writer task | a frame is built only when its key moved; latest frame wins; a slow client must not delay the others |
| Reports' text, doctor and readiness probes, holdings and health routes, logging, telemetry, frontend | none or configuration | | text and I/O; nothing concurrent of their own |

How they interact: `SimulationManager.start` checks the replay, the pipeline and
the jobs, takes its lock, clears the interview sessions and creates the run's
task. The task reads the configuration (through a cache that settings requests
write behind), opens the providers, seeds with the orchestrator, unloads it,
opens a session of the governor (local worker) or uses the rate-limit controller
(cloud worker), runs the rounds, writes each to the graph, and records the
status. Every persona of a wave passes the controller. The task's done callback
frees the lock and starts the pipeline, which runs the advisory and the report
as jobs on the same orchestrator. The broadcaster reads the StateStore, or the
replay's store when there is one. Everything in the web process runs on one
event loop: between two awaits nothing else happens, and at an await anything
may. The commands and the evaluation are other processes on the same graph and
the same files.

What makes each component correct is the list of properties in section 5.

## 2. Hazards

`PROJECT.json` lists forty hazards, each at its line, each with the properties
that cover it. They fall into seven groups.

1. *A change of state that a sleeping task does not learn of.* The governor
   wakes waiters by swapping an event, and a shut gate needs a way out; the
   limiter's cooldown grows while callers sleep (`SlotsKept`, `EveryWaitEnds`,
   `ServedAfterCooldown`, `RunEnds`).
2. *Cancellation between taking and giving back.* Slots, permits, reserved
   tokens, claimed shrinks, the governor's session, an interview's provider, a
   writer and its registry entry (`SlotsKept`, `PermitsConserved`, `QuotasKept`,
   `FreeMeansSettled`, `ProvidersOwned`, `RegistryIsClean`).
3. *A check that is stale when it is used.* The job routes, the replay start and
   the advisory's gate check, await, and act; a tick trusts the key of the last
   frame; a run reads its configuration four times; a provider's flag is read for
   a request that was built before it was set; the cap is asked before a call and
   told after it (`OrchestratorIsGuarded`, `RunsAreAlone`, `FramesAreTrue`,
   `StepsEarned`, `ConfigIsCurrent`, `DowngradeSavesTheCall`, `RefusalsAreBounded`,
   `CapHolds`).
4. *Two steps that must not come apart.* Status and phase, status and rounds, end
   of the run and start of the pipeline, window and slot of a shock, an unload and
   the next load (`StatusTellsTheTruth`, `ReportFollowsRun`, `NoShockLost`,
   `RoundsHoldOneModel`).
5. *Other processes on the same data.* Commands seed, prune, export and delete
   next to a run; batches, builds and baselines are killed and started again
   (`RoundsAreWhole`, `NothingStranded`, `CitationsHold`, `ReportedIsComplete`,
   `ScoredRunsComparable`, `ResultsLast`).
6. *One quantity computed in several places.* Flips, majorities, scores, what is
   local, what a reply means, what a failure is called (`ReadsAgreeWithRun`,
   `MeasuresAgree`, `StatsMatchDefinitions`, `CallsAgree`, `AnswersAreKept`,
   `FailuresKeepTheirCause`).
7. *Inputs at a boundary.* Closes and early closes, late symbols, ambiguous names,
   braces in strings, keys and endpoints edited one after the other (`NoLookAhead`,
   `InputsAreGrounded`, `KeysStayWithEndpoint`).

## 3. Modules

| Module | Models | Extends |
|---|---|---|
| `SlotLimiter` | what any concurrency controller promises (`inference/concurrency.py`): who may be admitted, when | |
| `Governor` | `ResourceGovernor` with its monitor and a wave of agents | |
| `GovernorHistory` | the same with what an observer remembers (calm readings in a row, how long the gate has been shut, whether the monitor failed) | `Governor` |
| `GovernorProofs` | theorems about both | `GovernorHistory` |
| `RateLimit` | `RateLimitController` with its callers | |
| `RateLimitHistory` | the same with the quota's account (what was earned, what was sent) | `RateLimit` |
| `RateLimitProofs` | theorems about both | `RateLimitHistory` |
| `RunLifecycle` | `SimulationManager` and the run's coroutine | |
| `RunHistory` | the same with what the user was told (accepted shocks, stopped runs) | `RunLifecycle` |
| `WebCoordination` | runs, replay, jobs and pipeline in one web process | `RunLifecycle` |
| `RunLifecycleProofs` | theorems about these three | `RunHistory`, `WebCoordination` |
| `Broadcast` | the broadcaster, its clients and their writers, and the two sources of a frame | |
| `BroadcastProofs` | theorems about it | `Broadcast` |
| `CloudCalls` | the worker's calls to an OpenAI-compatible endpoint: budget meter, retries, downgrade, seed fallback | |
| `CloudCallsProofs` | theorems about it, about the calls that fail, and about what is made of the answers | `CloudCalls`, `MCFailures`, `MCAnswers` |
| `PeerSelection` | which peers a reader is shown, which citations count | |
| `Measures` | what is computed from one wave of decisions, or two | `PeerSelection` |
| `Rounds` | a run's data: what it computes, and the transactions that store it | `Measures` |
| `CycleStore` | the cycle in the graph next to other commands, and what is read back | `Rounds` |
| `CycleStoreProofs` | theorems about it, and about the measures | `CycleStore`, `MCMeasures` |
| `EvalBatch` | the tools of `eval/` as processes on shared files and cycles | |
| `EvalBatchProofs` | theorems about it, and about the sessions of `Scoring` | `EvalBatch`, `MCMeasures` |
| `Scoring` | forecasts, labels and statistics of the evaluation | `Measures` |
| `ConfigFile` | the stored configuration: merge, save, cached read | |
| `OllamaServer` | which models are loaded | |
| `WebOperations` | settings, tests, interviews and advisories next to a run that starts again and again | `ConfigFile`, `OllamaServer` |
| `WebOperationsHistory` | the same with what its properties say of the past (what the file contained during a read, which saves overlapped) | `WebOperations` |
| `WebOperationsProofs` | theorems about both | `WebOperationsHistory` |
| `Replies` | from a reply to a decision; an interview's window | |
| `Exchanges` | one call of a provider: prompt, retries, tokens, price | |
| `Placement` | where a role's calls are made and under which limits; the schema each vendor is sent | `Exchanges` |
| `MarketContext` | from the seed's entities to the block that agents read | |
| `Advisory` | from portfolio, final round and reply to the report | `Measures` |
| `Failures` | the class hierarchy, the end of a wave, the codes | |
| `MCInputs` | the one variable of the run of the pure modules: the input it chose | |
| `MCMeasures`, `MCFailures` | what is checked of the measures, and of what fails, and which inputs the theorems about it are for | `Scoring`; `Replies`, `Exchanges`, `Failures`; both `MCInputs` |
| `MCAnswers`, `MCPlacement`, `MCMarketContext`, `MCAdvisory` | the same of the other pure modules, and the inputs that TLC tries | the modules they are about |
| `MCAlgorithms` | all of these in one run; its `InputsAreProved` checks that the inputs tried are among those of the theorems | `MCMeasures`, `MCAnswers`, `MCPlacement`, `MCMarketContext`, `MCAdvisory` |
| `MCBroadcast`, `MCCycleStore`, `MCEvalBatch`, `MCWebOperations` | instances for TLC: symmetry, bounds and constants | the modules they are named for |

`Governor` and `RateLimit` both refine `SlotLimiter` by a refinement mapping
(`ImplementsSlotLimiter`): a wave cannot tell which controller it got.
`WebCoordination` refines `RunLifecycle` with the identity as the mapping
(theorem `CoordinationRestricts`): the web process only restricts when a run may
start, so every property of runs holds in it. `CycleStore` composes a run's
transactions with those of the commands, `WebOperations` the configuration file
and the model server with the requests and the run that use both.

## 4. How state and actions correspond to the code

In all modules **one action is what the event loop runs between two awaits.**
An `await` on something that cannot suspend (a free `asyncio.Lock`, a free
semaphore, the StateStore's setters) is not a place where an action ends.

**Governor.** The variables are the attributes, named in the declarations. Time
is kept as ages: the code only compares `now - t > timeout`, so an age that
saturates one above the timeout is exact. A memory reading is one of the five
classes the thresholds distinguish (`memory_monitor.py:95-129`); the settings
order the thresholds, so a pause reading is a throttle reading too. An agent is
`out`, `ready` (about to evaluate the predicate of `acquire`), `parked` on the
event, or `holding`. `Check` is one `_apply_state_transition`, with one operator
per handler; `Release` is `release` with `_record_outcome` and `_maybe_regrow`;
`MonitorDies` and `MonitorDone` are the end of the monitor's task and its
callback, two steps because the callback is queued. `HardStop`, `CancelAgent`
and `CancelWave` are the ways a TaskGroup is torn down.

**RateLimit.** `sem` is `asyncio.Semaphore` as CPython implements it: free
permits, waiters in order, and waiters who own a permit but have not run yet.
`place` names the await of each caller; `sleep` is what is left of its
`_pause`. `Reserve`, `Refund` and `Refill` are the bucket's methods with integer
rates per tick. `DrainPermit` is the part of `acquire` in which a caller takes a
permit out of circulation for a shrink that is owed.

**RunLifecycle.** `pc` names the await at which the run's task is suspended, in
the order of the code: `opening` (providers), `git`, `seeding`, `releasing` (the
orchestrator), `creating` (the cycle), `context`, `loading` (the worker), then
per round `shocking`, `dispatching`, `persisting`, `influencing`, then
`unloading`, `unwatching` (`stop_monitoring`), `metrics`, `completing`,
`recording` (the terminal status), `closing` (the providers), `ended` (the task
is done, its callback is queued). `exc` is the exception that propagates.
`Stop` is `task.cancel()`: it marks the task, and the await the task is at
raises. `MayHaveWritten` is a transaction that was committed although its caller
was cancelled; a transaction that *fails* is taken to be rolled back. Several
awaits in a row that treat failure alike are one `pc` (for instance the graph
reads in `context`). The number of a run stands for its cycle's id.

**WebCoordination.** A request that starts a replay is `reading` (the signals)
and then `starting` (it holds the manager's lock and reads round 1). `asking`
holds the job routes that are between their first check and their start. `job`
is the StateStore's status with who started the job; `task` is the asyncio task,
`ended` until its `_on_done` has run. The pipeline is `created`, `gating`,
`advising` or `reporting`. `JobDone` clears the status *and* resumes the pipeline
in one step: `_on_done` was added to the task before the pipeline awaited it, so
the two callbacks run back to back. The cycle a job works on is abstracted to
the existence of a complete one.

**Broadcast.** A store is its version and what a frame shows of it; `version` is
the counter `_VERSIONS` from which both stores draw, so their versions never
meet. A mutation of several setters that run without an await between them is one
draw. `Goal` clamps a request to the cycle's depth; `BeginLoad` is an operation up
to the reads of `_load_round`, `loading` what they read, `Show` the one step that
switches the round. The operations hold the manager's lock while they read;
which requests wait for it is left out, so any may be the next. A client has an
`endpoint` (its handler: `open` in the receive loop, `leaving` while `disconnect`
awaits the writer), a `writer` task (`new` until its first step; `stillborn` when it
is cancelled before it), a `queue` and the frame in the writer's `hand`.
`Disconnect` and `Disconnected` are the two halves of `disconnect`. The clock is the
number of ticks since the last frame, saturating at the keepalive's.

**CloudCalls.** A caller is a persona: `idle`, `posting` (a request is under way) or
`pausing` (in `wait_before_retry`). Its `body` is what the properties tell apart in a
request: the response format and whether the seed is in it. `accepts` is the
endpoint, chosen once; an answer is a success, a busy status, a failure of this
prompt, or a refusal whose text names parts the endpoint does not accept. `noStrict`
and `sendSeed` are the provider's flags, `Raise` is what `_post_seeded` does with an
error. The controller is its permits (`InFlight`); which caller waits how long is
`RateLimit`'s matter. `spent` is what the meter knows, `charged` what the answers that
arrived cost; a request whose answer never arrives is charged to nobody here, as in
the code. The meter starts at 0: what the orchestrator spent before only lowers the
cap.

**Rounds and CycleStore.** `Rounds` carries a run's data through its awaits:
what it keeps in memory (`outcomes`, `wave`, `pairs`, what the live stream was
told) and the records it writes. Again `pc` is the await, and a transaction is
one step; it may also commit and still raise (the answer was lost), and `Kill`
is the process gone. Confidences, rationales and prompts are left out of the records;
what is kept of a decision is its signal, who was shown to its author and whom it
cites. `CycleStore` adds one other process. A command of any version of the
roster seeds the Agent nodes and prunes them in two transactions, then may
delete the cycle statement by statement, in batches (a batch is a round), or
export it in the two transactions the code uses. What the report, the replay, the
history, an interview and the advisory read back are operators over the records.

**EvalBatch.** Each tool is a process that may die anywhere and be started again. None
takes a lock on the files of `eval/`, so a build, a labelling and a registration are
split where another process can come between: a build checks for the fixture, downloads,
writes the named and then the anonymized variant; a labelling reads the labels,
downloads and replaces the file; a registration checks everything and then writes. Two
of these may be at work on one file at once, which `contended` records, as it does
`--force`; `run_eval.py run` may be started in two shells. Baselines are one process at a
time. A write is one step unless the process dies in it, which tears the file; the labels
are replaced atomically. (Two label processes share the name of the temporary file; that
both are in that one write at the same instant is not modelled.) A market
block is known by the download it came from, a cycle by its key, its block and the
version of the simulation defaults it ran with. Cycles that failed or were left
running count nowhere in `eval/` and are not kept.

**ConfigFile, OllamaServer and WebOperations.** A file is an inode, named by the task
that created it, and `path` and `tmp` say which inode has which name: only so can
two saves that share one temporary path be told apart. A save is its thread's steps,
open and truncate, write, replace, clean up; a full disk, a kill or another save may
come between them. The cache's key is the inode and how often it was written. A key
is known by the endpoint it was entered for, which is all that `KeysStayWithEndpoint`
asks of it. On the model server a chat loads, an unload is asked for and then
happens, or does not. `WebOperations` is these two with settings requests, connection
tests, interviews, an advisory and a run; each request is made once, the run again
and again. An advisory is the only kind of job here; jobs as such are
`WebCoordination`'s matter. `WebOperationsHistory` records what the properties say of the past:
what the file contained `during` a read, whether saves `overlapped`, whether
a save accepted before a run was `late`, whether a second model in memory is
`excused`, and whether settings `slipped` in after the advisory's last look.

**The pure modules** (`PeerSelection`, `Measures`, `Scoring`, `Replies`, `Exchanges`,
`Placement`, `MarketContext`, `Advisory`, `Failures`) are operators. Numbers are
integers or fractions as pairs, texts are sequences of the few tokens that the code's
patterns tell apart, prices and quotes are small numbers. `MCAlgorithms` has a state
per input and evaluates both sides of each agreement in it. Nothing there is
a second implementation of the code to compare it with: what is compared are two
programs of the repository, or a program and the definition of what it is named for.

## 5. Runs

All passing runs together fire every action. Deadlock is not checked where the
system may rightly stop (no user asks for anything). States and times are those of
TLC with two workers.

| Run | Bounds | States | What it shows |
|---|---|---|---|
| `Governor` | 2 agents, limit 1..2, window 2, timeout 1 tick, debt up to 1 | 115,794, 110 s | no slot is lost, no monitor failure is silent, aborts and scale-ups are earned, every wait ends; refinement of `SlotLimiter` |
| `RateLimit` | 3 callers, one call each, 2 permits shrinking to 1, one retry, cooldowns of 0 or 2 ticks, costs of 0 or 2, buckets of one | 109,922, 55 s | permits and shrinks conserved, quotas kept, every caller waits out the cooldown and gets through; refinement of `SlotLimiter` |
| `RunLifecycle` | 3 rounds, 2 runs | 111,868, 20 s | what is said of a run is true, and it ends |
| `RunStopEnds` | 2 rounds, 1 run | | a disagreement, section 8 |
| `WebCoordination` | 2 rounds, 2 runs, 2 replay requests | 351,228, 70 s | mutual exclusion and the pipeline's duties |
| `Broadcast` | 2 clients, 2 connections, a cycle of 2 rounds, 2 mutations after the start, keepalive of 2 ticks | 632,916, 175 s | frames of one moment, harmless skips, a clean registry, everyone who reads catches up |
| `CloudCalls` | 2 personas with 2 calls each, 2 permits, one retry per round of tries, a cap of two answers | 186,684, 130 s | spend near the cap, refusals of bounded cost, every call ends |
| `CloudDowngrade` | the same with one call each | | a disagreement, section 8 |
| `CycleStore` | three agents for 2 rounds; two agents for 3 rounds; two agents for 2 rounds next to commands of the same and of an older roster; abort at 40 %, one citation named | 552,436, 30 s | what is read back is what the run computed; rounds are whole; citations and reachability survive commands and kills |
| `EvalBatch` | one event, a named arm with 2 seeds and an anonymized one with 1, 2 downloads, 2 versions of the defaults; one tool process and one shell with 3 cycles and 1 upset or 1 cycle and 2 upsets; the same with two shells, with 2 cycles and no upset or 1 cycle and 1 upset; two tool processes, one shell and 2 cycles without upsets | 630,289, 140 s | what a batch reports is complete, what is compared is comparable, nothing finished or scored is lost, but for what overlapping tools or `--force` do |
| `WebOperations` | 2 requests, 4 bodies of a settings request, 1 crash | 1,618,087, 120 s | keys, providers, the configuration and the resident model, in every interleaving |
| `Algorithms` | 26 kinds of input, all inputs of each | 424,352, 80 s | the pure algorithms agree with each other and with their definitions |

*Why the bounds are enough.* In the governor two agents with a limit of one are what
it takes to have one holding while one is parked or arrives; a window of 2 fills,
slides and is cleared. Ages that saturate above the timeout distinguish everything
the code compares. `MaxDebt` caps a counter the code leaves unbounded: a shrink that
would pass it is not taken. Instances with three agents, and with three callers of two
calls, were checked in the course of the work and are too slow to keep as runs; the
safety properties are proved for any number anyway. `Calls`, `MaxRuns` and `MaxCalls`
bound how long a history is; two runs are needed to see what one leaves behind for the
next. Three rounds are the most the settings allow (`settings.py`, 2..3), and with
three there is a middle round that is neither first nor last. Two replay requests
compete for the manager's lock. The rate limiter's `MaxInFlight` of 2 allows one
shrink.

In `Broadcast`, two mutations are a round shown and a live change during it, in
either order; two connections are two clients at once, or one that comes back;
a keepalive of 2 ticks separates a frame sent because something changed from one
sent because time passed. In `CloudCalls`, two callers with two permits are one whose
request is under way while the other learns something; the second call of each starts
with the flags as the first left them; a cap of 2 is reached while a call is in flight,
and one retry is the least with which a round of tries can be used up. All 32 endpoints
are tried. In `CycleStore`, three agents are a reader with two peers, one of whom may
have failed; three rounds are two transitions; an older roster has an agent that the
current one lacks. In `EvalBatch`, three cycles are what a majority between blocks
needs, two upsets a build that is torn and then forced, or a kill and a changed default;
two shells are two batches at once, two tool processes two builds, labellings or
registrations that overlap. In `WebOperations`, two requests and a run are
three tasks with awaits; each pair of operations meets, and the updates are those that
keep, drop and move a key. It starts with a stored file; the case without one is
reached by nothing in the code, which never deletes it. In `Algorithms`, an interview of
seven turns with a window of three and blocks of two is trimmed up to twice, and a
summary of two exchanges forgets while one of nine does not.

A run is given one property per promise; several are conjunctions of smaller ones,
each of which is a definition with its own comment:

- `SlotsKept`: `NoLostWakeup`, `SlotsAccounted`. `StepsEarned`: `AbortJustified`,
  `ScaleUpEarned`. `EveryWaitEnds`: `GateReopensOrFails`, `WaitersAnswered`.
- `QuotasKept`: requests and tokens. `ServedAfterCooldown`: `ReservesAfterCooldown`
  (no tokens are taken while the cooldown runs), `CallersServed`.
- `StatusTellsTheTruth`: `CompleteMeansWhole` (a complete cycle has all its rounds),
  `CompleteIsDurable` (COMPLETE is shown only for a cycle the graph lists as complete),
  `PipelineOnlyForComplete`, `ErrorAgreesWithStatus`. `FreeMeansSettled`: when the lock
  is free the phase is settled, the monitoring session closed, the shock slot empty.
  `NoShockLost`: a complete cycle holds one ShockEvent per accepted shock.
- `OrchestratorIsGuarded`: `OneOrchestratorUser`, `BusyTellsTheTruth`. `RunsAreAlone`:
  `ReplayExcludesRun`, `PipelineBeforeNextRun`. `ReportFollowsRun`: `EveryRunReported`,
  `SkippedOnlyForUsers`.
- `FramesAreTrue`: `ReplayIsWhole`, `SkipIsHarmless` (if the key has not moved, every
  client has been given the frame a tick would build).
- `RefusalsAreBounded`: `RequestsBounded`, `SeedNeverStopsRun`.
- `CitationsHold`: `CitationsWereShown`, `EdgesAreCitations`. `NothingStranded`:
  `LeftoversReachable`, `AuthorsSurvive`. `ResultsLast`: `FinishedWorkSurvives`,
  `ScoresSurvive`.
- `ConfigIsCurrent`: `StoredConfigWhole`, `AnswersAreFresh`, `RunUsesOneConfig`,
  `AdviceStaysLocal`.
- `MeasuresAgree`: `FlipsAgree`, `FailuresCountNowhere`, `ScoresKeepTheirSense`,
  `AttentionAgrees`. `FailuresKeepTheirCause`: `CallEndsAsAnswered`,
  `FailureMarksAgree`, `CauseIsTold`, `WaveKeepsItsCause`, `RefusalStopsTheRun`.
- `AnswersAreKept`: `RepliesAreUnderstood`, `InterviewRemembers`. `CallsAgree`:
  `WaitsAreCapped`, `PromptsFenceData`, `EstimateMeetsMeter`, `CallsGoWhereConfigured`.
  `InputsAreGrounded`: `ContextIsWhatWasFetched`, `AdviceIsGrounded`.

Several of these hold only with an exception that the property names, because the
code makes no such promise in that case: `ConfigIsCurrent` excepts saves that overlap
and settings that were accepted before a run but saved during its start,
`RoundsHoldOneModel` a server that refused an unload, `ScoredRunsComparable` and
`ResultsLast` files on which two processes were at work at once and fixtures that were
rebuilt by force, and `CallEndsAsAnswered` connections to the Ollama server that break in
mid-call. Each exception is one of the observations of section 8.

Each property of a passing run comes with a *mutant*: a definition next to the
one it replaces, marked as a bug, under which TLC finds that property violated.

## 6. Fairness

Fairness is given to what goes on by itself and never to what a user, a model or
the memory does.

- *Governor.* Runnable agents run (weak); a woken agent that is again and again
  able to take a slot takes it (strong, because the event loop runs it before the
  next check can close the gate again); calls end, since every provider has
  timeouts; the clock ticks. The monitor's checks are fair only in states where a
  check acts whatever it reads (`CheckActs`): nobody promises that memory ever
  calms down, which is exactly why the escalation exists.
- *RateLimit.* Runnable callers run, sleeps end, calls end, the clock ticks. No
  fairness for calls, failures, 429s or cancellations.
- *RunLifecycle.* `TaskStep`: every await of a run returns, raises or times out
  (driver, HTTP and provider timeouts; `asyncio.timeout` around the terminal
  write). `TaskDone`: the event loop runs done callbacks.
- *WebCoordination.* The same, and that a job's work ends and its callback runs
  (`EndJob`, `JobDone`) and that the pipeline's task is scheduled. None for
  requests, and none for a replay, which a user may leave open for ever.
- *Broadcast.* The loop ticks (weak: `TickFails` may come in between, but not for
  ever), writers run, a cancelled writer runs to its `finally`, and a socket that is
  read from takes its frame. None for connections, mutations and replays, and none
  for the writer of a client that does not read, which may hang in `send_text`
  for ever; `CatchesUp` holds for the others all the same.
- *CloudCalls.* Every request is answered or times out (the client's timeouts), and
  every pause ends. Which answer comes is not fair: an endpoint may be busy for ever.
- *CycleStore, EvalBatch, WebOperations, Algorithms.* None: a process may be killed,
  and nobody has to come back.

The history modules keep the fairness of what they extend: a history variable
follows each step and blocks none.

## 7. Proofs

The theorems hold for every value of the constants that satisfies the named
assumptions: any number of agents, rounds, runs and viewers, any thresholds.
The assumptions are those of the settings (limits positive and ordered, at least
two rounds, percentages in range), that markers are distinct from what they mark, and
finiteness of what is finite: the agents of a roster, the positions, the callers, the
viewers and the events.
`CostsAssumption` says that the costs calls may report have a largest one: no reply is
longer than the longest context window.

**GovernorProofs.** `TypeCorrect`, `WakeupsNeverLost`, `SlotCountExact`, both
together as `SlotsAreKept`, and `Implements`. The inductive invariant is `TypeOK` together with `NoLostWakeup`,
`SlotsAccounted` and `WaveBound` (agents are inside only during a wave). The
argument for wake-ups: every step either leaves the predicate of `acquire` alone
for those who sleep or applies `Wake`, after which nobody is parked; `CheckNotifies`
and its companions say that of each operation. `Implements` maps holders, limit,
gate and failure to `SlotLimiter` and shows each step to be one of its steps; it
needs that no monitor is left when the governor is stopped.

Of the governor with its history, `CrashesAreHeard` and `StepsAreEarned`. `CrashInv` ties
what happened to what is on record: while a session lives, a monitor that failed is
still the session's monitor, and an error that was delivered has the wave aborting, so
only a session without either can end well. `ClockInv` bounds both clocks of the gate by
the time it has been shut, through every way from PAUSED to CRISIS; `CalmInv` says that
calm checks are counted in RUNNING alone. `HistoryWatches` makes the governor's own
invariant available.

**RunLifecycleProofs.** None of the six invariants is inductive: each speaks of a
run that is over and depends on what was true at every await before. `IInv` adds,
per await, whether an exception propagates (`ExcInv`), that the session is open
exactly inside its `try` (`SessionInv`), when the phase is settled (`PhaseInv`),
which rounds are persisted on the good path (`WholeInv`), and which statuses the
cycle can have, given the exception (`StatusInv`). Each part has a lemma with one
step per action that can disturb it. `FreeIsSettled`, `CompleteIsWhole`,
`ShownIsDurable`, `PipelineIsSound` and `ErrorsAgree` follow, and the last four as
`StatusIsTrue`.

`ShocksArrive` is about `RunHistory`: accepted shocks are conserved. On the good
path, what a run accepted is what is in the graph plus what a round has consumed
plus what is in the slot (`CountInv`); past the last round the slot is empty,
because the phase closes the window before the last round looks (`SlotInv`), and
it stays closed once the cycle may be complete (`ClosedInv`).

`Coordination` is about `WebCoordination`: at most one job has a task, none during
a run; the pipeline waits for exactly the job it started; a run starts only
without replay, jobs and pipeline. From it all five safety properties of the
module, `SkipsAreForUsers` among them, an action property; the run's
conjunctions are `GuardsHold` and `AloneInProcess`. `CoordinationRestricts`
carries the theorems about runs over.

**BroadcastProofs.** `BroadcastTypes`, `SkipsAreHarmless`, `ReplayRoundsWhole`,
`RegistryStaysClean` and `FramesTrue`, for any number of clients, cycles, rounds and mutations.
`SkipIsHarmless` is not inductive: the end of a replay moves the key back to the live
store's version, which may be a key that was sent before. `GreetedInv` therefore says
the same of the current store *and* of no store, and `VersionInv` (versions come from
one counter, so neither store has the other's) shows that a frame of the replay
cannot have left the live store's key behind. `RegistryAt` is the invariant of one
client: a registered task is the live writer of an open endpoint.

**CloudCallsProofs.** `CallTypes`, `SpendIsCapped`, `RequestsAreBounded`,
`SeedIsHarmless` and `RefusalsBounded`, for any number of personas, permits and retries and any cap.
`MoneyInv` is the headroom: what is spent plus the most the calls in flight may still
cost stays below the cap and `max_in_flight` such calls, because who enters has seen
the meter below the cap and holds a permit. `RequestsAt` counts per caller: the
retries of its current round of tries, one for a downgrade, and a whole earlier round
once the seed is gone; that a downgraded body implies the flag is what makes the
downgrade happen once.

`WhatFailedIsTold` is `FailuresKeepTheirCause` for what `MCFailures` takes for a call
(two or more tries, each answered by a success, an error or not at all), a wave (any
finite roster, any outcome of each agent, any order in which they end) and an endpoint
(any number of agents and retries, any answers). The Ollama client asks as often as a
cloud adapter, and answers when it does, unless its last answer is a connection that
broke in mid-call: then it has asked no more often, and its result is that failure. Of the classes, `RunCodeIs` and its
companions settle once what the tables say of each, so that the rest argues with a few
names. Of a wave, `EndedCalls` says which calls ended, `StoppedWave` and `WholeWave` what
it comes to. A call is a fold over its answers; `SubsetRecursion` shows that a recursion
over the subsets of a finite set has a solution, so the fold is one, `CallUnfolds` makes
it a sequence of states, one per answer, and `CallSoFar` is its invariant: a call that
is open has been retried after every answer so far, and one that is not ended with the
next.

`AnswersAreRemembered` is `AnswersAreKept` for every text, reply, number of tries and
interview (`OneText`, `OneReply`, `SomeTries` and `OneInterview` in `MCAnswers` say what
these are). Three of the four rest on folds: over the characters of a text, the
candidates of a reply, the turns of an interview. `FoldExists` says that the function
which the community modules choose for a fold exists, `FoldRuns` that the fold is then
the last state of a run that starts at the base and takes one step per element; what
holds of all states is shown by looking at the first one of which it does not.

- *Objects.* `IsObject` says without a scan what one object is: how many escapes precede
  a character tells whether it is escaped, how many quotes that are not escaped whether it
  is in a string, and of the braces outside of strings more are open than closed up to the
  last character. `ScanNext` shows that the scan of the code keeps these counts, one
  character at a time, so it stops at the last brace of the object (`ObjectIsClosed`).
  Before the object the text may contain anything but an opening brace, after it anything.
- *Replies.* `WrongFieldsAreKept` is the run of the error that is kept: wrong fields, once
  seen, stay. `TextsAre` lists which candidates are tried, `RepliesAgree` and
  `FirstGoodReply` draw the conclusions.
- *Interviews.* `KnownAt` is the invariant after each turn: what is known (summary, then
  window) was answered and is in ascending order; an answered turn that is missing is
  older than all of it and was given up by a full summary; and the window outgrows its
  size by no more than the summaries that failed. `TurnKeeps` shows it of a turn that is
  unanswered, added, or added and trimmed (`AddedIs`, `ForgettingKeeps`). A block may be
  as long as the window and the new turn together; in the code it is 6 of 12.

**RateLimitProofs.** `TypeCorrect`, `PermitsAreConserved`, `Implements` and
`NobodyReservesInCooldown`, for any number of callers, permits, retries and delays. The
first half is the semaphore by itself: `Sound` (nobody waits twice), `At` (who waits or
has been granted a permit) and `Permits` (free or granted), and a lemma on how each
operation changes the three; the withdrawal of a cancelled waiter and the hand-over of
permits to the queue are the hard ones. `IInv` says that those at the semaphore are
those whose `place` waits, and counts: permits, holders and drained permits add up, and
so do owed, claimed and done steps of a shrink. `MoveKeeps` reduces every action to what
one caller's move does to these sums. For the refinement it is enough that a step moves
at most one caller (`OneMoves`) and that the holders never outnumber what the shrinks
left, which is the sum again.

`QuotasAreKept` is about the ledgers of `RateLimitHistory`, which start with a full
bucket, gain with time and lose what is sent. What a bucket promises is a sum over
the future. `RequestsEarned` says that for every time ahead the ledger, with what will be
earned by then, covers all whose sleep ends by then; that a reservation sleeps exactly
as long as its deficit takes to earn makes it inductive, and a refund only widens the
margin. `TokensEarned` is the same for estimates, less the misestimate of each call in
flight: a call's real cost is known when it is over. A ledger that has been cut off at
what all calls that are left could use needs neither (`LeftRequests`, `LeftCalls`).
`LedgersWatch` carries the controller's own theorems over.

**WebOperationsProofs.** `OperationsTyped`, `Ownership` and `KeysStay` are about
`WebOperations`. A provider has one owner at every await between being built and being
closed, across a run start that clears the table (`HolderInv`; `OwnerInv`: an open
provider is with its user or is the engine of an entry). `KeyInv` is
`KeysStayWithEndpoint` said of everything that can become the stored configuration: what
a request read, what its thread merged, every inode. Its lemma `MergeRoleFits` is about
the merge of one role; the first attempt to prove it failed because the cases of
`KeepKeyOfProvider` overlapped, which TLC resolves by taking the first and the
definition does not. `ConfigCurrent` and `OneModel` are about `WebOperationsHistory`:
`FileInv` (the temporary file is not the stored one, what is cached under the file's
present key is what it holds, no key is of the future, and one read is under way at a
time),
`SaveInv` (as long as no two saves overlapped, one saves at most, what the path names is
a whole configuration, and where the save stands), `FreshInv` (what a read returns is
something the file contained while it was under way), `RunInv` (a run and the
orchestrator's jobs exclude each other, and unless a save comes late all that the run has
read is what is stored), `AdviceInv`, and `ModelInv` (unless excused, no test is under
way and, after the cleanup, no orchestrator is loaded during local rounds).

**CycleStoreProofs.** `StoreHolds`, `NothingIsStranded`, `WholeRounds`,
`CitationsAreSound`, `MemoryIsStored`, `ReadsAgree` and `MeasuresSayTheSame`, for every
roster, number of rounds, peer strategy and mix of versions, and any sequence of commands
next to the run. `CommandInv` is why they hold: a delete is let in only for a cycle that
is over, so it and the run exclude each other. `ProgressInv` says which rounds are stored
at each await, `WholeInv` that a stored round has one decision and one episode per agent,
`GroundInv` that a citation was shown to its author and held a position before (lemmas
`ShownAreCandidates`, for every peer strategy and draw, and `WavesAreGrounded`),
`AuthorInv` that who decided or was cited has a node, which the pruning of an older
version respects because it looks for decisions in the same transaction, and `EdgeInv`
that the edges of a round are the citations so far.

`ReadsAgree` needs a second invariant on top, `ReadInv`, about the records next to the
run's memory: each record says what its wave said, that of a round in progress included
(`KeptInv`); the edges of a round carry the weights it was streamed with, and in between
the pairs at hand are those of the edges (`WeightInv`); a consumed shock is stored
before the round goes on (`ShockInv`); the metrics, if they are there, are those of all
rounds (`EndInv`). `Records` sums up what this says of a complete cycle, and there is a
lemma for each reader. The count of flips in the metrics is a sum of a sum, which the
community modules define as a fold. `SumCounts` shows what it is: the counts satisfy the
equation of the recursive function that the fold chooses, so there is one, and a smallest
set on which it differs from the counts is impossible.

`MeasuresSayTheSame` is `MeasuresAgree` for every roster, every two rounds of answers
and every exposure (`TwoRounds`, `OneRound` and `OneExposure` in `MCMeasures` say what
these are), in four parts. `FlipsAreCountedOnce`: each of the seven counts is of the set
of those who changed position, or of a partition of it (`SumCounts`).
`FailuresWeighNothing`: each measure sees an answer only through who decided and what
(`DecidedAgree`). `ScoresAreSane`: the score is a pull over a weight (`NetIs`), and pulls
are compared by sums that add, scale and are monotone (`SumStep`, `SumAdds`, `SumScales`,
`SumMonotone`). `AttentionIsTheSame` counts the pairs of reader and peer twice
(`ReadingsByPeer`, `ReadingsByReader`), which is the whole of why a number of received
citations, a weight of influence and a rate of attention can agree.

**EvalBatchProofs.** `EvalTyped`, `ReportsAreTrue`, `ScoresAreComparable` and the
action property `NothingIsLost`, for any number of tool processes, shells, events, arms,
seeds and downloads. Each file has an invariant that holds as long as it is not contended:
at most one build of the event is under way, and what it has written is what the fixtures
hold (`FixtureInv`); a labelling has read all labels there are (`LabelInv`); while a
registration is under way nothing is registered (`RegisterInv`). `BlockInv` adds that every
cycle, the running child and each record saw the block its fixture holds today. Two
cycles under one block are comparable because a majority of blocks is unique
(`OneMajority`), and what is scored matches it (`MatchesAreScored`).

`NothingIsKnownAhead` is the evaluation's promise that nothing shown tells of what is
scored (`NoLookAhead`), for all series, early closes, horizons and headlines. The
sessions both series share are listed in ascending order, which `DaysAscend` shows to be
possible for every finite set of days (a smallest set without such a list would have one
without its last day). The base is the last session up to which all had closed, so the
next one had not, and neither had any that follows. Of the headlines, those kept are the
most recent, and as many as there is room for. November's early close is one of a month
of thirty days that begins on any weekday, so it is a finite case.

*Sums and folds.* The community modules define a sum over a set as a fold with a `CHOOSE`
inside, and the theorems for induction take an operator as a parameter, which the
provers cannot instantiate. Every result about a sum here therefore goes round it: the
statement gets a set of counterexamples, a smallest one is taken (`SmallestSubset`, `LeastOf`),
and one element is removed from it. A fold along a sequence is turned into a run of
states (`FoldRuns`).

*Only model-checked:*

- the liveness properties (`EveryWaitEnds`, `CallersServed`, `RunEnds`,
  `EveryRunReported`, `CatchesUp`, `EveryCallEnds`), which need fairness and `ENABLED`;
- `StatsMatchDefinitions`: ranks, quantiles, verdicts and weights of fixed short series,
  whose definitions divide and sort;
- `CallsAgree`: a schema is a tree and `Placement` walks it with `RECURSIVE` operators,
  beside which there can be no theorem; waits are powers, prices are chosen by prefixes;
- `InputsAreGrounded`: `MarketContext` and `Advisory` filter and sort sequences
  (`SelectSeq`, `SortSeq`).

`RECURSIVE` operators are used in `Placement` and `MCPlacement` alone. Definitions that
provers and TLC read differently are avoided: guards of a `CASE` exclude each other, and
a union of a `UNION` is in parentheses.

## 8. Findings

Two runs end in a counterexample on purpose: each states what a document or a
comment of the repository says, and TLC shows what the code does instead.

- `RunStopEnds`: a Stop that arrives while the run waits for the monitor it has
  just cancelled is swallowed by the `suppress` meant for that monitor
  (`governor.py:185`); the run completes and reports.
- `CloudDowngrade`: a call whose strict request is under way when another call's
  400 sets `_no_strict` is told that its schema was "rejected after the json_object
  downgrade" although it never tried json_object (`inference/openai_provider.py:371`,
  against `:339`). On an endpoint without strict schemas, the first wave of a run
  loses every call in flight but one.

Others were met while modelling and have no run of their own. Where a property would
have been violated by one of them, it names the case as an exception.

*Runs and the graph.*
- A Stop while the committed creation of the cycle is awaited, or a second Stop during
  the terminal write, leaves a cycle `running` that no log line explains (`seed.py:248`,
  against `docs/DECISIONS.md:380-382`). So does a killed run, and `cycles delete`
  refuses a running cycle.
- A lost acknowledgement of `set_cycle_status("complete")` is followed by "failed".
- A run cancelled before its first step leaves the phase COMPLETE although
  `simulation_manager.py:177-182` promises IDLE; a Stop between COMPLETE and the end
  of the task skips the pipeline although `post_run.py:63` says it runs after every
  completed simulation; a Stop that replaces an error hides it from the screen.
- An export reads the status and the rows in two transactions, so a delete in
  between can give a file of a complete cycle with rounds missing (`export.py:223`,
  against `docs/DECISIONS.md:395`).
- `write_shock_event` writes nothing and says so to nobody if the Cycle is gone;
  `read_shock_event` takes any of several (`LIMIT 1` without an order).
- An influence weight can exceed 1: all citers count, but only active agents divide.
- A hard stop that meets another escaping exception leaves `dispatch_wave` as an
  `ExceptionGroup`.

*Governor and limiter.*
- A caller in its pacing sleep sends its request during a cooldown that began
  meanwhile (`inference/rate_limit.py:276`, against `:277` and `:389`).
- Successes may regrow the governor's limit past the level before the shrink, because
  a scale-up does not repay the failure debt (`governor.py:309`, against
  `docs/DECISIONS.md:630`); the ramp out of a crisis also takes a step on a reading in
  the throttle or the pause zone (`governor.py:643`, against the comment at `:616`);
  the done callback of a dead monitor may record its failure after `stop_monitoring`
  has reset the session (`governor.py:400`), which only a governor that is opened
  again would notice.
- A 422 that names the schema stops the run although `inference/openai_provider.py:331`
  exempts refusals that are about the schema. Two OpenAI-compatible roles share one retry gate and
  its limits even if their base URLs differ.

*Calls.*
- The Ollama client neither retries nor wraps a connection that breaks in mid-call
  (`ollama_client.py:231`; httpx's `ReadError` and `RemoteProtocolError` are no
  `ConnectError`), although `errors.py:61` promises downstream code a single exception
  type and the cloud adapters retry every transport error
  (`inference/openai_provider.py:355`). In a wave it is one failed decision; in the
  parsing of the seed it ends the run, as `internal_error`.

*Web process.*
- Overlapping saves share one temporary path (`inference/config.py:286`, against
  `:252`); the later one's update can be lost even without a crash.
- A settings request accepted before a run may be saved between the run's reads of
  the configuration, whose providers, controller and provenance then differ.
- An interview that builds its provider while a run start clears the table keeps a
  provider that nobody closes (`web/routes/interview.py:130`).
- The advisory re-checks its gate, and `open_operation` reads the configuration again
  (`services/advisory.py:184`, `:196`): what is saved in between is used unchecked.
- `build_providers` promises to raise before any provider is built; the orchestrator
  is built, and never closed, when the worker's configuration is refused.
- A connection test of a local orchestrator that is under way at run start leaves both
  models loaded.

*Evaluation and text.*
- Baselines keep the records of a fixture that was rebuilt by `--force`
  (`eval/baselines.py:194`, against the methodology, line 78); an interrupted first
  build leaves a named fixture without its anonymized twin, and an interrupted
  `--force` build two that differ in their numbers.
- The tools of `eval/` take no lock on its files. Two builds of an event that both found
  no fixture overwrite each other's, or leave the two variants with different blocks
  (`eval/build_fixtures.py:119-131`). Two labellings at once, though of different events,
  lose the labels of the one that ends first (`eval/label_outcomes.py:103-105`).
- A registration that is interrupted in its write leaves a file that the next one keeps,
  and every scoring then raises until it is deleted (`eval/run_eval.py:1370`, `:258`).
- A label takes its base session from days common to ticker and benchmark, so a hole
  in the benchmark moves it away from the close that was shown.
- The marker "strict" in a refusal matches "restricted"; a schema's `anyOf` is not
  normalized; a model's version before a word hides its price suffix.
- An entity name that occurs twice gets the less relevant occurrence's ticker, and a
  proposal that agrees with an exact name only in its first word overrides it. The
  advisory draws its private headlines from all of them while the block shows five.

## 9. What is not modelled, and why

- What personas decide: an answer is any answer. Prompt wording and layout, report
  text, narratives, and the frontend: no property here is about them.
- HTTP routes as such, request validation, logging, telemetry, the doctor and the
  readiness probes: plain I/O or reads, without state of their own. Where a route
  awaits between a check and an act it is in `WebCoordination` or `WebOperations`.
- The lifespan's shutdown, which cancels what is left; the instance lock, which is the
  operating system's; `runs.lock` appears in `EvalBatch` as one child at a time.
- Neo4j's own concurrency: transactions are atomic, and a failed one has no effect
  unless it is one whose answer was lost. Indexes and constraints.
- The Anthropic and Ollama adapters' sockets. What they send, retry and charge is in
  `Exchanges`; concurrency of calls is checked for the OpenAI-compatible adapter alone,
  the only one whose flags one call sets and another reads.
- Randomness of the evaluation (bootstrap resampling, seeded orders): the statistics
  that are computed from the resamples are checked, not their distribution.
- Prices: a call costs some amount up to a bound, which the code does not state, in
  `CloudCalls`; `Exchanges` has the meter's and the estimate's arithmetic. Overrides
  that make a model free are not among its inputs, nor is a wait that a Retry-After asks
  for, which the backoff's cap does not bound (`inference/retry.py:148`).
- The fields of a frame and the wire format; a frame is what its source shows.

## 10. Plan

Done: the governor family and the rate limiter, runs and the web process, the broadcast
and the replay's view, the calls to a cloud endpoint and their budget, a run's data and
the graph next to commands, the evaluation's processes, and configuration, interviews
and local models next to runs, all of them proved up to what section 7 lists as only
model-checked; of the pure algorithms the measures, the sessions of the evaluation and
what becomes of a failure, and what is made of a reply and an interview, proved, and the
others, model-checked.

Next, in this order:

1. Theorems about the other pure algorithms: the price of a call, the parts of a prompt.
2. The report job next to the advisory in `WebOperations`, and an abstract
   `OrchestratorLease` that both it and `WebCoordination` implement.
3. The adapters' concurrency: preflights, and one meter for both roles.

## 11. Running it

From this directory, with TLC and TLAPS installed:

    tlc -config RunLifecycle.cfg RunHistory
    tlc -config Governor.cfg GovernorHistory
    tlc -config CycleStore.cfg MCCycleStore
    tlc -config WebOperations.cfg MCWebOperations
    tlc -config Algorithms.cfg MCAlgorithms
    tlapm RunLifecycleProofs.tla
    tlapm CycleStoreProofs.tla

`PROJECT.json` lists the module and the configuration of every run.
