---------------------------- MODULE RunLifecycle ----------------------------
(***************************************************************************)
(* One simulation at a time: SimulationManager (web/simulation_manager.py) *)
(* and the coroutine it runs in a task (services/runtime.py                *)
(* open_simulation, simulation.py run_simulation, seed.py inject_seed,     *)
(* rounds.py run_round).                                                   *)
(*                                                                         *)
(* pc names the await at which the task is suspended; an action is what    *)
(* the event loop runs from one await to the next.  The StateStore's lock  *)
(* is never held across an await, so its setters never suspend and are     *)
(* part of the step that calls them.  At every await the user may stop the *)
(* run, and the call awaited may fail.                                     *)
(***************************************************************************)
EXTENDS Naturals

CONSTANTS
  NumRounds,  \* settings.num_rounds
  MaxRuns     \* bound of the model: how many runs one history may start

ASSUME RoundsAssumption == NumRounds \in Nat /\ NumRounds >= 2
ASSUME RunsAssumption == MaxRuns \in Nat

VARIABLES
  pc,          \* the await of the run's task, or "none" when the lock is free
  exc,         \* the exception that unwinds the task, or how it ended
  cancel,      \* task.cancel() was called and not yet delivered
  run,         \* how many runs were started; also the current run's cycle
  phase,       \* StateStore phase; "round" is ROUND_n for n = round
  round,       \* StateStore round_num
  cycleShown,  \* StateStore cycle_id, 0 for None
  lastError,   \* StateStore last_error is set
  pending,     \* _pending_shock is set (the StateStore mirrors it)
  shocks,      \* how many shocks were consumed and not yet written
  monitoring,  \* the controller's monitoring session is open
  status,      \* Cycle.status of each run's cycle in the graph
  persisted,   \* how many rounds of each cycle are in the graph
  events,      \* how many ShockEvents of each cycle are in the graph
  triggered    \* the cycles whose post-run pipeline was started

vars == <<pc, exc, cancel, run, phase, round, cycleShown, lastError, pending,
          shocks, monitoring, status, persisted, events, triggered>>

graph == <<status, persisted, events>>
store == <<phase, round, cycleShown, lastError>>

Cycles == 1..MaxRuns
Exceptions == {"none", "cancelled", "error"}
Phases == {"idle", "seeding", "round", "finalizing", "complete"}
Statuses == {"none", "running", "complete", "failed", "cancelled"}

\* The awaits of the task, in the order of a run in which nothing fails.
Awaits ==
  {"created", "opening", "git", "seeding", "releasing", "creating", "context",
   "loading", "shocking", "dispatching", "persisting", "influencing",
   "unloading", "unwatching", "metrics", "completing", "recording", "closing",
   "ended"}

Running == pc # "none"

\* tracker.cycle_id is set together with the StateStore's cycle id.
CycleKnown == cycleShown = run

\* Bug: the last round still counts as a round that can be shocked.
ShockWindowOneLong ==
  \/ phase = "seeding"
  \/ phase = "round" /\ round <= NumRounds

ShockWindowOpen ==
  \/ phase = "seeding"
  \/ phase = "round" /\ round < NumRounds

TypeOK ==
  /\ pc \in Awaits \cup {"none"}
  /\ exc \in Exceptions
  /\ cancel \in BOOLEAN
  /\ run \in 0..MaxRuns
  /\ phase \in Phases
  /\ round \in 0..NumRounds
  /\ cycleShown \in 0..MaxRuns
  /\ lastError \in BOOLEAN
  /\ pending \in BOOLEAN
  /\ shocks \in {0, 1}
  /\ monitoring \in BOOLEAN
  /\ status \in [Cycles -> Statuses]
  /\ persisted \in [Cycles -> 0..NumRounds]
  /\ events \in [Cycles -> Nat]
  /\ triggered \in SUBSET Cycles

Init ==
  /\ pc = "none" /\ exc = "none" /\ cancel = FALSE /\ run = 0
  /\ phase = "idle" /\ round = 0 /\ cycleShown = 0 /\ lastError = FALSE
  /\ pending = FALSE /\ shocks = 0 /\ monitoring = FALSE
  /\ status = [c \in Cycles |-> "none"]
  /\ persisted = [c \in Cycles |-> 0]
  /\ events = [c \in Cycles |-> 0]
  /\ triggered = {}

-----------------------------------------------------------------------------
(* The manager's operations. *)

\* Nothing in start() suspends once its checks pass, so it is one step.
Start ==
  /\ ~Running
  /\ run < MaxRuns
  /\ pc' = "created" /\ exc' = "none" /\ cancel' = FALSE /\ run' = run + 1
  /\ lastError' = FALSE /\ pending' = FALSE
  /\ UNCHANGED <<phase, round, cycleShown, shocks, monitoring, graph, triggered>>

\* Cancelling a task that is done changes nothing.
Stop ==
  /\ Running
  /\ pc # "ended"
  /\ cancel' = TRUE
  /\ UNCHANGED <<pc, exc, run, store, pending, shocks, monitoring, graph, triggered>>

InjectShock ==
  /\ Running
  /\ ShockWindowOpen
  /\ ~pending
  /\ pending' = TRUE
  /\ UNCHANGED <<pc, exc, cancel, run, store, shocks, monitoring, graph, triggered>>

\* _on_task_done: frees the lock and, after a run that returned, starts the
\* post-run pipeline in the same step.
TaskDone ==
  /\ pc = "ended"
  /\ pc' = "none"
  /\ pending' = FALSE
  /\ cancel' = FALSE
  /\ triggered' = IF exc = "none" THEN triggered \cup {run} ELSE triggered
  /\ UNCHANGED <<exc, run, store, shocks, monitoring, graph>>

-----------------------------------------------------------------------------
(* How an await ends. *)

Returns(p) == pc = p /\ ~cancel /\ UNCHANGED cancel

Raises(p) ==
  /\ pc = p
  /\ exc' = IF cancel THEN "cancelled" ELSE "error"
  /\ cancel' = FALSE

\* The transaction awaited at p may have been applied when the cancellation
\* reaches the task; one that fails is rolled back.
MayHaveWritten(f, v) ==
  \/ UNCHANGED f
  \/ cancel /\ f' = [f EXCEPT ![run] = v]

\* The handlers of _run; the phase is reset before the task ends.
Conclude(e) ==
  /\ pc' = "ended"
  /\ exc' = e
  /\ phase' = IF e = "none" THEN phase ELSE "idle"
  /\ lastError' = (lastError \/ e = "error")
  /\ UNCHANGED <<round, cycleShown>>

\* run_simulation's handlers write a terminal status if the cycle is known.
LeaveSimulation == pc' = IF CycleKnown THEN "recording" ELSE "closing"

-----------------------------------------------------------------------------
(* Opening and seeding. *)

\* A task cancelled before its first step never enters _run's try block.
CancelUnstarted ==
  /\ pc = "created" /\ cancel
  /\ pc' = "ended" /\ exc' = "cancelled" /\ cancel' = FALSE
  /\ UNCHANGED <<run, store, pending, shocks, monitoring, graph, triggered>>

Begin ==
  /\ Returns("created")
  /\ pc' = "opening"
  /\ UNCHANGED <<exc, run, store, pending, shocks, monitoring, graph, triggered>>

\* Before the providers are built there is nothing to close.
OpenFails ==
  /\ pc = "opening"
  /\ cancel' = FALSE
  /\ LET e == IF cancel THEN "cancelled" ELSE "error"
     IN  \/ Conclude(e)
         \/ pc' = "closing" /\ exc' = e /\ UNCHANGED store
  /\ UNCHANGED <<run, pending, shocks, monitoring, graph, triggered>>

Open ==
  /\ Returns("opening")
  /\ pc' = "git"
  /\ phase' = "idle"
  /\ UNCHANGED <<exc, run, round, cycleShown, lastError, pending, shocks,
                 monitoring, graph, triggered>>

BeginSeeding ==
  /\ Returns("git")
  /\ pc' = "seeding"
  /\ phase' = "seeding" /\ cycleShown' = 0
  /\ UNCHANGED <<exc, run, round, lastError, pending, shocks, monitoring, graph, triggered>>

Seed ==
  /\ Returns("seeding")
  /\ pc' = "releasing"
  /\ UNCHANGED <<exc, run, store, pending, shocks, monitoring, graph, triggered>>

\* inject_seed unloads the orchestrator on every path out of its try block;
\* an exception in prepare() or before it leaves without.
SeedFails ==
  /\ Raises("seeding")
  /\ pc' \in {"releasing", "closing"}
  /\ UNCHANGED <<run, store, pending, shocks, monitoring, graph, triggered>>

Release ==
  /\ Returns("releasing")
  /\ pc' = IF exc = "none" THEN "creating" ELSE "closing"
  /\ UNCHANGED <<exc, run, store, pending, shocks, monitoring, graph, triggered>>

Create ==
  /\ Returns("creating")
  /\ pc' = "context"
  /\ status' = [status EXCEPT ![run] = "running"]
  /\ cycleShown' = run
  /\ UNCHANGED <<exc, run, phase, round, lastError, pending, shocks, monitoring,
                 persisted, events, triggered>>

CreateFails ==
  /\ Raises("creating")
  /\ MayHaveWritten(status, "running")
  /\ LeaveSimulation
  /\ UNCHANGED <<run, store, pending, shocks, monitoring, persisted, events, triggered>>

\* start_monitoring() does not suspend; prepare() does.
StartSession ==
  /\ Returns("context")
  /\ pc' = "loading"
  /\ monitoring' = TRUE
  /\ UNCHANGED <<exc, run, store, pending, shocks, graph, triggered>>

\* The awaits outside the session's try block: nothing to undo.
SimulationFails ==
  /\ \E p \in {"git", "releasing", "context"} : Raises(p)
  /\ LeaveSimulation
  /\ UNCHANGED <<run, store, pending, shocks, monitoring, graph, triggered>>

-----------------------------------------------------------------------------
(* The rounds. *)

\* The phase changes before the shock is consumed: the window is closed when
\* the last round looks for a shock.
EnterRound(n) ==
  LET consumed == pending /\ n >= 2 IN
  /\ phase' = "round" /\ round' = n
  /\ pending' = (pending /\ ~consumed)
  /\ shocks' = IF consumed THEN 1 ELSE 0
  /\ pc' = IF consumed THEN "shocking" ELSE "dispatching"
  /\ UNCHANGED <<cycleShown, lastError>>

Load ==
  /\ Returns("loading")
  /\ EnterRound(1)
  /\ UNCHANGED <<exc, run, monitoring, graph, triggered>>

\* Bug: worker.prepare() stands before the session's try block.
LoadFailsOutside ==
  /\ Raises("loading")
  /\ LeaveSimulation
  /\ UNCHANGED <<run, store, pending, shocks, monitoring, graph, triggered>>

LoadFails ==
  /\ Raises("loading")
  /\ pc' = "unwatching"
  /\ UNCHANGED <<run, store, pending, shocks, monitoring, graph, triggered>>

WriteShock ==
  /\ Returns("shocking")
  /\ pc' = "dispatching"
  /\ shocks' = 0
  /\ events' = [events EXCEPT ![run] = @ + 1]
  /\ UNCHANGED <<exc, run, store, pending, monitoring, status, persisted, triggered>>

Dispatch ==
  /\ Returns("dispatching")
  /\ pc' = "persisting"
  /\ UNCHANGED <<exc, run, store, pending, shocks, monitoring, graph, triggered>>

\* persist_round is one transaction.
PersistRound ==
  /\ Returns("persisting")
  /\ pc' = "influencing"
  /\ persisted' = [persisted EXCEPT ![run] = round]
  /\ UNCHANGED <<exc, run, store, pending, shocks, monitoring, status, events, triggered>>

\* Bug: the round is run again.
SameRound ==
  /\ Returns("influencing")
  /\ round < NumRounds
  /\ EnterRound(round)
  /\ UNCHANGED <<exc, run, monitoring, graph, triggered>>

NextRound ==
  /\ Returns("influencing")
  /\ round < NumRounds
  /\ EnterRound(round + 1)
  /\ UNCHANGED <<exc, run, monitoring, graph, triggered>>

Finalize ==
  /\ Returns("influencing")
  /\ round = NumRounds
  /\ pc' = "unloading"
  /\ phase' = "finalizing"
  /\ UNCHANGED <<exc, run, round, cycleShown, lastError, pending, shocks,
                 monitoring, graph, triggered>>

\* A hard stop that races with a Stop hides it: the TaskGroup raises the error.
DispatchFails ==
  /\ pc = "dispatching"
  /\ exc' \in IF cancel THEN {"cancelled", "error"} ELSE {"error"}
  /\ cancel' = FALSE
  /\ pc' = "unloading"
  /\ UNCHANGED <<run, store, pending, shocks, monitoring, graph, triggered>>

RoundFails ==
  /\ \/ Raises("shocking") /\ MayHaveWritten(events, events[run] + 1)
        /\ UNCHANGED <<status, persisted>>
     \/ Raises("persisting") /\ MayHaveWritten(persisted, round)
        /\ UNCHANGED <<status, events>>
     \/ Raises("influencing") /\ UNCHANGED graph
  /\ pc' = "unloading"
  /\ shocks' = 0
  /\ UNCHANGED <<run, store, pending, monitoring, triggered>>

-----------------------------------------------------------------------------
(* The way out. *)

\* A failed unload is logged; only a Stop interrupts it.
Unload ==
  /\ pc = "unloading"
  /\ pc' = "unwatching"
  /\ exc' = IF cancel THEN "cancelled" ELSE exc
  /\ cancel' = FALSE
  /\ UNCHANGED <<run, store, pending, shocks, monitoring, graph, triggered>>

\* stop_monitoring() suppresses the CancelledError of the monitor task it
\* awaits, and with it a Stop that arrives while it waits.
StopSession ==
  /\ pc = "unwatching"
  /\ cancel' = FALSE
  /\ monitoring' = FALSE
  /\ pc' = IF exc = "none" THEN "metrics" ELSE "recording"
  /\ UNCHANGED <<exc, run, store, pending, shocks, graph, triggered>>

\* A monitor that died unseen is raised when nothing else propagates.
SessionWasFatal ==
  /\ pc = "unwatching" /\ exc = "none"
  /\ cancel' = FALSE
  /\ monitoring' = FALSE
  /\ exc' = "error"
  /\ LeaveSimulation
  /\ UNCHANGED <<run, store, pending, shocks, graph, triggered>>

\* Bug: the phase says COMPLETE before the status is written.
RecordMetricsAndShow ==
  /\ Returns("metrics")
  /\ pc' = "completing"
  /\ phase' = "complete"
  /\ UNCHANGED <<exc, run, round, cycleShown, lastError, pending, shocks,
                 monitoring, graph, triggered>>

\* A failed metrics write is logged.
RecordMetrics ==
  /\ pc = "metrics"
  /\ IF cancel THEN Raises("metrics") /\ LeaveSimulation
               ELSE pc' = "completing" /\ UNCHANGED <<exc, cancel>>
  /\ UNCHANGED <<run, store, pending, shocks, monitoring, graph, triggered>>

\* The status is written first; only then does the phase say COMPLETE.
Complete ==
  /\ Returns("completing")
  /\ status' = [status EXCEPT ![run] = "complete"]
  /\ phase' = "complete"
  /\ pc' = "closing"
  /\ UNCHANGED <<exc, run, round, cycleShown, lastError, pending, shocks,
                 monitoring, persisted, events, triggered>>

CompleteFails ==
  /\ Raises("completing")
  /\ MayHaveWritten(status, "complete")
  /\ LeaveSimulation
  /\ UNCHANGED <<run, store, pending, shocks, monitoring, persisted, events, triggered>>

TerminalStatus == IF exc = "error" THEN "failed" ELSE "cancelled"

RecordStatus ==
  /\ Returns("recording")
  /\ status' = [status EXCEPT ![run] = TerminalStatus]
  /\ pc' = "closing"
  /\ UNCHANGED <<exc, run, store, pending, shocks, monitoring, persisted, events, triggered>>

\* The write fails or outlasts its 5 s: logged, the cycle stays as it is.
LoseStatus ==
  /\ Returns("recording")
  /\ pc' = "closing"
  /\ UNCHANGED <<exc, run, store, pending, shocks, monitoring, graph, triggered>>

\* A second Stop takes the place of the exception that was propagating.
InterruptStatus ==
  /\ pc = "recording" /\ cancel
  /\ Raises("recording")
  /\ MayHaveWritten(status, TerminalStatus)
  /\ pc' = "closing"
  /\ UNCHANGED <<run, store, pending, shocks, monitoring, persisted, events, triggered>>

\* close_operation: a failed close is logged, a Stop interrupts it.
Close ==
  /\ pc = "closing"
  /\ Conclude(IF cancel THEN "cancelled" ELSE exc)
  /\ cancel' = FALSE
  /\ UNCHANGED <<run, pending, shocks, monitoring, graph, triggered>>

-----------------------------------------------------------------------------
OpenAndSeed ==
  \/ CancelUnstarted \/ Begin \/ OpenFails \/ Open \/ BeginSeeding
  \/ Seed \/ SeedFails \/ Release \/ Create \/ CreateFails

RunRounds ==
  \/ StartSession \/ SimulationFails \/ Load \/ LoadFails
  \/ WriteShock \/ Dispatch \/ PersistRound \/ NextRound \/ Finalize
  \/ DispatchFails \/ RoundFails

WindUp ==
  \/ Unload \/ StopSession \/ SessionWasFatal \/ RecordMetrics
  \/ Complete \/ CompleteFails \/ RecordStatus \/ InterruptStatus \/ Close

\* What the event loop does by itself, as opposed to what the user asks for.
TaskStep == OpenAndSeed \/ RunRounds \/ WindUp \/ LoseStatus

Next == Start \/ Stop \/ InjectShock \/ TaskStep \/ TaskDone

Spec == Init /\ [][Next]_vars

\* The event loop runs what is ready, and every awaited call returns or times
\* out; nobody has to start, stop or shock a run.
Fairness == WF_vars(TaskStep) /\ WF_vars(TaskDone)
FairSpec == Spec /\ Fairness

-----------------------------------------------------------------------------
(* Properties. *)

\* B8, simulation_manager.py:177: when the lock is free the phase is settled,
\* no monitoring session is left open and no shock waits for a run that ended,
\* whichever of a run's awaits failed or were stopped, once or twice.
FreeMeansSettled ==
  ~Running => phase \in {"idle", "complete"} /\ ~monitoring /\ ~pending

\* A cycle is complete only when every round of it is in the graph.
CompleteMeansWhole == \A c \in Cycles : status[c] = "complete" => persisted[c] = NumRounds

\* The UI says COMPLETE only for a cycle that the graph lists as complete.
CompleteIsDurable ==
  phase = "complete" => cycleShown # 0 /\ status[cycleShown] = "complete"

\* The advisory and the report are started only for cycles they will accept.
PipelineOnlyForComplete == \A c \in triggered : status[c] = "complete"

\* An error in the UI and the status in the graph tell the same story: a run
\* that shows an error is not listed as complete or as cancelled.
ErrorAgreesWithStatus == lastError => status[run] \in {"none", "running", "failed"}

\* What the phase, the error, the graph's status and the post-run pipeline say
\* of a run is one story, and a true one, wherever the run was interrupted
\* (simulation_manager.py:174-288, simulation.py:152-176, :589-605).
StatusTellsTheTruth ==
  /\ CompleteMeansWhole
  /\ CompleteIsDurable
  /\ PipelineOnlyForComplete
  /\ ErrorAgreesWithStatus

\* Every run frees the lock, so that the next one can start.
RunEnds == Running ~> ~Running
=============================================================================
